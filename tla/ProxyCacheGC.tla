---------------------------- MODULE ProxyCacheGC ----------------------------
(***************************************************************************)
(* A garbage collection beside the children that use the cache: the system *)
(* calls of gc_read_dir() and collect() (Daemon/Implementation/HTgc.c) on  *)
(* one directory, interleaved with those of ProxyCache.  Nothing keeps the *)
(* collector and the children apart; it looks at a file by one call and    *)
(* removes whatever has its name by another.  Which files a collection     *)
(* removes is decided in CacheGC; here it is any of those it has seen.     *)
(***************************************************************************)
EXTENDS ProxyCache

VARIABLES
    gpc,        \* the next step of the collector
    gcur,       \* its cur_time
    todo,       \* directory entries readdir() has not returned yet
    node,       \* the files in memory
    file_cnt,   \* dir_info->file_cnt: entries that are still there
    gseen,      \* the owner of the lock file it found to be too old
    entries,    \* entries[n]: what it has read from .cache_info
    victims     \* the files it will remove

gcVars == <<gpc, gcur, todo, node, file_cnt, gseen, entries, victims>>
childVars == <<now, conf, pc, request, timer, ims, seen, inode>>
allVars == <<vars, gcVars>>

\* The entries of the directory: the cached copies, backups and locks.
Entry == {"main", "tmp", "lock"} \X Name

FileOf(e) ==
    IF e[1] = "main" THEN main[e[2]] ELSE IF e[1] = "tmp" THEN tmp[e[2]] ELSE lock[e[2]]

\* The values of the variables.
GcTypeOK ==
    /\ TypeOK
    /\ gpc \in {"off", "scan", "unlock", "open", "collect", "remove", "done"}
    /\ gcur \in Nat
    /\ todo \subseteq Entry
    /\ node \subseteq {"main", "tmp"} \X Name
    /\ file_cnt \in Nat
    /\ gseen \in Child \cup {None}
    /\ entries \in [Name -> Nat \cup {NoEntry}]
    /\ victims \subseteq node

GcInit ==
    /\ Init
    /\ gpc = "off" /\ gcur = 0
    /\ todo = {} /\ node = {} /\ victims = {}
    /\ gseen = None /\ file_cnt = 0
    /\ entries = [n \in Name |-> NoEntry]

\* gc(): note the time, open the directory.
GcStart ==
    /\ gpc = "off"
    /\ gpc' = "scan"
    /\ gcur' = now
    /\ todo' = Entry
    /\ UNCHANGED <<vars, node, file_cnt, gseen, entries, victims>>

\* readdir() and stat() of a file that is not a lock.
ScanFile(e) ==
    /\ gpc = "scan" /\ e \in todo /\ e[1] # "lock"
    /\ todo' = todo \ {e}
    /\ IF FileOf(e) = None THEN UNCHANGED <<node, file_cnt>>
       ELSE node' = node \cup {e} /\ file_cnt' = file_cnt + 1
    /\ UNCHANGED <<vars, gpc, gcur, gseen, entries, victims>>

\* Mutant: any lock is taken for a hanging one.
GcLockTooOld_Any(owner) == TRUE

\* Mutant: >= for >.
GcLockTooOld_NotStrict(owner) == gcur - mtime[owner] >= LockTimeout

\* cur_time - st_mtime > cache_lock_timeout
GcLockTooOld(owner) == gcur - mtime[owner] > LockTimeout

\* readdir() and stat() of a lock file.
ScanLock(n) ==
    /\ gpc = "scan" /\ <<"lock", n>> \in todo
    /\ file_cnt' = IF lock[n] = None THEN file_cnt ELSE file_cnt + 1
    /\ IF lock[n] # None /\ GcLockTooOld(lock[n])
       THEN gpc' = "unlock" /\ gseen' = lock[n] /\ UNCHANGED todo
       ELSE todo' = todo \ {<<"lock", n>>} /\ UNCHANGED <<gpc, gseen>>
    /\ UNCHANGED <<vars, gcur, node, entries, victims>>

\* The unlink of the lock file, whoever has it by now.
UnlinkLock(n) ==
    /\ gpc = "unlock" /\ url[gseen] = n
    /\ TakeLock(None, n)
    /\ gpc' = "scan"
    /\ todo' = todo \ {<<"lock", n>>}
    /\ gseen' = None
    /\ file_cnt' = file_cnt - 1
    /\ UNCHANGED <<main, tmp, info, childVars, gcur, node, entries, victims>>

\* The directory is read; the entries of .cache_info are read.
ReadInfo ==
    /\ gpc = "scan" /\ todo = {}
    /\ entries' = info
    /\ gpc' = "open"
    /\ UNCHANGED <<vars, gcur, todo, node, file_cnt, gseen, victims>>

\* The ranking; then .cache_info is opened for writing, which empties it.
OpenInfo ==
    /\ gpc = "open"
    /\ victims' \in SUBSET node
    /\ info' = [n \in Name |-> NoEntry]
    /\ gpc' = "collect"
    /\ UNCHANGED <<main, tmp, lock, robbed, childVars, gcur, todo, node, file_cnt, gseen, entries>>

\* The unlink of a file, whichever has its name by now.
Unlink(e) ==
    /\ gpc = "collect" /\ e \in victims
    /\ IF e[1] = "main"
       THEN main' = [main EXCEPT ![e[2]] = None] /\ UNCHANGED tmp
       ELSE tmp' = [tmp EXCEPT ![e[2]] = None] /\ UNCHANGED main
    /\ victims' = victims \ {e}
    /\ node' = node \ {e}
    /\ file_cnt' = file_cnt - 1
    /\ UNCHANGED <<lock, info, robbed, childVars, gpc, gcur, todo, gseen, entries>>

\* What is written for n: the entry that was read, or one of zeros.
Written(n) ==
    IF <<"main", n>> \notin node THEN NoEntry ELSE IF entries[n] = NoEntry THEN 0 ELSE entries[n]

\* The entries are written; of those that children have appended meanwhile some
\* come to stand behind them and count, some are overwritten.
WriteInfo ==
    /\ gpc = "collect" /\ victims = {}
    /\ \E appended \in SUBSET {n \in Name : info[n] # NoEntry} :
          info' = [n \in Name |-> IF n \in appended THEN info[n] ELSE Written(n)]
    /\ gpc' = IF file_cnt = 0 THEN "remove" ELSE "done"
    /\ UNCHANGED <<main, tmp, lock, robbed, childVars, gcur, todo, node, file_cnt,
                   gseen, entries, victims>>

\* The directory is taken to be empty: .cache_info is removed.  (The rmdir then
\* fails if the directory is not empty.)
RemoveInfo ==
    /\ gpc = "remove"
    /\ info' = [n \in Name |-> NoEntry]
    /\ gpc' = "done"
    /\ UNCHANGED <<main, tmp, lock, robbed, childVars, gcur, todo, node, file_cnt,
                   gseen, entries, victims>>

GcNext ==
    \/ Next /\ UNCHANGED gcVars
    \/ GcStart
    \/ \E e \in Entry : ScanFile(e) \/ Unlink(e)
    \/ \E n \in Name : ScanLock(n) \/ UnlinkLock(n)
    \/ ReadInfo
    \/ OpenInfo
    \/ WriteInfo
    \/ RemoveInfo

GcSpec == GcInit /\ [][GcNext]_allVars

-----------------------------------------------------------------------------
(* Properties                                                              *)

\* What ProxyCache promises holds with the collector too: one writer, no lock
\* taken without a failure, only complete copies.
LocksAndCopies == LockExclusive /\ TheftNeedsFailure /\ CachedCopiesComplete

\* The collector decides to remove a lock only when its owner is dead, or lives
\* on without an alarm.
GcVerdict == gpc = "unlock" => gseen # None /\ Failed(gseen)

=============================================================================
