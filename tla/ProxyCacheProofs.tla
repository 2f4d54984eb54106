--------------------------- MODULE ProxyCacheProofs ---------------------------
(***************************************************************************)
(* Proofs about ProxyCache and ProxyCacheGC, for any number of children,   *)
(* documents and timeouts.  The invariants LockExclusive, StaleVerdict,    *)
(* TheftNeedsFailure and CachedCopiesComplete are not inductive one by     *)
(* one; IInv adds what ties a lock file to its owner and the owner's clock *)
(* to its alarm.  GcIInv is IInv beside a collector.  At the end each step *)
(* of a child or a collection is shown to be one of CacheContract's.       *)
(***************************************************************************)
EXTENDS ProxyCacheGC, FiniteSetTheorems, TLAPS

\* What a child runs through before it may create a lock file.
BeforeLock ==
    {"free", "request", "locked", "break", "stat", "info", "refresh", "create"}

\* Where a child is once its own lock file may have become the cached copy.
AfterInstall == {"discard", "entry", "exit", "dead"}

\* A lock file in place belongs to a child that works on that document, or
\* died while it did.
LockOwner ==
    \A n \in Name : lock[n] # None =>
        /\ url[lock[n]] = n
        /\ pc[lock[n]] \in Holding \cup {"dead"}
        /\ lock[n] \notin robbed

\* Only a child that had a lock can have lost it.
RobbedHadLock == \A p \in robbed : pc[p] \notin BeforeLock

\* The alarm is set when the cache is entered, and is never late.
AlarmInTime ==
    \A p \in Child :
        /\ cur[p] <= now
        /\ start[p] <= now
        /\ pc[p] \in {"free", "request"} => ~armed[p]
        /\ Live(p) /\ armed[p] => now <= start[p] + OutputTimeout
        /\ pc[p] \in Holding => start[p] <= mtime[p]

\* A response is installed only when it is complete.
InstallReady ==
    \A p \in Child : pc[p] = "install" => ino[p] \in {"whole", "unsized"}

\* The file of a child is a copy or a backup only after it was installed.
CopiesInstalled ==
    \A n \in Name : \A f \in {main[n], tmp[n]} \cap (Child \ robbed) :
        ino[f] \in {"whole", "unsized"} /\ pc[f] \in AfterInstall

IInv ==
    /\ TypeOK
    /\ LockOwner
    /\ LockExclusive
    /\ RobbedHadLock
    /\ AlarmInTime
    /\ StaleVerdict
    /\ TheftNeedsFailure
    /\ InstallReady
    /\ CopiesInstalled

-----------------------------------------------------------------------------
(* The steps of a child, grouped by what they do to the shared files.      *)

\* p reads the cache, or does not touch it.
Looks(p) == Accept(p) \/ HTHandle(p) \/ OpenCached(p) \/ Relay(p) \/
            locked(p) \/ lookup_stat(p) \/ lookup_info(p) \/
            cache_free_resend(p)

\* p dies, or loses its alarm.
Fails(p) == sig_pipe(p) \/ output_timed_out(p) \/ Crash(p)

\* p tries to create a lock file.
Locks(p) == lookup_refresh(p) \/ lookup_create(p)

\* p writes to its lock file.
Writes(p) == cache_write(p) \/ cache_free(p)

\* p moves or removes a copy.
Moves(p) == lookup_backup(p) \/ created_discard(p) \/ not_modified_restore(p)

\* p writes a cache info entry.
Notes(p) == created_entry(p) \/ not_modified_entry(p)

\* p removes or renames a lock file.
Releases(p) == locked_break(p) \/ created_install(p) \/
               not_modified_unlock(p) \/ cache_cancel(p)

LEMMA NextCases ==
    ASSUME [Next]_vars
    PROVE  \/ UNCHANGED vars \/ Tick
           \/ \E p \in Child : \/ Looks(p) \/ Fails(p) \/ Locks(p) \/ Writes(p)
                              \/ Moves(p) \/ Notes(p) \/ Releases(p)
BY DEF Next, Local, Remote, Looks, Fails, Locks, Writes, Moves, Notes, Releases

-----------------------------------------------------------------------------
(* Type correctness                                                        *)

LEMMA InitType == Init => TypeOK
<1>1. {NoEntry, 0} \cup Lifetime \subseteq Nat \cup {NoEntry}
  BY TimeAssumption DEF NoEntry
<1>2. Config \subseteq [expCheck : BOOLEAN, noConnect : BOOLEAN]
  BY ConstantAssumption
<1> SUFFICES ASSUME Init PROVE TypeOK
  OBVIOUS
<1>3. conf \in [expCheck : BOOLEAN, noConnect : BOOLEAN]
  BY <1>2 DEF Init
<1>4. info \in [Name -> Nat \cup {NoEntry}]
  BY <1>1 DEF Init
<1>5. /\ main \in [Name -> File]
      /\ tmp \in [Name -> File]
      /\ lock \in [Name -> Child \cup {None}]
  BY DEF Init, File
<1>6. pc \in [Child -> PC]
  BY DEF Init, PC
<1> QED
  BY <1>3, <1>4, <1>5, <1>6 DEF Init, TypeOK, Content

LEMMA NextType ==
    ASSUME TypeOK, [Next]_vars
    PROVE  TypeOK'
<1> USE TimeAssumption, ConstantAssumption
    DEF TypeOK, Goto, File, PC, Holding, Content, NoEntry,
        files, request, timer, inode
<1>1. CASE UNCHANGED vars
  BY <1>1 DEF vars
<1>2. CASE Tick
  BY <1>2 DEF Tick
<1>3. ASSUME NEW p \in Child, Looks(p) PROVE TypeOK'
  <2>1. CASE Accept(p)
    BY <2>1 DEF Accept
  <2>2. CASE HTHandle(p)
    BY <2>2 DEF HTHandle
  <2>3. CASE OpenCached(p)
    BY <2>3 DEF OpenCached
  <2>4. CASE Relay(p)
    BY <2>4 DEF Relay
  <2>5. CASE locked(p)
    BY <2>5 DEF locked
  <2>6. CASE lookup_stat(p)
    BY <2>6 DEF lookup_stat
  <2>7. CASE lookup_info(p)
    BY <2>7 DEF lookup_info
  <2>8. CASE cache_free_resend(p)
    BY <2>8 DEF cache_free_resend
  <2> QED
    BY <1>3, <2>1, <2>2, <2>3, <2>4, <2>5, <2>6, <2>7, <2>8 DEF Looks
<1>4. ASSUME NEW p \in Child, Fails(p) PROVE TypeOK'
  <2>1. CASE sig_pipe(p)
    BY <2>1 DEF sig_pipe
  <2>2. CASE output_timed_out(p)
    BY <2>2 DEF output_timed_out
  <2>3. CASE Crash(p)
    BY <2>3 DEF Crash
  <2> QED
    BY <1>4, <2>1, <2>2, <2>3 DEF Fails
<1>5. ASSUME NEW p \in Child, Locks(p) PROVE TypeOK'
  BY <1>5 DEF Locks, lookup_refresh, lookup_create, do_lock
<1>6. ASSUME NEW p \in Child, Writes(p) PROVE TypeOK'
  BY <1>6 DEF Writes, cache_write, cache_free
<1>7. ASSUME NEW p \in Child, Moves(p) PROVE TypeOK'
  BY <1>7 DEF Moves, lookup_backup, created_discard, not_modified_restore
<1>8. ASSUME NEW p \in Child, Notes(p) PROVE TypeOK'
  BY <1>8 DEF Notes, created_entry, not_modified_entry
<1>9. ASSUME NEW p \in Child, Releases(p) PROVE TypeOK'
  BY <1>9 DEF Releases, locked_break, created_install, not_modified_unlock,
              cache_cancel, TakeLock
<1> QED
  BY <1>1, <1>2, <1>3, <1>4, <1>5, <1>6, <1>7, <1>8, <1>9, NextCases

\* Every variable keeps to its type, whatever the children do.
THEOREM TypeCorrect == Spec => []TypeOK
BY InitType, NextType, PTL DEF Spec

-----------------------------------------------------------------------------
(* The other conjuncts of IInv, one by one                                 *)

\* A lock file goes with its owner: it is created by a child that never had
\* one, and removed in the step in which its owner stops holding it.
LEMMA LockOwnerStep ==
    ASSUME TypeOK, LockOwner, RobbedHadLock, LockExclusive, [Next]_vars
    PROVE  LockOwner'
<1> USE DEF TypeOK, Goto, LockOwner, RobbedHadLock, BeforeLock, Holding,
            files, request, timer, inode
<1>1. CASE UNCHANGED vars
  BY <1>1 DEF vars
<1>2. CASE Tick
  BY <1>2 DEF Tick
<1>3. ASSUME NEW p \in Child, Looks(p) PROVE LockOwner'
  BY <1>3 DEF Looks, Accept, HTHandle, OpenCached, Relay, locked,
              lookup_stat, lookup_info, cache_free_resend
<1>4. ASSUME NEW p \in Child, Fails(p) PROVE LockOwner'
  BY <1>4 DEF Fails, sig_pipe, output_timed_out, Crash
<1>5. ASSUME NEW p \in Child, Locks(p) PROVE LockOwner'
  BY <1>5 DEF Locks, lookup_refresh, lookup_create, do_lock
<1>6. ASSUME NEW p \in Child, Writes(p) PROVE LockOwner'
  BY <1>6 DEF Writes, cache_write, cache_free
<1>7. ASSUME NEW p \in Child, Moves(p) PROVE LockOwner'
  BY <1>7 DEF Moves, lookup_backup, created_discard, not_modified_restore
<1>8. ASSUME NEW p \in Child, Notes(p) PROVE LockOwner'
  BY <1>8 DEF Notes, created_entry, not_modified_entry
<1>9. ASSUME NEW p \in Child, Releases(p) PROVE LockOwner'
  BY <1>9 DEF Releases, locked_break, created_install, not_modified_unlock,
              cache_cancel, TakeLock
<1> QED
  BY <1>1, <1>2, <1>3, <1>4, <1>5, <1>6, <1>7, <1>8, <1>9, NextCases

\* O_EXCL: while a holder has its lock, nobody else creates one.
LEMMA LockExclusiveStep ==
    ASSUME TypeOK, LockOwner, LockExclusive, [Next]_vars
    PROVE  LockExclusive'
<1> USE ConstantAssumption
    DEF TypeOK, Goto, LockOwner, LockExclusive, Holding, files, request,
        timer, inode
<1>1. CASE UNCHANGED vars
  BY <1>1 DEF vars
<1>2. CASE Tick
  BY <1>2 DEF Tick
<1>3. ASSUME NEW p \in Child, Looks(p) PROVE LockExclusive'
  BY <1>3 DEF Looks, Accept, HTHandle, OpenCached, Relay, locked,
              lookup_stat, lookup_info, cache_free_resend
<1>4. ASSUME NEW p \in Child, Fails(p) PROVE LockExclusive'
  BY <1>4 DEF Fails, sig_pipe, output_timed_out, Crash
<1>5. ASSUME NEW p \in Child, Locks(p) PROVE LockExclusive'
  BY <1>5 DEF Locks, lookup_refresh, lookup_create, do_lock
<1>6. ASSUME NEW p \in Child, Writes(p) PROVE LockExclusive'
  BY <1>6 DEF Writes, cache_write, cache_free
<1>7. ASSUME NEW p \in Child, Moves(p) PROVE LockExclusive'
  BY <1>7 DEF Moves, lookup_backup, created_discard, not_modified_restore
<1>8. ASSUME NEW p \in Child, Notes(p) PROVE LockExclusive'
  BY <1>8 DEF Notes, created_entry, not_modified_entry
<1>9. ASSUME NEW p \in Child, Releases(p) PROVE LockExclusive'
  BY <1>9 DEF Releases, locked_break, created_install, not_modified_unlock,
              cache_cancel, TakeLock
<1> QED
  BY <1>1, <1>2, <1>3, <1>4, <1>5, <1>6, <1>7, <1>8, <1>9, NextCases

\* Only a lock file in place is removed, and its owner is past do_lock.
LEMMA RobbedHadLockStep ==
    ASSUME TypeOK, RobbedHadLock, LockOwner, [Next]_vars
    PROVE  RobbedHadLock'
<1> USE DEF TypeOK, Goto, RobbedHadLock, LockOwner, BeforeLock, Holding,
            files, request, timer, inode
<1>1. CASE UNCHANGED vars
  BY <1>1 DEF vars
<1>2. CASE Tick
  BY <1>2 DEF Tick
<1>3. ASSUME NEW p \in Child, Looks(p) PROVE RobbedHadLock'
  BY <1>3 DEF Looks, Accept, HTHandle, OpenCached, Relay, locked,
              lookup_stat, lookup_info, cache_free_resend
<1>4. ASSUME NEW p \in Child, Fails(p) PROVE RobbedHadLock'
  BY <1>4 DEF Fails, sig_pipe, output_timed_out, Crash
<1>5. ASSUME NEW p \in Child, Locks(p) PROVE RobbedHadLock'
  BY <1>5 DEF Locks, lookup_refresh, lookup_create, do_lock
<1>6. ASSUME NEW p \in Child, Writes(p) PROVE RobbedHadLock'
  BY <1>6 DEF Writes, cache_write, cache_free
<1>7. ASSUME NEW p \in Child, Moves(p) PROVE RobbedHadLock'
  BY <1>7 DEF Moves, lookup_backup, created_discard, not_modified_restore
<1>8. ASSUME NEW p \in Child, Notes(p) PROVE RobbedHadLock'
  BY <1>8 DEF Notes, created_entry, not_modified_entry
<1>9. ASSUME NEW p \in Child, Releases(p) PROVE RobbedHadLock'
  BY <1>9 DEF Releases, locked_break, created_install, not_modified_unlock,
              cache_cancel, TakeLock
<1> QED
  BY <1>1, <1>2, <1>3, <1>4, <1>5, <1>6, <1>7, <1>8, <1>9, NextCases

\* The clock does not pass the end of a running alarm.
LEMMA AlarmInTimeStep ==
    ASSUME TypeOK, AlarmInTime, [Next]_vars
    PROVE  AlarmInTime'
<1> USE TimeAssumption
    DEF TypeOK, Goto, AlarmInTime, Live, Holding, files, request, timer,
        inode
<1>1. CASE UNCHANGED vars
  BY <1>1 DEF vars
<1>2. CASE Tick
  BY <1>2 DEF Tick
<1>3. ASSUME NEW p \in Child, Looks(p) PROVE AlarmInTime'
  BY <1>3 DEF Looks, Accept, HTHandle, OpenCached, Relay, locked,
              lookup_stat, lookup_info, cache_free_resend
<1>4. ASSUME NEW p \in Child, Fails(p) PROVE AlarmInTime'
  BY <1>4 DEF Fails, sig_pipe, output_timed_out, Crash
<1>5. ASSUME NEW p \in Child, Locks(p) PROVE AlarmInTime'
  BY <1>5 DEF Locks, lookup_refresh, lookup_create, do_lock
<1>6. ASSUME NEW p \in Child, Writes(p) PROVE AlarmInTime'
  BY <1>6 DEF Writes, cache_write, cache_free
<1>7. ASSUME NEW p \in Child, Moves(p) PROVE AlarmInTime'
  BY <1>7 DEF Moves, lookup_backup, created_discard, not_modified_restore
<1>8. ASSUME NEW p \in Child, Notes(p) PROVE AlarmInTime'
  BY <1>8 DEF Notes, created_entry, not_modified_entry
<1>9. ASSUME NEW p \in Child, Releases(p) PROVE AlarmInTime'
  BY <1>9 DEF Releases, locked_break, created_install, not_modified_unlock,
              cache_cancel, TakeLock
<1> QED
  BY <1>1, <1>2, <1>3, <1>4, <1>5, <1>6, <1>7, <1>8, <1>9, NextCases

\* The verdict is right when it is made, since the lock of an armed owner was
\* written after its alarm was set and LockTimeout >= OutputTimeout; and it
\* stays right, since a child that failed has failed for good.
LEMMA StaleStep ==
    ASSUME TypeOK, StaleVerdict, AlarmInTime, LockOwner, [Next]_vars
    PROVE  StaleVerdict'
<1> USE ConstantAssumption, TimeAssumption, LockOutlivesOutput
    DEF TypeOK, Goto, StaleVerdict, AlarmInTime, LockOwner, Failed, Live,
        LockTooOld, Holding, files, request, timer, inode
<1>1. CASE UNCHANGED vars
  BY <1>1 DEF vars
<1>2. CASE Tick
  BY <1>2 DEF Tick
<1>3. ASSUME NEW p \in Child, Looks(p) PROVE StaleVerdict'
  BY <1>3 DEF Looks, Accept, HTHandle, OpenCached, Relay, locked,
              lookup_stat, lookup_info, cache_free_resend
<1>4. ASSUME NEW p \in Child, Fails(p) PROVE StaleVerdict'
  BY <1>4 DEF Fails, sig_pipe, output_timed_out, Crash
<1>5. ASSUME NEW p \in Child, Locks(p) PROVE StaleVerdict'
  BY <1>5 DEF Locks, lookup_refresh, lookup_create, do_lock
<1>6. ASSUME NEW p \in Child, Writes(p) PROVE StaleVerdict'
  BY <1>6 DEF Writes, cache_write, cache_free
<1>7. ASSUME NEW p \in Child, Moves(p) PROVE StaleVerdict'
  BY <1>7 DEF Moves, lookup_backup, created_discard, not_modified_restore
<1>8. ASSUME NEW p \in Child, Notes(p) PROVE StaleVerdict'
  BY <1>8 DEF Notes, created_entry, not_modified_entry
<1>9. ASSUME NEW p \in Child, Releases(p) PROVE StaleVerdict'
  BY <1>9 DEF Releases, locked_break, created_install, not_modified_unlock,
              cache_cancel, TakeLock
<1> QED
  BY <1>1, <1>2, <1>3, <1>4, <1>5, <1>6, <1>7, <1>8, <1>9, NextCases

\* The first lock file taken from its owner is taken by locked().
LEMMA TheftStep ==
    ASSUME TypeOK, TheftNeedsFailure, LockExclusive, StaleVerdict,
           AlarmInTime, [Next]_vars
    PROVE  TheftNeedsFailure'
<1> USE ConstantAssumption
    DEF TypeOK, Goto, TheftNeedsFailure, LockExclusive, StaleVerdict,
        AlarmInTime, Holding, Failed, files, request, timer, inode
<1>1. CASE UNCHANGED vars
  BY <1>1 DEF vars
<1>2. CASE Tick
  BY <1>2 DEF Tick
<1>3. ASSUME NEW p \in Child, Looks(p) PROVE TheftNeedsFailure'
  BY <1>3 DEF Looks, Accept, HTHandle, OpenCached, Relay, locked,
              lookup_stat, lookup_info, cache_free_resend
<1>4. ASSUME NEW p \in Child, Fails(p) PROVE TheftNeedsFailure'
  BY <1>4 DEF Fails, sig_pipe, output_timed_out, Crash
<1>5. ASSUME NEW p \in Child, Locks(p) PROVE TheftNeedsFailure'
  BY <1>5 DEF Locks, lookup_refresh, lookup_create, do_lock
<1>6. ASSUME NEW p \in Child, Writes(p) PROVE TheftNeedsFailure'
  BY <1>6 DEF Writes, cache_write, cache_free
<1>7. ASSUME NEW p \in Child, Moves(p) PROVE TheftNeedsFailure'
  BY <1>7 DEF Moves, lookup_backup, created_discard, not_modified_restore
<1>8. ASSUME NEW p \in Child, Notes(p) PROVE TheftNeedsFailure'
  BY <1>8 DEF Notes, created_entry, not_modified_entry
<1>9. ASSUME NEW p \in Child, Releases(p) PROVE TheftNeedsFailure'
  <2>1. CASE locked_break(p)
    BY <2>1 DEF locked_break, TakeLock
  <2>2. CASE created_install(p)
    BY <2>2 DEF created_install, TakeLock
  <2>3. CASE not_modified_unlock(p)
    BY <2>3 DEF not_modified_unlock, TakeLock
  <2>4. CASE cache_cancel(p)
    BY <2>4 DEF cache_cancel, TakeLock
  <2> QED
    BY <1>9, <2>1, <2>2, <2>3, <2>4 DEF Releases
<1> QED
  BY <1>1, <1>2, <1>3, <1>4, <1>5, <1>6, <1>7, <1>8, <1>9, NextCases

\* cache_free compares the Content-Length before cache_created.
LEMMA InstallReadyStep ==
    ASSUME TypeOK, InstallReady, [Next]_vars
    PROVE  InstallReady'
<1> USE DEF TypeOK, Goto, InstallReady, files, request, timer, inode
<1>1. CASE UNCHANGED vars
  BY <1>1 DEF vars
<1>2. CASE Tick
  BY <1>2 DEF Tick
<1>3. ASSUME NEW p \in Child, Looks(p) PROVE InstallReady'
  BY <1>3 DEF Looks, Accept, HTHandle, OpenCached, Relay, locked,
              lookup_stat, lookup_info, cache_free_resend
<1>4. ASSUME NEW p \in Child, Fails(p) PROVE InstallReady'
  BY <1>4 DEF Fails, sig_pipe, output_timed_out, Crash
<1>5. ASSUME NEW p \in Child, Locks(p) PROVE InstallReady'
  BY <1>5 DEF Locks, lookup_refresh, lookup_create, do_lock
<1>6. ASSUME NEW p \in Child, Writes(p) PROVE InstallReady'
  BY <1>6 DEF Writes, cache_write, cache_free
<1>7. ASSUME NEW p \in Child, Moves(p) PROVE InstallReady'
  BY <1>7 DEF Moves, lookup_backup, created_discard, not_modified_restore
<1>8. ASSUME NEW p \in Child, Notes(p) PROVE InstallReady'
  BY <1>8 DEF Notes, created_entry, not_modified_entry
<1>9. ASSUME NEW p \in Child, Releases(p) PROVE InstallReady'
  BY <1>9 DEF Releases, locked_break, created_install, not_modified_unlock,
              cache_cancel, TakeLock
<1> QED
  BY <1>1, <1>2, <1>3, <1>4, <1>5, <1>6, <1>7, <1>8, <1>9, NextCases

\* A holder that was not robbed renames its own complete file.
LEMMA CopiesInstalledStep ==
    ASSUME TypeOK, CopiesInstalled, LockExclusive, InstallReady,
           RobbedHadLock, [Next]_vars
    PROVE  CopiesInstalled'
<1> USE ConstantAssumption
    DEF TypeOK, Goto, CopiesInstalled, LockExclusive, InstallReady,
        RobbedHadLock, AfterInstall, BeforeLock, Holding, files, request,
        timer, inode
<1>1. CASE UNCHANGED vars
  BY <1>1 DEF vars
<1>2. CASE Tick
  BY <1>2 DEF Tick
<1>3. ASSUME NEW p \in Child, Looks(p) PROVE CopiesInstalled'
  BY <1>3 DEF Looks, Accept, HTHandle, OpenCached, Relay, locked,
              lookup_stat, lookup_info, cache_free_resend
<1>4. ASSUME NEW p \in Child, Fails(p) PROVE CopiesInstalled'
  BY <1>4 DEF Fails, sig_pipe, output_timed_out, Crash
<1>5. ASSUME NEW p \in Child, Locks(p) PROVE CopiesInstalled'
  BY <1>5 DEF Locks, lookup_refresh, lookup_create, do_lock
<1>6. ASSUME NEW p \in Child, Writes(p) PROVE CopiesInstalled'
  BY <1>6 DEF Writes, cache_write, cache_free
<1>7. ASSUME NEW p \in Child, Moves(p) PROVE CopiesInstalled'
  BY <1>7 DEF Moves, lookup_backup, created_discard, not_modified_restore
<1>8. ASSUME NEW p \in Child, Notes(p) PROVE CopiesInstalled'
  BY <1>8 DEF Notes, created_entry, not_modified_entry
<1>9. ASSUME NEW p \in Child, Releases(p) PROVE CopiesInstalled'
  BY <1>9 DEF Releases, locked_break, created_install, not_modified_unlock,
              cache_cancel, TakeLock
<1> QED
  BY <1>1, <1>2, <1>3, <1>4, <1>5, <1>6, <1>7, <1>8, <1>9, NextCases

-----------------------------------------------------------------------------
(* The theorems                                                            *)

LEMMA InitIInv == Init => IInv
<1> SUFFICES ASSUME Init PROVE IInv
  OBVIOUS
<1>1. TypeOK
  BY InitType
<1>2. LockOwner /\ LockExclusive /\ RobbedHadLock /\ StaleVerdict /\ InstallReady
  BY DEF Init, LockOwner, LockExclusive, RobbedHadLock, StaleVerdict,
         InstallReady, Holding
<1>3. AlarmInTime
  BY DEF Init, AlarmInTime, Live, Holding
<1>4. TheftNeedsFailure
  BY DEF Init, TheftNeedsFailure
<1>5. CopiesInstalled
  BY ConstantAssumption DEF Init, CopiesInstalled
<1> QED
  BY <1>1, <1>2, <1>3, <1>4, <1>5 DEF IInv

LEMMA NextIInv == IInv /\ [Next]_vars => IInv'
BY NextType, LockOwnerStep, LockExclusiveStep, RobbedHadLockStep, AlarmInTimeStep,
   StaleStep, TheftStep, InstallReadyStep, CopiesInstalledStep DEF IInv

THEOREM Inductive == Spec => []IInv
BY InitIInv, NextIInv, PTL DEF Spec

\* The lock file works: a child between do_lock and the release of its lock is
\* the owner of the lock file, unless another child has removed it.
THEOREM MutualExclusion == Spec => []LockExclusive
<1>1. IInv => LockExclusive
  BY DEF IInv
<1> QED
  BY <1>1, Inductive, PTL

\* locked() breaks a lock on the evidence of its age alone, and is right about
\* the child whose lock it looked at.
THEOREM BreakOnlyFailed == Spec => []StaleVerdict
<1>1. IInv => StaleVerdict
  BY DEF IInv
<1> QED
  BY <1>1, Inductive, PTL

\* Without deaths and hang-ups no lock file is removed but by its owner.
THEOREM NoTheftWithoutFailure == Spec => []TheftNeedsFailure
<1>1. IInv => TheftNeedsFailure
  BY DEF IInv
<1> QED
  BY <1>1, Inductive, PTL

\* What lies under the name of a cached copy or of its backup is complete and
\* at rest, unless its writer was robbed of its lock file.
THEOREM CompleteCopies == Spec => []CachedCopiesComplete
<1>1. IInv => CachedCopiesComplete
  BY DEF IInv, CopiesInstalled, CachedCopiesComplete, AfterInstall, Holding
<1> QED
  BY <1>1, Inductive, PTL

-----------------------------------------------------------------------------
(* With a garbage collection beside the children                           *)

\* The collector's clock was the clock once.
GcClock == gcur <= now

\* What the collector counts of a directory covers what it has in memory, and a
\* lock that it is about to remove besides.
EntriesCounted ==
    /\ IsFiniteSet(node)
    /\ file_cnt >= Cardinality(node)
    /\ gpc = "unlock" => file_cnt > Cardinality(node)

GcIInv ==
    /\ IInv
    /\ GcTypeOK
    /\ GcClock
    /\ GcVerdict
    /\ EntriesCounted

\* The steps that look, and those that write .cache_info.
GcLooks == GcStart \/ (\E e \in Entry : ScanFile(e)) \/ (\E n \in Name : ScanLock(n)) \/ ReadInfo
GcInfo == OpenInfo \/ WriteInfo \/ RemoveInfo

LEMMA GcNextCases ==
    ASSUME [GcNext]_allVars
    PROVE  \/ [Next]_vars /\ UNCHANGED gcVars
           \/ GcLooks
           \/ GcInfo
           \/ \E e \in Entry : Unlink(e)
           \/ \E n \in Name : UnlinkLock(n)
BY DEF GcNext, GcLooks, GcInfo, allVars

\* A child that has failed has failed for good.
LEMMA FailedForGood ==
    ASSUME TypeOK, [Next]_vars, NEW q \in Child, Failed(q)
    PROVE  Failed(q)'
<1> USE DEF TypeOK, Goto, Failed, Live, files, request, timer, inode
<1>1. CASE UNCHANGED vars
  BY <1>1 DEF vars
<1>2. CASE Tick
  BY <1>2 DEF Tick
<1>3. ASSUME NEW p \in Child, Looks(p) PROVE Failed(q)'
  BY <1>3 DEF Looks, Accept, HTHandle, OpenCached, Relay, locked,
              lookup_stat, lookup_info, cache_free_resend
<1>4. ASSUME NEW p \in Child, Fails(p) PROVE Failed(q)'
  BY <1>4 DEF Fails, sig_pipe, output_timed_out, Crash
<1>5. ASSUME NEW p \in Child, Locks(p) PROVE Failed(q)'
  BY <1>5 DEF Locks, lookup_refresh, lookup_create, do_lock
<1>6. ASSUME NEW p \in Child, Writes(p) PROVE Failed(q)'
  BY <1>6 DEF Writes, cache_write, cache_free
<1>7. ASSUME NEW p \in Child, Moves(p) PROVE Failed(q)'
  BY <1>7 DEF Moves, lookup_backup, created_discard, not_modified_restore
<1>8. ASSUME NEW p \in Child, Notes(p) PROVE Failed(q)'
  BY <1>8 DEF Notes, created_entry, not_modified_entry
<1>9. ASSUME NEW p \in Child, Releases(p) PROVE Failed(q)'
  BY <1>9 DEF Releases, locked_break, created_install, not_modified_unlock,
              cache_cancel, TakeLock
<1> QED
  BY <1>1, <1>2, <1>3, <1>4, <1>5, <1>6, <1>7, <1>8, <1>9, NextCases

\* The owner of a lock that looks too old to the collector has failed: an armed
\* one wrote to it after its alarm was set, and would be dead by now.
LEMMA OldLockFailed ==
    ASSUME IInv, GcTypeOK, GcClock, NEW n \in Name, lock[n] # None, GcLockTooOld(lock[n])
    PROVE  Failed(lock[n])
<1> DEFINE owner == lock[n]
<1>1. owner \in Child /\ pc[owner] \in Holding \cup {"dead"}
  BY DEF IInv, TypeOK, LockOwner
<1>2. CASE pc[owner] = "dead"
  BY <1>2 DEF Failed
<1>3. CASE pc[owner] \in Holding
  <2>1. start[owner] <= mtime[owner] /\ Live(owner)
    BY <1>1, <1>3 DEF IInv, AlarmInTime, Holding, Live
  <2>2. armed[owner] => now <= start[owner] + OutputTimeout
    BY <1>1, <2>1 DEF IInv, AlarmInTime
  <2>3. /\ now \in Nat /\ gcur \in Nat /\ OutputTimeout \in Nat /\ LockTimeout \in Nat
        /\ start[owner] \in Nat /\ mtime[owner] \in Nat
    BY <1>1, TimeAssumption DEF GcTypeOK, TypeOK
  <2>4. ~armed[owner]
    BY <2>1, <2>2, <2>3, LockOutlivesOutput DEF GcClock, GcLockTooOld
  <2> QED
    BY <1>3, <2>4 DEF Failed, Holding
<1> QED
  BY <1>1, <1>2, <1>3

-----------------------------------------------------------------------------
(* What the collector's steps leave of IInv                                *)

\* No conjunct but TypeOK is about .cache_info.
LEMMA GcInfoKeepsIInv ==
    ASSUME IInv, GcTypeOK, GcInfo
    PROVE  IInv'
<1> USE DEF request, timer, inode, childVars, GcInfo, OpenInfo, WriteInfo, RemoveInfo
<1>1. info' \in [Name -> Nat \cup {NoEntry}]
  <2>1. CASE OpenInfo \/ RemoveInfo
    BY <2>1
  <2>2. CASE WriteInfo
    <3>1. info \in [Name -> Nat \cup {NoEntry}] /\ entries \in [Name -> Nat \cup {NoEntry}]
      BY DEF GcTypeOK, TypeOK
    <3>2. \A n \in Name : Written(n) \in Nat \cup {NoEntry}
      BY <3>1 DEF Written
    <3> QED
      BY <2>2, <3>1, <3>2
  <2> QED
    BY <2>1, <2>2
<1>2. TypeOK'
  BY <1>1 DEF IInv, TypeOK
<1>3. LockOwner' /\ LockExclusive' /\ RobbedHadLock' /\ InstallReady'
  BY DEF IInv, LockOwner, LockExclusive, RobbedHadLock, InstallReady
<1>4. AlarmInTime' /\ StaleVerdict' /\ TheftNeedsFailure'
  BY DEF IInv, AlarmInTime, StaleVerdict, TheftNeedsFailure, Live, Failed
<1>5. CopiesInstalled'
  BY DEF IInv, CopiesInstalled
<1> QED
  BY <1>2, <1>3, <1>4, <1>5 DEF IInv

\* A copy that is gone is no incomplete one.
LEMMA UnlinkKeepsIInv ==
    ASSUME IInv, NEW e \in Entry, Unlink(e)
    PROVE  IInv'
<1> USE DEF request, timer, inode, childVars, Unlink, Entry
<1>1. TypeOK'
  BY DEF IInv, TypeOK, File
<1>2. LockOwner' /\ LockExclusive' /\ RobbedHadLock' /\ InstallReady'
  BY DEF IInv, LockOwner, LockExclusive, RobbedHadLock, InstallReady
<1>3. AlarmInTime' /\ StaleVerdict' /\ TheftNeedsFailure'
  BY DEF IInv, AlarmInTime, StaleVerdict, TheftNeedsFailure, Live, Failed
<1>4. CopiesInstalled'
  BY ConstantAssumption DEF IInv, CopiesInstalled, TypeOK
<1> QED
  BY <1>1, <1>2, <1>3, <1>4 DEF IInv

\* The owner of a lock that is removed is robbed, and there was a failure: that
\* of the owner the collector saw.
LEMMA UnlinkLockKeepsIInv ==
    ASSUME IInv, GcTypeOK, GcVerdict, NEW n \in Name, UnlinkLock(n)
    PROVE  IInv'
<1> USE DEF request, timer, inode, childVars, UnlinkLock, TakeLock
<1>1. TypeOK'
  BY DEF IInv, TypeOK
<1>2. LockOwner'
  BY ConstantAssumption DEF IInv, LockOwner, LockExclusive, TypeOK
<1>3. LockExclusive'
  BY ConstantAssumption DEF IInv, LockExclusive, LockOwner, TypeOK, Holding
<1>4. RobbedHadLock'
  BY DEF IInv, RobbedHadLock, LockOwner, TypeOK, BeforeLock, Holding
<1>5. AlarmInTime' /\ StaleVerdict' /\ InstallReady'
  BY DEF IInv, AlarmInTime, StaleVerdict, InstallReady, Live, Failed
<1>6. TheftNeedsFailure'
  <2>1. PICK q \in Child : Failed(q)
    BY DEF GcVerdict, GcTypeOK
  <2>2. Failed(q)'
    BY <2>1 DEF Failed
  <2> QED
    BY <2>1, <2>2 DEF TheftNeedsFailure
<1>7. CopiesInstalled'
  BY DEF IInv, CopiesInstalled, TypeOK
<1> QED
  BY <1>1, <1>2, <1>3, <1>4, <1>5, <1>6, <1>7 DEF IInv

\* The collector takes nothing that IInv needs.
LEMMA GcKeepsIInv ==
    ASSUME GcIInv, [GcNext]_allVars
    PROVE  IInv'
<1>1. CASE [Next]_vars /\ UNCHANGED gcVars
  BY <1>1, NextIInv DEF GcIInv
<1>2. CASE GcLooks
  <2>1. UNCHANGED vars
    BY <1>2 DEF GcLooks, GcStart, ScanFile, ScanLock, ReadInfo
  <2> QED
    BY <2>1, NextIInv DEF GcIInv
<1>3. CASE GcInfo
  BY <1>3, GcInfoKeepsIInv DEF GcIInv
<1>4. ASSUME NEW e \in Entry, Unlink(e) PROVE IInv'
  BY <1>4, UnlinkKeepsIInv DEF GcIInv
<1>5. ASSUME NEW n \in Name, UnlinkLock(n) PROVE IInv'
  BY <1>5, UnlinkLockKeepsIInv DEF GcIInv
<1> QED
  BY <1>1, <1>2, <1>3, <1>4, <1>5, GcNextCases

-----------------------------------------------------------------------------
(* The collector's own conjuncts                                           *)

LEMMA GcTypeStep ==
    ASSUME GcIInv, IInv', [GcNext]_allVars
    PROVE  GcTypeOK'
<1> USE DEF GcIInv, GcTypeOK
<1>1. TypeOK'
  BY DEF IInv
<1>2. CASE [Next]_vars /\ UNCHANGED gcVars
  BY <1>1, <1>2 DEF gcVars
<1>3. CASE GcLooks
  <2>1. CASE GcStart
    BY <1>1, <2>1 DEF GcStart, TypeOK
  <2>2. ASSUME NEW e \in Entry, ScanFile(e) PROVE GcTypeOK'
    BY <1>1, <2>2 DEF ScanFile, Entry
  <2>3. ASSUME NEW n \in Name, ScanLock(n) PROVE GcTypeOK'
    BY <1>1, <2>3 DEF ScanLock, TypeOK
  <2>4. CASE ReadInfo
    BY <1>1, <2>4 DEF ReadInfo, TypeOK
  <2> QED
    BY <1>3, <2>1, <2>2, <2>3, <2>4 DEF GcLooks
<1>4. CASE GcInfo
  BY <1>1, <1>4 DEF GcInfo, OpenInfo, WriteInfo, RemoveInfo
<1>5. ASSUME NEW e \in Entry, Unlink(e) PROVE GcTypeOK'
  <2>1. e \in node
    BY <1>5 DEF Unlink
  <2>2. Cardinality(node) \in Nat /\ Cardinality(node) > 0
    BY <2>1, FS_CardinalityType, FS_EmptySet DEF EntriesCounted
  <2>3. file_cnt - 1 \in Nat
    BY <2>2 DEF EntriesCounted
  <2> QED
    BY <1>1, <1>5, <2>3 DEF Unlink
<1>6. ASSUME NEW n \in Name, UnlinkLock(n) PROVE GcTypeOK'
  <2>1. Cardinality(node) \in Nat
    BY FS_CardinalityType DEF EntriesCounted
  <2>2. file_cnt - 1 \in Nat
    BY <1>6, <2>1 DEF EntriesCounted, UnlinkLock
  <2> QED
    BY <1>1, <1>6, <2>2 DEF UnlinkLock
<1> QED
  BY <1>2, <1>3, <1>4, <1>5, <1>6, GcNextCases

\* The clock does not go back.
LEMMA GcClockStep ==
    ASSUME GcIInv, [GcNext]_allVars
    PROVE  GcClock'
<1> USE DEF GcIInv, GcTypeOK, TypeOK, GcClock
<1>1. CASE [Next]_vars /\ UNCHANGED gcVars
  <2>1. now' >= now
    <3>1. CASE UNCHANGED vars
      BY <3>1 DEF vars
    <3>2. CASE Tick
      BY <3>2 DEF Tick
    <3>3. ASSUME NEW p \in Child, ~Tick,
                 \/ Looks(p) \/ Fails(p) \/ Locks(p) \/ Writes(p)
                 \/ Moves(p) \/ Notes(p) \/ Releases(p)
          PROVE now' = now
      BY <3>3 DEF Looks, Accept, HTHandle, OpenCached, Relay, locked,
              lookup_stat, lookup_info, cache_free_resend,
              Fails, sig_pipe, output_timed_out, Crash,
              Locks, lookup_refresh, lookup_create, do_lock,
              Writes, cache_write, cache_free,
              Moves, lookup_backup, created_discard, not_modified_restore,
              Notes, created_entry, not_modified_entry,
              Releases, locked_break, created_install, not_modified_unlock, cache_cancel
    <3> QED
      BY <1>1, <3>1, <3>2, <3>3, NextCases
  <2>2. now' \in Nat
    BY <1>1, NextType DEF IInv
  <2> QED
    BY <1>1, <2>1, <2>2 DEF gcVars
<1>2. CASE GcLooks
  <2>1. now' = now /\ gcur' \in {gcur, now}
    BY <1>2 DEF GcLooks, GcStart, ScanFile, ScanLock, ReadInfo, vars
  <2> QED
    BY <2>1
<1>3. CASE GcInfo
  BY <1>3 DEF GcInfo, OpenInfo, WriteInfo, RemoveInfo, childVars
<1>4. ASSUME NEW e \in Entry, Unlink(e) PROVE GcClock'
  BY <1>4 DEF Unlink, childVars
<1>5. ASSUME NEW n \in Name, UnlinkLock(n) PROVE GcClock'
  BY <1>5 DEF UnlinkLock, childVars
<1> QED
  BY <1>1, <1>2, <1>3, <1>4, <1>5, GcNextCases

\* The verdict is right when it is made and stays right.
LEMMA GcVerdictStep ==
    ASSUME GcIInv, [GcNext]_allVars
    PROVE  GcVerdict'
<1> USE DEF GcIInv, GcVerdict
<1>1. CASE [Next]_vars /\ UNCHANGED gcVars
  <2> SUFFICES ASSUME gpc = "unlock", NEW q \in Child, q = gseen PROVE Failed(q)'
    BY <1>1 DEF gcVars, Failed, GcTypeOK
  <2> QED
    BY <1>1, FailedForGood DEF GcTypeOK
<1>2. CASE GcLooks
  <2>1. UNCHANGED <<pc, armed>>
    BY <1>2 DEF GcLooks, GcStart, ScanFile, ScanLock, ReadInfo, vars, timer
  <2>2. CASE GcStart \/ ReadInfo
    BY <2>2 DEF GcStart, ReadInfo
  <2>3. ASSUME NEW e \in Entry, ScanFile(e) PROVE GcVerdict'
    BY <2>3 DEF ScanFile
  <2>4. ASSUME NEW n \in Name, ScanLock(n) PROVE GcVerdict'
    <3>1. CASE lock[n] # None /\ GcLockTooOld(lock[n])
      BY <2>1, <2>4, <3>1, OldLockFailed DEF ScanLock, Failed
    <3>2. CASE ~(lock[n] # None /\ GcLockTooOld(lock[n]))
      BY <2>4, <3>2 DEF ScanLock
    <3> QED
      BY <3>1, <3>2
  <2> QED
    BY <1>2, <2>2, <2>3, <2>4 DEF GcLooks
<1>3. CASE GcInfo
  BY <1>3 DEF GcInfo, OpenInfo, WriteInfo, RemoveInfo
<1>4. ASSUME NEW e \in Entry, Unlink(e) PROVE GcVerdict'
  BY <1>4 DEF Unlink
<1>5. ASSUME NEW n \in Name, UnlinkLock(n) PROVE GcVerdict'
  BY <1>5 DEF UnlinkLock
<1> QED
  BY <1>1, <1>2, <1>3, <1>4, <1>5, GcNextCases

LEMMA EntriesCountedStep ==
    ASSUME GcIInv, [GcNext]_allVars
    PROVE  EntriesCounted'
<1> USE DEF GcIInv, EntriesCounted
<1>0. Cardinality(node) \in Nat /\ file_cnt \in Nat
  BY FS_CardinalityType DEF GcTypeOK
<1>1. CASE [Next]_vars /\ UNCHANGED gcVars
  BY <1>1 DEF gcVars
<1>2. CASE GcLooks
  <2>1. CASE GcStart \/ ReadInfo
    BY <2>1 DEF GcStart, ReadInfo
  <2>2. ASSUME NEW e \in Entry, ScanFile(e) PROVE EntriesCounted'
    <3>1. CASE FileOf(e) = None
      BY <2>2, <3>1 DEF ScanFile
    <3>2. CASE FileOf(e) # None
      <4>1. /\ IsFiniteSet(node \cup {e})
            /\ Cardinality(node \cup {e}) \in {Cardinality(node), Cardinality(node) + 1}
        BY FS_AddElement
      <4>2. node' = node \cup {e} /\ file_cnt' = file_cnt + 1 /\ gpc' = "scan"
        BY <2>2, <3>2 DEF ScanFile
      <4> QED
        BY <1>0, <4>1, <4>2
    <3> QED
      BY <3>1, <3>2
  <2>3. ASSUME NEW n \in Name, ScanLock(n) PROVE EntriesCounted'
    BY <1>0, <2>3 DEF ScanLock
  <2> QED
    BY <1>2, <2>1, <2>2, <2>3 DEF GcLooks
<1>3. CASE GcInfo
  BY <1>3 DEF GcInfo, OpenInfo, WriteInfo, RemoveInfo
<1>4. ASSUME NEW e \in Entry, Unlink(e) PROVE EntriesCounted'
  <2>1. e \in node
    BY <1>4 DEF Unlink, GcTypeOK
  <2>2. IsFiniteSet(node \ {e}) /\ Cardinality(node \ {e}) = Cardinality(node) - 1
    BY <2>1, FS_RemoveElement
  <2> QED
    BY <1>0, <1>4, <2>2 DEF Unlink
<1>5. ASSUME NEW n \in Name, UnlinkLock(n) PROVE EntriesCounted'
  BY <1>0, <1>5 DEF UnlinkLock
<1> QED
  BY <1>1, <1>2, <1>3, <1>4, <1>5, GcNextCases

-----------------------------------------------------------------------------
(* The theorems about a collection beside the children                     *)

LEMMA GcInitIInv == GcInit => GcIInv
<1> SUFFICES ASSUME GcInit PROVE GcIInv
  OBVIOUS
<1>1. IInv
  BY InitIInv DEF GcInit
<1>2. GcTypeOK /\ GcClock
  BY <1>1 DEF GcInit, IInv, TypeOK, GcTypeOK, GcClock, NoEntry
<1>3. EntriesCounted /\ GcVerdict
  BY FS_EmptySet DEF GcInit, EntriesCounted, GcVerdict
<1> QED
  BY <1>1, <1>2, <1>3 DEF GcIInv

LEMMA GcNextIInv == GcIInv /\ [GcNext]_allVars => GcIInv'
BY GcKeepsIInv, GcTypeStep, GcClockStep, GcVerdictStep, EntriesCountedStep DEF GcIInv

THEOREM GcInductive == GcSpec => []GcIInv
BY GcInitIInv, GcNextIInv, PTL DEF GcSpec

\* Beside a collection at any moment: one writer for a document, no lock taken
\* without a failure, and only complete copies.
THEOREM CollectionKeepsCache == GcSpec => []LocksAndCopies
<1>1. GcIInv => LocksAndCopies
  BY DEF GcIInv, IInv, LocksAndCopies, CopiesInstalled, CachedCopiesComplete,
         AfterInstall, Holding
<1> QED
  BY <1>1, GcInductive, PTL

\* The collector decides to remove only the lock of a child that has failed.
THEOREM CollectorTakesOnlyFailed == GcSpec => []GcVerdict
<1>1. GcIInv => GcVerdict
  BY DEF GcIInv
<1> QED
  BY <1>1, GcInductive, PTL

\* The collector's variables keep to their types; its count of a directory's
\* entries never falls below zero, whatever children remove meanwhile.
THEOREM GcTypeCorrect == GcSpec => []GcTypeOK
<1>1. GcIInv => GcTypeOK
  BY DEF GcIInv
<1> QED
  BY <1>1, GcInductive, PTL

-----------------------------------------------------------------------------
(* ProxyCache implements CacheContract                                     *)

\* No file is finished before the end of the stream that fills it.
UnfinishedFiles ==
    \A p \in Child : pc[p] \in BeforeLock \cup {"backup", "transfer"} => p \notin Finished

\* A lock is found too old, and taken, at the document where its owner, or another
\* child before, has failed.
FailedThere ==
    /\ \A p \in Child : pc[p] = "break" => url[seen[p]] = url[p]
    /\ \A p \in robbed : \E q \in Child : Failed(q) /\ url[q] = url[p]

\* A document stays a child's own.
LEMMA UrlsStay == ASSUME [Next]_vars PROVE url' = url
<1> USE DEF files, request, timer, inode
<1>1. CASE UNCHANGED vars
  BY <1>1 DEF vars
<1>2. CASE Tick
  BY <1>2 DEF Tick
<1>3. ASSUME NEW p \in Child, Looks(p) PROVE url' = url
  BY <1>3 DEF Looks, Accept, HTHandle, OpenCached, Relay, locked,
              lookup_stat, lookup_info, cache_free_resend
<1>4. ASSUME NEW p \in Child, Fails(p) PROVE url' = url
  BY <1>4 DEF Fails, sig_pipe, output_timed_out, Crash
<1>5. ASSUME NEW p \in Child, Locks(p) PROVE url' = url
  BY <1>5 DEF Locks, lookup_refresh, lookup_create, do_lock
<1>6. ASSUME NEW p \in Child, Writes(p) PROVE url' = url
  BY <1>6 DEF Writes, cache_write, cache_free
<1>7. ASSUME NEW p \in Child, Moves(p) PROVE url' = url
  BY <1>7 DEF Moves, lookup_backup, created_discard, not_modified_restore
<1>8. ASSUME NEW p \in Child, Notes(p) PROVE url' = url
  BY <1>8 DEF Notes, created_entry, not_modified_entry
<1>9. ASSUME NEW p \in Child, Releases(p) PROVE url' = url
  BY <1>9 DEF Releases, locked_break, created_install, not_modified_unlock, cache_cancel
<1> QED
  BY <1>1, <1>2, <1>3, <1>4, <1>5, <1>6, <1>7, <1>8, <1>9, NextCases

\* A file is finished by the transfer's last step only, which leaves the states before.
LEMMA UnfinishedFilesStep ==
    ASSUME TypeOK, UnfinishedFiles, [Next]_vars
    PROVE  UnfinishedFiles'
<1> USE DEF TypeOK, Goto, UnfinishedFiles, Finished, BeforeLock, files, request, timer, inode
<1>1. CASE UNCHANGED vars
  BY <1>1 DEF vars
<1>2. CASE Tick
  BY <1>2 DEF Tick
<1>3. ASSUME NEW p \in Child, Looks(p) PROVE UnfinishedFiles'
  BY <1>3 DEF Looks, Accept, HTHandle, OpenCached, Relay, locked,
              lookup_stat, lookup_info, cache_free_resend
<1>4. ASSUME NEW p \in Child, Fails(p) PROVE UnfinishedFiles'
  BY <1>4 DEF Fails, sig_pipe, output_timed_out, Crash
<1>5. ASSUME NEW p \in Child, Locks(p) PROVE UnfinishedFiles'
  BY <1>5 DEF Locks, lookup_refresh, lookup_create, do_lock
<1>6. ASSUME NEW p \in Child, Writes(p) PROVE UnfinishedFiles'
  BY <1>6 DEF Writes, cache_write, cache_free
<1>7. ASSUME NEW p \in Child, Moves(p) PROVE UnfinishedFiles'
  BY <1>7 DEF Moves, lookup_backup, created_discard, not_modified_restore
<1>8. ASSUME NEW p \in Child, Notes(p) PROVE UnfinishedFiles'
  BY <1>8 DEF Notes, created_entry, not_modified_entry
<1>9. ASSUME NEW p \in Child, Releases(p) PROVE UnfinishedFiles'
  BY <1>9 DEF Releases, locked_break, created_install, not_modified_unlock, cache_cancel
<1> QED
  BY <1>1, <1>2, <1>3, <1>4, <1>5, <1>6, <1>7, <1>8, <1>9, NextCases

\* A child that has failed stays so; a verdict and a theft are at the document of the
\* child whose lock it is.
LEMMA FailedThereStep ==
    ASSUME IInv, FailedThere, [Next]_vars
    PROVE  FailedThere'
<1>1. url' = url
  BY UrlsStay
<1>2. TypeOK /\ StaleVerdict /\ LockOwner /\ LockExclusive /\ robbed \subseteq Child
  BY DEF IInv, TypeOK
<1>3. ASSUME NEW q \in Child, Failed(q) PROVE Failed(q)'
  BY <1>2, <1>3, FailedForGood
<1>4. ASSUME NEW p \in Child, pc'[p] = "break" PROVE url'[seen'[p]] = url'[p]
  <2> USE DEF TypeOK, Goto, files, request, timer, inode
  <2>1. CASE pc[p] = "break" /\ seen'[p] = seen[p]
    BY <1>1, <2>1 DEF FailedThere
  <2>2. CASE lock[url[p]] # None /\ seen'[p] = lock[url[p]]
    BY <1>1, <1>2, <2>2 DEF LockOwner
  <2>3. \/ pc[p] = "break" /\ seen'[p] = seen[p]
        \/ lock[url[p]] # None /\ seen'[p] = lock[url[p]]
    <3> USE <1>2, <1>4
    <3>1. CASE UNCHANGED vars
      BY <3>1 DEF vars
    <3>2. CASE Tick
      BY <3>2 DEF Tick
    <3>3. ASSUME NEW q \in Child, Looks(q) PROVE <2>3!:
      BY <3>3 DEF Looks, Accept, HTHandle, OpenCached, Relay, locked,
              lookup_stat, lookup_info, cache_free_resend
    <3>4. ASSUME NEW q \in Child, Fails(q) PROVE <2>3!:
      BY <3>4 DEF Fails, sig_pipe, output_timed_out, Crash
    <3>5. ASSUME NEW q \in Child, Locks(q) PROVE <2>3!:
      BY <3>5 DEF Locks, lookup_refresh, lookup_create, do_lock
    <3>6. ASSUME NEW q \in Child, Writes(q) PROVE <2>3!:
      BY <3>6 DEF Writes, cache_write, cache_free
    <3>7. ASSUME NEW q \in Child, Moves(q) PROVE <2>3!:
      BY <3>7 DEF Moves, lookup_backup, created_discard, not_modified_restore
    <3>8. ASSUME NEW q \in Child, Notes(q) PROVE <2>3!:
      BY <3>8 DEF Notes, created_entry, not_modified_entry
    <3>9. ASSUME NEW q \in Child, Releases(q) PROVE <2>3!:
      BY <3>9 DEF Releases, locked_break, created_install, not_modified_unlock, cache_cancel
    <3> QED
      BY <3>1, <3>2, <3>3, <3>4, <3>5, <3>6, <3>7, <3>8, <3>9, NextCases
  <2> QED
    BY <2>1, <2>2, <2>3
<1>5. ASSUME NEW r \in robbed', r \notin robbed
      PROVE  \E q \in Child : Failed(q)' /\ url[q] = url[r]
  <2> USE DEF TypeOK, Goto, files, request, timer, inode
  <2>1. PICK p \in Child : Releases(p) /\ robbed' = robbed \cup ({lock[url[p]]} \ {None, p})
    <3>1. CASE UNCHANGED vars
      BY <1>5, <3>1 DEF vars
    <3>2. CASE Tick
      BY <1>5, <3>2 DEF Tick
    <3>3. ASSUME NEW q \in Child, Looks(q) PROVE FALSE
      BY <1>5, <3>3 DEF Looks, Accept, HTHandle, OpenCached, Relay, locked,
              lookup_stat, lookup_info, cache_free_resend
    <3>4. ASSUME NEW q \in Child, Fails(q) PROVE FALSE
      BY <1>5, <3>4 DEF Fails, sig_pipe, output_timed_out, Crash
    <3>5. ASSUME NEW q \in Child, Locks(q) PROVE FALSE
      BY <1>5, <3>5 DEF Locks, lookup_refresh, lookup_create, do_lock
    <3>6. ASSUME NEW q \in Child, Writes(q) PROVE FALSE
      BY <1>5, <3>6 DEF Writes, cache_write, cache_free
    <3>7. ASSUME NEW q \in Child, Moves(q) PROVE FALSE
      BY <1>5, <3>7 DEF Moves, lookup_backup, created_discard, not_modified_restore
    <3>8. ASSUME NEW q \in Child, Notes(q) PROVE FALSE
      BY <1>5, <3>8 DEF Notes, created_entry, not_modified_entry
    <3>9. ASSUME NEW q \in Child, Releases(q)
          PROVE  robbed' = robbed \cup ({lock[url[q]]} \ {None, q})
      BY <3>9 DEF Releases, locked_break, created_install, not_modified_unlock,
                  cache_cancel, TakeLock
    <3> QED
      BY <3>1, <3>2, <3>3, <3>4, <3>5, <3>6, <3>7, <3>8, <3>9, NextCases
  <2>2. r = lock[url[p]] /\ r # p /\ r # None /\ url[r] = url[p]
    BY <1>2, <1>5, <2>1 DEF LockOwner
  <2>3. CASE pc[p] = "break"
    BY <1>2, <1>3, <2>2, <2>3 DEF StaleVerdict, FailedThere
  <2>4. CASE pc[p] # "break"
    <3>1. pc[p] \in Holding
      BY <2>1, <2>4 DEF Releases, locked_break, created_install, not_modified_unlock,
                        cache_cancel, Holding
    <3>2. p \in robbed
      BY <1>2, <2>2, <3>1 DEF LockExclusive
    <3>3. PICK q \in Child : Failed(q) /\ url[q] = url[p]
      BY <3>2 DEF FailedThere
    <3> QED
      BY <1>3, <2>2, <3>3
  <2> QED
    BY <2>3, <2>4
<1>6. ASSUME NEW r \in robbed' PROVE \E q \in Child : Failed(q)' /\ url'[q] = url'[r]
  <2>1. CASE r \in robbed
    <3>1. PICK q \in Child : Failed(q) /\ url[q] = url[r]
      BY <2>1 DEF FailedThere
    <3> QED
      BY <1>1, <1>3, <3>1
  <2>2. CASE r \notin robbed
    BY <1>1, <1>5, <2>2
  <2> QED
    BY <2>1, <2>2
<1> QED
  BY <1>4, <1>6 DEF FailedThere

-----------------------------------------------------------------------------
(* The steps of the children as steps of the contract                      *)

\* The invariants together.
CInv == IInv /\ UnfinishedFiles /\ FailedThere

\* The contract's variables.
Seen == <<Copies, lock, Finished, FailedAt, RobbedAt>>

\* A function that differs from another at one argument only.
LEMMA AnUpdate ==
    ASSUME NEW D, NEW f, NEW g, f = [x \in D |-> f[x]], g = [x \in D |-> g[x]], NEW d \in D, NEW v,
           \A x \in D : g[x] = IF x = d THEN v ELSE f[x]
    PROVE  g = [f EXCEPT ![d] = v]
OBVIOUS

\* What the contract keeps, it keeps by document.
LEMMA AllAtNames ==
    /\ Copies = [n \in Name |-> Copies[n]] /\ Copies' = [n \in Name |-> Copies'[n]]
    /\ FailedAt = [n \in Name |-> FailedAt[n]] /\ FailedAt' = [n \in Name |-> FailedAt'[n]]
    /\ RobbedAt = [n \in Name |-> RobbedAt[n]] /\ RobbedAt' = [n \in Name |-> RobbedAt'[n]]
BY DEF Copies, FailedAt, RobbedAt

\* Who has failed, if no child fails.
LEMMA NoFailure ==
    ASSUME url' = url, \A q \in Child : Failed(q)' = Failed(q)
    PROVE  FailedAt' = FailedAt
BY DEF FailedAt

\* The others see nothing of a child that looks, writes to its lock file or notes
\* something in .cache_info, nor of the clock.
LEMMA LooksUnseen ==
    ASSUME CInv, NEW p \in Child, Looks(p) \/ Notes(p)
    PROVE  UNCHANGED Seen
<1> USE DEF CInv, IInv, TypeOK, Goto, files, request, timer, inode
<1>1. UNCHANGED <<main, tmp, lock, ino, url, robbed>>
  BY DEF Looks, Accept, HTHandle, OpenCached, Relay, locked, lookup_stat, lookup_info,
         cache_free_resend, Notes, created_entry, not_modified_entry
<1>2. \A q \in Child : Failed(q)' = Failed(q)
  BY DEF Failed, Looks, Accept, HTHandle, OpenCached, Relay, locked, lookup_stat, lookup_info,
         cache_free_resend, Notes, created_entry, not_modified_entry
<1>3. FailedAt' = FailedAt
  BY <1>1, <1>2, NoFailure
<1>4. Copies' = Copies /\ Finished' = Finished /\ RobbedAt' = RobbedAt
  BY <1>1 DEF Copies, Finished, RobbedAt
<1> QED
  BY <1>1, <1>3, <1>4 DEF Seen

\* Time is no part of the contract.
LEMMA ClockUnseen ==
    ASSUME UNCHANGED vars \/ Tick
    PROVE  UNCHANGED Seen
<1>1. UNCHANGED <<main, tmp, lock, ino, url, robbed, pc, armed>>
  BY DEF vars, Tick, files, request, timer, inode
<1>2. Copies' = Copies /\ Finished' = Finished /\ RobbedAt' = RobbedAt /\ FailedAt' = FailedAt
  BY <1>1 DEF Copies, Finished, RobbedAt, FailedAt, Failed
<1> QED
  BY <1>1, <1>2 DEF Seen

\* A dead client, a timeout and a crash are failures at the child's document.
LEMMA FailsAsContract ==
    ASSUME CInv, NEW p \in Child, Fails(p)
    PROVE  Contract!Fail(p, url[p])
<1> USE DEF CInv, IInv, TypeOK, Goto, files, request, timer, inode
<1>1. UNCHANGED <<main, tmp, lock, ino, url, robbed>>
  BY DEF Fails, sig_pipe, output_timed_out, Crash
<1>2. \A q \in Child : Failed(q)' <=> Failed(q) \/ q = p
  BY DEF Failed, Live, Fails, sig_pipe, output_timed_out, Crash
<1>3. FailedAt' = [FailedAt EXCEPT ![url[p]] = @ \cup {p}]
  <2>1. \A n \in Name : FailedAt'[n] = IF n = url[p] THEN FailedAt[n] \cup {p} ELSE FailedAt[n]
    BY <1>1, <1>2 DEF FailedAt
  <2>2. url[p] \in Name
    OBVIOUS
  <2> QED
    BY <2>1, <2>2, AllAtNames, AnUpdate
<1>4. Copies' = Copies /\ Finished' = Finished /\ RobbedAt' = RobbedAt
  BY <1>1 DEF Copies, Finished, RobbedAt
<1> QED
  BY <1>1, <1>3, <1>4 DEF Contract!Fail

\* A lock is made where there was none, by a child that has not written; a try that
\* finds a lock is not seen.
LEMMA LocksAsContract ==
    ASSUME CInv, NEW p \in Child, Locks(p)
    PROVE  Contract!Begin(p, url[p]) \/ UNCHANGED Seen
<1> USE DEF CInv, IInv, TypeOK, Goto, files, request, timer, inode
<1>1. UNCHANGED <<main, tmp, ino, url, robbed>>
  BY DEF Locks, lookup_refresh, lookup_create, do_lock
<1>2. \A q \in Child : Failed(q)' = Failed(q)
  BY DEF Failed, Locks, lookup_refresh, lookup_create, do_lock, Holding
<1>3. FailedAt' = FailedAt
  BY <1>1, <1>2, NoFailure
<1>4. Copies' = Copies /\ Finished' = Finished /\ RobbedAt' = RobbedAt
  BY <1>1 DEF Copies, Finished, RobbedAt
<1>5. CASE lock' = lock
  BY <1>3, <1>4, <1>5 DEF Seen
<1>6. CASE lock[url[p]] = None /\ lock' = [lock EXCEPT ![url[p]] = p]
  <2>1. pc[p] \in {"refresh", "create"}
    BY DEF Locks, lookup_refresh, lookup_create
  <2>2. p \notin Finished
    BY <2>1 DEF UnfinishedFiles, BeforeLock
  <2>3. p \notin robbed
    BY <2>1 DEF RobbedHadLock, BeforeLock
  <2>4. p \notin Copies[url[p]]
    BY <2>1, <2>3 DEF Copies, CopiesInstalled, AfterInstall
  <2>5. p \notin RobbedAt[url[p]]
    BY <2>3 DEF RobbedAt
  <2> QED
    BY <1>3, <1>4, <1>6, <2>2, <2>4, <2>5 DEF Contract!Begin
<1> QED
  BY <1>5, <1>6 DEF Locks, lookup_refresh, lookup_create, do_lock

\* The stream's end finishes the file of a child that has its lock, or was robbed of it.
LEMMA WritesAsContract ==
    ASSUME CInv, NEW p \in Child, Writes(p)
    PROVE  Contract!Finish(p, url[p]) \/ UNCHANGED Seen
<1> USE DEF CInv, IInv, TypeOK, Goto, files, request, timer, inode
<1>1. UNCHANGED <<main, tmp, lock, url, robbed>> /\ pc[p] = "transfer"
  BY DEF Writes, cache_write, cache_free
<1>2. \A q \in Child : Failed(q)' = Failed(q)
  BY DEF Failed, Writes, cache_write, cache_free
<1>3. FailedAt' = FailedAt
  BY <1>1, <1>2, NoFailure
<1>4. Copies' = Copies /\ RobbedAt' = RobbedAt
  BY <1>1 DEF Copies, RobbedAt
<1>5. p \notin Finished
  BY <1>1 DEF UnfinishedFiles
<1>6. Finished' = Finished \/ Finished' = Finished \cup {p}
  BY <1>5 DEF Finished, Writes, cache_write, cache_free
<1>7. lock[url[p]] = p \/ p \in RobbedAt[url[p]]
  BY <1>1 DEF LockExclusive, Holding, RobbedAt
<1> QED
  BY <1>1, <1>3, <1>4, <1>5, <1>6, <1>7 DEF Seen, Contract!Finish

\* The renames aside and back, and the removals, add no copy.
LEMMA MovesAsContract ==
    ASSUME CInv, NEW p \in Child, Moves(p)
    PROVE  Contract!Forget(url[p])
<1> USE DEF CInv, IInv, TypeOK, Goto, files, request, timer, inode
<1>1. UNCHANGED <<lock, ino, url, robbed>>
  BY DEF Moves, lookup_backup, created_discard, not_modified_restore
<1>2. \A q \in Child : Failed(q)' = Failed(q)
  BY DEF Failed, Moves, lookup_backup, created_discard, not_modified_restore
<1>3. FailedAt' = FailedAt
  BY <1>1, <1>2, NoFailure
<1>4. Finished' = Finished /\ RobbedAt' = RobbedAt
  BY <1>1 DEF Finished, RobbedAt
<1>5. Copies'[url[p]] \subseteq Copies[url[p]]
  BY DEF Copies, Moves, lookup_backup, created_discard, not_modified_restore
<1>6. \A n \in Name \ {url[p]} : Copies'[n] = Copies[n]
  BY DEF Copies, Moves, lookup_backup, created_discard, not_modified_restore
<1>7. Copies' = [Copies EXCEPT ![url[p]] = Copies'[url[p]]]
  BY <1>6 DEF Copies
<1> QED
  BY <1>1, <1>3, <1>4, <1>5, <1>7 DEF Contract!Forget, Contract!Become

\* The removal of the lock file publishes what its owner wrote, gives up, or, done by
\* another, steals.
LEMMA ReleasesAsContract ==
    ASSUME CInv, NEW p \in Child, Releases(p)
    PROVE  \/ Contract!Publish(url[p]) \/ Contract!GiveUp(url[p]) \/ Contract!Steal(url[p])
           \/ UNCHANGED Seen
<1> DEFINE n == url[p]
           q == lock[n]
<1> USE DEF CInv, IInv, TypeOK, Goto, files, request, timer, inode
<1>1. /\ UNCHANGED <<tmp, ino, url>>
      /\ lock' = [lock EXCEPT ![n] = None] /\ robbed' = robbed \cup ({q} \ {None, p})
      /\ n \in Name
  BY DEF Releases, locked_break, created_install, not_modified_unlock, cache_cancel, TakeLock
<1>2. \A r \in Child : Failed(r)' = Failed(r)
  BY DEF Failed, Releases, locked_break, created_install, not_modified_unlock, cache_cancel
<1>3. FailedAt' = FailedAt
  BY <1>1, <1>2, NoFailure
<1>4. Finished' = Finished
  BY <1>1 DEF Finished
<1>5. main' = main \/ (pc[p] = "install" /\ q # None /\ main' = [main EXCEPT ![n] = q])
  BY DEF Releases, locked_break, created_install, not_modified_unlock, cache_cancel
<1>6. Copies'[n] \subseteq Copies[n] \cup ({q} \ {None}) /\ (main' = main => Copies' = Copies)
  BY <1>1, <1>5 DEF Copies
<1>7. Copies' = [Copies EXCEPT ![n] = Copies'[n]]
  BY <1>1, <1>5 DEF Copies
<1>8. q # None => url[q] = n /\ q \in Child
  BY <1>1 DEF LockOwner
<1>9. CASE q = None
  <2>1. lock' = lock /\ robbed' = robbed /\ main' = main
    BY <1>1, <1>5, <1>9
  <2> QED
    BY <1>1, <1>3, <1>4, <1>6, <2>1 DEF Seen, RobbedAt
<1>10. CASE q = p /\ q # None
  <2>1. robbed' = robbed
    BY <1>1, <1>10
  <2>2. RobbedAt' = RobbedAt
    BY <1>1, <2>1 DEF RobbedAt
  <2>3. CASE pc[p] = "install"
    <3>1. p \in Finished
      BY <2>3 DEF InstallReady, Finished
    <3> QED
      BY <1>1, <1>3, <1>4, <1>6, <1>7, <1>10, <2>2, <3>1
         DEF Contract!Publish, Contract!Become, Contract!Unlock
  <2>4. CASE pc[p] # "install"
    BY <1>1, <1>3, <1>4, <1>5, <1>6, <1>10, <2>2, <2>4 DEF Contract!GiveUp, Contract!Unlock
  <2> QED
    BY <2>3, <2>4
<1>11. CASE q # p /\ q # None
  <2>1. RobbedAt' = [RobbedAt EXCEPT ![n] = @ \cup {q}]
    BY <1>1, <1>8, <1>11 DEF RobbedAt
  <2>2. FailedAt[n] # {}
    <3>1. CASE pc[p] = "break"
      BY <1>1, <3>1 DEF StaleVerdict, FailedThere, FailedAt
    <3>2. CASE pc[p] # "break"
      <4>1. pc[p] \in Holding
        BY <3>2 DEF Releases, locked_break, created_install, not_modified_unlock,
                    cache_cancel, Holding
      <4>2. p \in robbed
        BY <1>11, <4>1 DEF LockExclusive
      <4> QED
        BY <1>1, <4>2 DEF FailedThere, FailedAt
    <3> QED
      BY <3>1, <3>2
  <2> QED
    BY <1>1, <1>3, <1>4, <1>6, <1>7, <1>11, <2>1, <2>2
       DEF Contract!Steal, Contract!Become, Contract!Unlock
<1> QED
  BY <1>9, <1>10, <1>11

\* Each step of a child, or of the clock, is one of the contract, or not seen.
LEMMA ContractStep ==
    ASSUME CInv, [Next]_vars
    PROVE  [Contract!ContractNext]_(Contract!contractVars)
<1>1. ASSUME NEW p \in Child
      PROVE  url[p] \in Name
  BY DEF CInv, IInv, TypeOK
<1>2. UNCHANGED Seen => UNCHANGED Contract!contractVars
  BY DEF Seen, Contract!contractVars
<1>3. CASE UNCHANGED vars \/ Tick
  BY <1>2, <1>3, ClockUnseen
<1>4. ASSUME NEW p \in Child, Looks(p) \/ Notes(p) PROVE UNCHANGED Contract!contractVars
  BY <1>2, <1>4, LooksUnseen
<1>5. ASSUME NEW p \in Child, Fails(p) PROVE Contract!ContractNext
  BY <1>1, <1>5, FailsAsContract DEF Contract!ContractNext
<1>6. ASSUME NEW p \in Child, Locks(p)
      PROVE  Contract!ContractNext \/ UNCHANGED Contract!contractVars
  BY <1>1, <1>2, <1>6, LocksAsContract DEF Contract!ContractNext
<1>7. ASSUME NEW p \in Child, Writes(p)
      PROVE  Contract!ContractNext \/ UNCHANGED Contract!contractVars
  BY <1>1, <1>2, <1>7, WritesAsContract DEF Contract!ContractNext
<1>8. ASSUME NEW p \in Child, Moves(p) PROVE Contract!ContractNext
  BY <1>1, <1>8, MovesAsContract DEF Contract!ContractNext
<1>9. ASSUME NEW p \in Child, Releases(p)
      PROVE  Contract!ContractNext \/ UNCHANGED Contract!contractVars
  BY <1>1, <1>2, <1>9, ReleasesAsContract DEF Contract!ContractNext
<1> QED
  BY <1>3, <1>4, <1>5, <1>6, <1>7, <1>8, <1>9, NextCases

\* Before the first request there may be copies, and nothing is locked, finished or lost.
LEMMA ContractInitially ==
    ASSUME Init
    PROVE  Contract!ContractInit /\ UnfinishedFiles /\ FailedThere
<1> USE DEF Init
<1>1. Copies \in [Name -> SUBSET {Orig}]
  BY DEF Copies
<1>2. Finished = {} /\ FailedAt = [n \in Name |-> {}] /\ RobbedAt = [n \in Name |-> {}]
  BY DEF Finished, FailedAt, Failed, RobbedAt
<1>3. UnfinishedFiles /\ FailedThere
  BY <1>2 DEF UnfinishedFiles, FailedThere
<1> QED
  BY <1>1, <1>2, <1>3 DEF Contract!ContractInit

\* No file is finished before its stream ends, and verdicts and thefts are at documents
\* where a child has failed: with the inductive invariant of LocksAndCopies, inductive.
THEOREM ContractInductive == Spec => []CInv
<1>1. Init => CInv
  BY InitIInv, ContractInitially DEF CInv
<1>2. CInv /\ [Next]_vars => CInv'
  BY NextIInv, UnfinishedFilesStep, FailedThereStep DEF CInv, IInv
<1> QED
  BY <1>1, <1>2, PTL DEF Spec

\* The children's system calls (HTCache.c) keep the contract of CacheContract: a copy is
\* published finished and under its writer's lock, and locks are stolen only where a child
\* has failed.
THEOREM ChildrenKeepContract == Spec => ContractKept
<1>1. Init => Contract!ContractInit
  BY ContractInitially
<1>2. CInv /\ [Next]_vars => [Contract!ContractNext]_(Contract!contractVars)
  BY ContractStep
<1> QED
  BY <1>1, <1>2, ContractInductive, PTL DEF Spec, ContractKept, Contract!ContractSpec

-----------------------------------------------------------------------------
(* The collector as part of the contract                                   *)

\* The invariants beside a collector.
GcCInv == GcIInv /\ UnfinishedFiles /\ FailedThere

\* The collector leaves the children where they are.
LEMMA CollectorAlone ==
    ASSUME GcLooks \/ GcInfo \/ (\E e \in Entry : Unlink(e)) \/ (\E n \in Name : UnlinkLock(n))
    PROVE  UNCHANGED childVars
BY DEF GcLooks, GcStart, ScanFile, ScanLock, ReadInfo, GcInfo, OpenInfo, WriteInfo, RemoveInfo,
       Unlink, UnlinkLock, vars, childVars

\* A collection finishes no file.
LEMMA GcUnfinishedFiles ==
    ASSUME GcCInv, [GcNext]_allVars
    PROVE  UnfinishedFiles'
<1>1. CASE [Next]_vars /\ UNCHANGED gcVars
  BY <1>1, UnfinishedFilesStep DEF GcCInv, GcIInv, IInv
<1>2. CASE UNCHANGED childVars
  BY <1>2 DEF GcCInv, UnfinishedFiles, Finished, childVars, inode
<1> QED
  BY <1>1, <1>2, GcNextCases, CollectorAlone

\* A collection robs only the child whose lock it found too old, which has failed at
\* that document.
LEMMA GcFailedThere ==
    ASSUME GcCInv, [GcNext]_allVars
    PROVE  FailedThere'
<1>1. CASE [Next]_vars /\ UNCHANGED gcVars
  BY <1>1, FailedThereStep DEF GcCInv, GcIInv
<1>2. ASSUME UNCHANGED childVars
      PROVE  UNCHANGED <<pc, url, seen>> /\ \A q \in Child : Failed(q)' = Failed(q)
  BY <1>2 DEF childVars, request, timer, Failed
<1>3. CASE UNCHANGED childVars /\ robbed' = robbed
  BY <1>2, <1>3 DEF GcCInv, GcIInv, IInv, TypeOK, FailedThere
<1>4. ASSUME NEW n \in Name, UnlinkLock(n) PROVE FailedThere'
  <2>1. UNCHANGED <<pc, url, seen>> /\ (\A q \in Child : Failed(q)' = Failed(q))
    BY <1>2, <1>4, CollectorAlone
  <2>2. gseen \in Child /\ Failed(gseen) /\ url[gseen] = n
    BY <1>4 DEF UnlinkLock, GcCInv, GcIInv, GcVerdict, GcTypeOK
  <2>3. robbed' = robbed \cup ({lock[n]} \ {None}) /\ (lock[n] # None => url[lock[n]] = n)
    BY <1>4 DEF UnlinkLock, TakeLock, GcCInv, GcIInv, IInv, LockOwner
  <2> QED
    BY <2>1, <2>2, <2>3 DEF GcCInv, GcIInv, IInv, TypeOK, FailedThere
<1> QED
  BY <1>1, <1>3, <1>4, GcNextCases, CollectorAlone
     DEF GcLooks, GcStart, ScanFile, ScanLock, ReadInfo, GcInfo, OpenInfo,
         WriteInfo, RemoveInfo, Unlink, vars

\* A collection that removes a copy is one that forgets it.
LEMMA UnlinkAsContract ==
    ASSUME GcCInv, NEW e \in Entry, Unlink(e)
    PROVE  Contract!Forget(e[2])
<1>1. UNCHANGED <<lock, robbed, childVars>>
  BY DEF Unlink
<1>2. Finished' = Finished /\ RobbedAt' = RobbedAt /\ FailedAt' = FailedAt
  BY <1>1 DEF Finished, RobbedAt, FailedAt, Failed, childVars, request, timer, inode
<1>3. e[2] \in Name
  BY DEF Entry
<1>4. Copies'[e[2]] \subseteq Copies[e[2]] /\ \A n \in Name \ {e[2]} : Copies'[n] = Copies[n]
  BY <1>3 DEF Copies, Unlink, GcCInv, GcIInv, IInv, TypeOK
<1>5. Copies' = [Copies EXCEPT ![e[2]] = Copies'[e[2]]]
  BY <1>3, <1>4 DEF Copies
<1> QED
  BY <1>1, <1>2, <1>4, <1>5 DEF Contract!Forget, Contract!Become

\* One that removes a lock steals it: the child it saw has failed at that document.
LEMMA UnlinkLockAsContract ==
    ASSUME GcCInv, NEW n \in Name, UnlinkLock(n)
    PROVE  Contract!Steal(n) \/ UNCHANGED Seen
<1>1. /\ UNCHANGED <<main, tmp, childVars>>
      /\ lock' = [lock EXCEPT ![n] = None] /\ robbed' = robbed \cup ({lock[n]} \ {None})
  BY DEF UnlinkLock, TakeLock
<1>2. Finished' = Finished /\ FailedAt' = FailedAt /\ Copies' = Copies
  BY <1>1 DEF Finished, Copies, FailedAt, Failed, childVars, request, timer, inode
<1>3. url' = url
  BY <1>1 DEF childVars, request
<1>4. CASE lock[n] = None
  <2>1. lock' = lock /\ robbed' = robbed
    BY <1>1, <1>4 DEF GcCInv, GcIInv, IInv, TypeOK
  <2>2. RobbedAt' = RobbedAt
    BY <1>3, <2>1 DEF RobbedAt
  <2> QED
    BY <1>2, <2>1, <2>2 DEF Seen
<1>5. CASE lock[n] # None
  <2>1. url[lock[n]] = n
    BY <1>5 DEF GcCInv, GcIInv, IInv, LockOwner
  <2>2. RobbedAt' = [RobbedAt EXCEPT ![n] = @ \cup {lock[n]}]
    BY <1>1, <1>3, <1>5, <2>1 DEF RobbedAt
  <2>3. FailedAt[n] # {}
    BY DEF UnlinkLock, GcCInv, GcIInv, GcVerdict, GcTypeOK, FailedAt
  <2>4. Copies' = [Copies EXCEPT ![n] = Copies[n]]
    BY <1>2 DEF Copies
  <2> QED
    BY <1>1, <1>2, <1>5, <2>2, <2>3, <2>4 DEF Contract!Steal, Contract!Become, Contract!Unlock
<1> QED
  BY <1>4, <1>5

\* What the collector reads and what it writes to .cache_info is not seen.
LEMMA CollectorUnseen ==
    ASSUME GcLooks \/ GcInfo
    PROVE  UNCHANGED Seen
<1>1. UNCHANGED <<main, tmp, lock, ino, url, robbed, pc, armed>>
  BY DEF GcLooks, GcStart, ScanFile, ScanLock, ReadInfo, GcInfo, OpenInfo, WriteInfo, RemoveInfo,
         vars, childVars, files, request, timer, inode
<1> QED
  BY <1>1 DEF Seen, Copies, Finished, RobbedAt, FailedAt, Failed

\* Each step beside a collection is one of the contract, or not seen.
LEMMA GcContractStep ==
    ASSUME GcCInv, [GcNext]_allVars
    PROVE  [Contract!ContractNext]_(Contract!contractVars)
<1>1. UNCHANGED Seen => UNCHANGED Contract!contractVars
  BY DEF Seen, Contract!contractVars
<1>2. CASE [Next]_vars /\ UNCHANGED gcVars
  BY <1>2, ContractStep DEF GcCInv, GcIInv, CInv
<1>3. CASE GcLooks \/ GcInfo
  BY <1>1, <1>3, CollectorUnseen
<1>4. ASSUME NEW e \in Entry, Unlink(e) PROVE Contract!ContractNext
  <2>1. e[2] \in Name
    BY DEF Entry
  <2> QED
    BY <1>4, <2>1, UnlinkAsContract DEF Contract!ContractNext
<1>5. ASSUME NEW n \in Name, UnlinkLock(n)
      PROVE  Contract!ContractNext \/ UNCHANGED Contract!contractVars
  BY <1>1, <1>5, UnlinkLockAsContract DEF Contract!ContractNext
<1> QED
  BY <1>2, <1>3, <1>4, <1>5, GcNextCases

\* The same beside a collector, which forgets copies and steals only where a child has
\* failed.
THEOREM CollectionKeepsContract == GcSpec => ContractKept
<1>1. GcInit => GcCInv /\ Contract!ContractInit
  BY GcInitIInv, ContractInitially DEF GcCInv, GcInit
<1>2. GcCInv /\ [GcNext]_allVars => GcCInv'
  BY GcNextIInv, GcUnfinishedFiles, GcFailedThere DEF GcCInv
<1>3. GcCInv /\ [GcNext]_allVars => [Contract!ContractNext]_(Contract!contractVars)
  BY GcContractStep
<1> QED
  BY <1>1, <1>2, <1>3, PTL DEF GcSpec, ContractKept, Contract!ContractSpec

\* A document's part of what the contract suffices for.
WholeAt(n) ==
    /\ Copies[n] \subseteq {Orig} \cup Finished \cup RobbedAt[n]
    /\ RobbedAt[n] # {} => FailedAt[n] # {}

\* A step of the contract at a document keeps each document's copies whole.
LEMMA WholeStep ==
    ASSUME NEW m \in Name, WholeAt(m), NEW n \in Name,
           \/ Contract!Publish(n) \/ Contract!GiveUp(n) \/ Contract!Forget(n) \/ Contract!Steal(n)
           \/ \E p \in Child : \/ Contract!Begin(p, n) \/ Contract!Finish(p, n)
                               \/ Contract!Fail(p, n)
    PROVE  WholeAt(m)'
<1>1. \A f, v : f = [k \in Name |-> f[k]] =>
          [f EXCEPT ![n] = v][m] = IF m = n THEN v ELSE f[m]
  OBVIOUS
<1>2. CASE Contract!Publish(n)
  <2>1. UNCHANGED <<Finished, FailedAt, RobbedAt>> /\ lock[n] \in Finished
    BY <1>2 DEF Contract!Publish
  <2>2. Copies'[m] \subseteq Copies[m] \cup {lock[n]}
    BY <1>1, <1>2, AllAtNames DEF Contract!Publish, Contract!Become
  <2> QED
    BY <2>1, <2>2 DEF WholeAt
<1>3. CASE Contract!GiveUp(n)
  BY <1>3 DEF Contract!GiveUp, WholeAt
<1>4. CASE Contract!Forget(n)
  <2>1. UNCHANGED <<Finished, FailedAt, RobbedAt>>
    BY <1>4 DEF Contract!Forget
  <2>2. Copies'[m] \subseteq Copies[m]
    BY <1>1, <1>4, AllAtNames DEF Contract!Forget, Contract!Become
  <2> QED
    BY <2>1, <2>2 DEF WholeAt
<1>5. CASE Contract!Steal(n)
  <2>1. UNCHANGED <<Finished, FailedAt>> /\ FailedAt[n] # {}
    BY <1>5 DEF Contract!Steal
  <2>2. RobbedAt'[m] = IF m = n THEN RobbedAt[m] \cup {lock[n]} ELSE RobbedAt[m]
    BY <1>1, <1>5, AllAtNames DEF Contract!Steal
  <2>3. Copies'[m] \subseteq IF m = n THEN Copies[m] \cup {lock[n]} ELSE Copies[m]
    BY <1>1, <1>5, AllAtNames DEF Contract!Steal, Contract!Become
  <2> QED
    BY <2>1, <2>2, <2>3 DEF WholeAt
<1>6. ASSUME NEW p \in Child, Contract!Begin(p, n) PROVE WholeAt(m)'
  BY <1>6 DEF Contract!Begin, WholeAt
<1>7. ASSUME NEW p \in Child, Contract!Finish(p, n) PROVE WholeAt(m)'
  BY <1>7 DEF Contract!Finish, WholeAt
<1>8. ASSUME NEW p \in Child, Contract!Fail(p, n) PROVE WholeAt(m)'
  <2>1. UNCHANGED <<Copies, Finished, RobbedAt>>
    BY <1>8 DEF Contract!Fail
  <2>2. FailedAt'[m] = IF m = n THEN FailedAt[m] \cup {p} ELSE FailedAt[m]
    BY <1>1, <1>8, AllAtNames DEF Contract!Fail
  <2> QED
    BY <2>1, <2>2 DEF WholeAt
<1> QED
  BY <1>2, <1>3, <1>4, <1>5, <1>6, <1>7, <1>8

\* From the contract alone: a copy was finished, unless a child has failed at its
\* document and its writer was robbed.
THEOREM ContractSuffices == ContractKept => []Contract!Whole
<1>1. Contract!Whole <=> \A n \in Name : WholeAt(n)
  BY DEF Contract!Whole, WholeAt
<1>2. Contract!ContractInit => Contract!Whole
  BY DEF Contract!ContractInit, Contract!Whole
<1>3. ASSUME Contract!Whole, [Contract!ContractNext]_(Contract!contractVars)
      PROVE  Contract!Whole'
  <2>1. CASE UNCHANGED Contract!contractVars
    BY <1>3, <2>1 DEF Contract!contractVars, Contract!Whole
  <2>2. CASE Contract!ContractNext
    <3>1. \A m \in Name : WholeAt(m)'
      BY <1>1, <1>3, <2>2, WholeStep DEF Contract!ContractNext
    <3> QED
      BY <3>1 DEF Contract!Whole, WholeAt
  <2> QED
    BY <1>3, <2>1, <2>2
<1> QED
  BY <1>2, <1>3, PTL DEF ContractKept, Contract!ContractSpec

=============================================================================
