----------------------------- MODULE CacheUsage -----------------------------
(***************************************************************************)
(* How the parent process knows how full the cache is.  A child tells what *)
(* it has cached by its exit status, eight bits wide, on a scale that gets *)
(* coarser with the size (HTBytesToExitStatus, HTExitStatusToKilos); the   *)
(* parent adds it to HTCacheUsage; and a garbage collection leaves a       *)
(* report, by which the parent corrects its estimate when the gc process   *)
(* has finished, and which is its only knowledge after a restart           *)
(* (read_gc_results).                                                      *)
(*                                                                         *)
(* Nothing orders a gc's tour of the cache directory, the children that    *)
(* write there, and the moments when the parent learns of either.          *)
(***************************************************************************)
EXTENDS Integers

CONSTANTS
    Child,         \* processes that serve requests
    Size,          \* sizes of new cache files, in bytes
    None,          \* no exit status is waiting
    NoResult,       \* no gc result is held in memory
    MaxTransfers,  \* bound: number of files written
    MaxGcs         \* bound: number of garbage collections

\* A size up to 12000K fits the scale; of anything longer the parent would
\* learn only that it was more than 10000K.
ASSUME UsageAssumption ==
    /\ \A b \in Size : b \in Nat /\ b < 12000 * 1024
    /\ MaxTransfers \in Nat
    /\ MaxGcs \in Nat

VARIABLES
    usage,        \* HTCacheUsage, in kilobytes
    exited,       \* exited[c]: the exit status of c, not yet waited for
    gc,           \* what the gc process does
    found,        \* bytes_total and bytes_collected, in the gc's memory
    report,       \* the last gc report, in the file .gc_info
    cached,       \* bytes that are in the cache
    sinceScan,    \* bytes added since the gc looked
    sinceReport,  \* bytes added since the gc looked that wrote the report
    uncounted,    \* bytes added and not in usage, less those counted twice
    transfers, gcs  \* bounded counters

added == <<sinceScan, sinceReport, uncounted>>
counters == <<transfers, gcs>>
usageVars == <<usage, exited, gc, found, report, cached, added, counters>>

Result == [used : Nat, freed : Nat]

UsageTypeOK ==
    /\ usage \in Nat
    /\ exited \in [Child -> [status : 0..255, bytes : Nat] \cup {None}]
    /\ gc \in {"none", "running", "finished"}
    /\ found \in Result \cup {NoResult}
    /\ report \in Result
    /\ cached \in Nat
    /\ sinceScan \in Nat /\ sinceReport \in Nat /\ uncounted \in Int
    /\ transfers \in Nat /\ gcs \in Nat

\* Mutant: the hundreds are not offset by the tens.
HTExitStatusToKilos_NoOffset(status) ==
    IF status < 100 THEN status
    ELSE IF status < 200 THEN (status - 100) * 10
    ELSE IF status < 250 THEN (status - 200) * 100 + 1000
    ELSE IF status < 255 THEN (status - 250) * 1000 + 5000
    ELSE 10000

HTExitStatusToKilos(status) ==
    IF status < 100 THEN status
    ELSE IF status < 200 THEN (status - 100) * 10 + 100
    ELSE IF status < 250 THEN (status - 200) * 100 + 1000
    ELSE IF status < 255 THEN (status - 250) * 1000 + 5000
    ELSE 10000

\* Mutant: no cap at 255.
HTBytesToExitStatus_NoCap(bytes) ==
    LET kilos == bytes \div 1024 IN
    IF kilos < 100 THEN kilos + 1
    ELSE IF kilos < 1000 THEN 100 + (kilos - 100) \div 10
    ELSE IF kilos < 5000 THEN 200 + (kilos - 1000) \div 100
    ELSE 250 + (kilos - 5000) \div 1000

HTBytesToExitStatus(bytes) ==
    LET kilos == bytes \div 1024 IN
    IF kilos < 100 THEN kilos + 1
    ELSE IF kilos < 1000 THEN 100 + (kilos - 100) \div 10
    ELSE IF kilos < 5000 THEN 200 + (kilos - 1000) \div 100
    ELSE IF kilos < 10000 THEN 250 + (kilos - 5000) \div 1000
    ELSE 255

\* read_gc_results: the usage k less what was freed is believed if it is near
\* what the gc has found; else what the gc has found.
read_gc_results(k, r) ==
    LET corrected == k - r.freed \div 1024 IN
    IF corrected \in (r.used \div 1140)..(r.used \div 930)
    THEN corrected
    ELSE r.used \div 1024

\* The server starts with the report of an earlier run; what was cached after
\* that report is not known to it.
UsageInit ==
    /\ \E u, f, s \in Size \cup {0} :
          /\ report = [used |-> u, freed |-> f]
          /\ cached = u + s
          /\ sinceReport = s
    /\ usage = read_gc_results(0, report)
    /\ uncounted = sinceReport
    /\ exited = [c \in Child |-> None]
    /\ gc = "none"
    /\ found = NoResult
    /\ sinceScan = 0
    /\ transfers = 0 /\ gcs = 0

-----------------------------------------------------------------------------
(* The children                                                            *)

\* A child writes a cache file of b bytes and sets its exit status; the file
\* replaces one of old bytes, or is an incomplete one that is thrown away.
FileWritten(c) ==
    \E b \in Size, discarded \in BOOLEAN :
        LET new == IF discarded THEN 0 ELSE b IN
        /\ transfers < MaxTransfers /\ exited[c] = None
        /\ exited' = [exited EXCEPT ![c] =
                          [status |-> HTBytesToExitStatus(b), bytes |-> new]]
        /\ \E old \in Size \cup {0} :
              /\ old <= cached /\ (discarded => old = 0)
              /\ cached' = cached - old + new
        /\ sinceScan' = sinceScan + new
        /\ sinceReport' = sinceReport + new
        /\ uncounted' = uncounted + new
        /\ transfers' = transfers + 1
        /\ UNCHANGED <<usage, gc, found, report, gcs>>

\* The parent waits for the child.
sig_child(c) ==
    /\ exited[c] # None
    /\ usage' = usage + HTExitStatusToKilos(exited[c].status)
    /\ uncounted' = uncounted - exited[c].bytes
    /\ exited' = [exited EXCEPT ![c] = None]
    /\ UNCHANGED <<gc, found, report, cached, sinceScan, sinceReport, counters>>

-----------------------------------------------------------------------------
(* The garbage collection                                                  *)

\* gc tours the cache and removes some or all of it.
Collect ==
    /\ gc = "none" /\ gcs < MaxGcs
    /\ \E freed \in {0, cached \div 2, cached} :
          /\ found' = [used |-> cached - freed, freed |-> freed]
          /\ cached' = cached - freed
    /\ gc' = "running"
    /\ sinceScan' = 0
    /\ gcs' = gcs + 1
    /\ UNCHANGED <<usage, exited, report, sinceReport, uncounted, transfers>>

\* It writes its report, and exits.
WriteReport ==
    /\ gc = "running"
    /\ report' = found
    /\ sinceReport' = sinceScan
    /\ gc' = "finished"
    /\ found' = NoResult
    /\ UNCHANGED <<usage, exited, cached, sinceScan, uncounted, counters>>

\* It dies, and leaves the report of the last one.
GcDies ==
    /\ gc = "running"
    /\ gc' = "finished"
    /\ found' = NoResult
    /\ UNCHANGED <<usage, exited, report, cached, added, counters>>

\* The parent waits for the gc process and reads the report, whoever wrote it:
\* a wrong process id in it is only logged.
gc_completed ==
    /\ gc = "finished"
    /\ usage' = read_gc_results(usage, report)
    /\ uncounted' = sinceReport
    /\ gc' = "none"
    /\ UNCHANGED <<exited, found, report, cached, sinceScan, sinceReport, counters>>

\* The machine goes down, and the server starts again.
Restart ==
    /\ usage' = read_gc_results(0, report)
    /\ uncounted' = sinceReport
    /\ exited' = [c \in Child |-> None]
    /\ gc' = "none"
    /\ found' = NoResult
    /\ UNCHANGED <<report, cached, sinceScan, sinceReport, counters>>

UsageNext ==
    \/ \E c \in Child : FileWritten(c) \/ sig_child(c)
    \/ Collect
    \/ WriteReport
    \/ GcDies
    \/ gc_completed
    \/ Restart

UsageSpec == UsageInit /\ [][UsageNext]_usageVars

-----------------------------------------------------------------------------
(* Properties                                                              *)

\* The limit CacheSize is kept by the estimate, so the estimate must not fall
\* behind: whatever the interleaving of transfers, collections and restarts,
\* all bytes in the cache but the uncounted ones are in HTCacheUsage, short of
\* at most a sixth (and 1K) that the coarse scale and the tolerance of
\* read_gc_results lose.
UsageCoversCache ==
    5 * (cached - uncounted) <= 6 * 1024 * (usage + 1)

=============================================================================
