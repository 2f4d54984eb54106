-------------------------- MODULE CacheUsageProofs --------------------------
(* Proofs about CacheUsage.                                                *)
EXTENDS CacheUsage, TLAPS

\* What the parent must know of a pending status, and of what it reads next:
\* a status stands for at least five sixths of the bytes it reports, and a
\* report and what was added since tell of all that is in the cache.
Pending ==
    \A c \in Child : exited[c] # None =>
        5 * exited[c].bytes <= 6 * 1024 * HTExitStatusToKilos(exited[c].status)

Accounted ==
    /\ cached <= report.used + sinceReport
    /\ gc = "running" => /\ found \in Result
                         /\ cached <= found.used + sinceScan

IInv == UsageTypeOK /\ UsageCoversCache /\ Pending /\ Accounted

\* A size in bytes becomes an exit status of eight bits that is read back as at
\* least five sixths of the size.
LEMMA StatusCoversSize ==
    ASSUME NEW b \in Nat, b < 12000 * 1024
    PROVE  /\ HTBytesToExitStatus(b) \in 0..255
           /\ HTExitStatusToKilos(HTBytesToExitStatus(b)) \in Nat
           /\ 5 * b <= 6 * 1024 * HTExitStatusToKilos(HTBytesToExitStatus(b))
<1> DEFINE k == b \div 1024
<1>1. k \in Nat /\ k < 12000 /\ b < 1024 * (k + 1)
  OBVIOUS
<1> HIDE DEF k
<1>2. CASE k < 100
  <2>1. HTBytesToExitStatus(b) = k + 1
    BY <1>1, <1>2 DEF HTBytesToExitStatus, k
  <2>2. HTExitStatusToKilos(k + 1) = k + 1
    BY <1>1, <1>2 DEF HTExitStatusToKilos
  <2> QED
    BY <1>1, <1>2, <2>1, <2>2
<1>3. CASE 100 <= k /\ k < 1000
  <2> DEFINE s == (k - 100) \div 10
  <2>1. s \in 0..89 /\ 10 * s + 110 > k
    BY <1>1, <1>3
  <2>2. HTBytesToExitStatus(b) = 100 + s
    BY <1>1, <1>3 DEF HTBytesToExitStatus, k
  <2> HIDE DEF s
  <2>3. HTExitStatusToKilos(100 + s) = 10 * s + 100
    BY <2>1 DEF HTExitStatusToKilos
  <2> QED
    BY <1>1, <1>3, <2>1, <2>2, <2>3
<1>4. CASE 1000 <= k /\ k < 5000
  <2> DEFINE s == (k - 1000) \div 100
  <2>1. s \in 0..39 /\ 100 * s + 1100 > k
    BY <1>1, <1>4
  <2>2. HTBytesToExitStatus(b) = 200 + s
    BY <1>1, <1>4 DEF HTBytesToExitStatus, k
  <2> HIDE DEF s
  <2>3. HTExitStatusToKilos(200 + s) = 100 * s + 1000
    BY <2>1 DEF HTExitStatusToKilos
  <2> QED
    BY <1>1, <1>4, <2>1, <2>2, <2>3
<1>5. CASE 5000 <= k /\ k < 10000
  <2> DEFINE s == (k - 5000) \div 1000
  <2>1. s \in 0..4 /\ 1000 * s + 6000 > k
    BY <1>1, <1>5
  <2>2. HTBytesToExitStatus(b) = 250 + s
    BY <1>1, <1>5 DEF HTBytesToExitStatus, k
  <2> HIDE DEF s
  <2>3. HTExitStatusToKilos(250 + s) = 1000 * s + 5000
    BY <2>1 DEF HTExitStatusToKilos
  <2> QED
    BY <1>1, <1>5, <2>1, <2>2, <2>3
<1>6. CASE k >= 10000
  <2>1. HTBytesToExitStatus(b) = 255
    BY <1>1, <1>6 DEF HTBytesToExitStatus, k
  <2>2. HTExitStatusToKilos(255) = 10000
    BY DEF HTExitStatusToKilos
  <2> QED
    BY <1>1, <1>6, <2>1, <2>2
<1> QED
  BY <1>1, <1>2, <1>3, <1>4, <1>5, <1>6

\* What an exit status is read back as is never negative.
LEMMA KilosNat ==
    ASSUME NEW s \in 0..255
    PROVE  HTExitStatusToKilos(s) \in Nat
BY DEF HTExitStatusToKilos

\* Whatever the parent believed, the estimate after a report covers what the
\* report tells of.
LEMMA ReportCovers ==
    ASSUME NEW k \in Nat, NEW r \in Result
    PROVE  /\ read_gc_results(k, r) \in Nat
           /\ 5 * r.used <= 6 * 1024 * (read_gc_results(k, r) + 1)
<1> DEFINE low == r.used \div 1140
           high == r.used \div 930
           mid == r.used \div 1024
           gone == r.freed \div 1024
<1>1. r.used \in Nat /\ r.freed \in Nat
  BY DEF Result
<1>2. /\ low \in Nat /\ r.used < 1140 * (low + 1)
      /\ mid \in Nat /\ r.used < 1024 * (mid + 1)
      /\ high \in Nat /\ gone \in Nat
  BY <1>1
<1>3. read_gc_results(k, r) = IF k - gone \in low..high THEN k - gone ELSE mid
  BY DEF read_gc_results
<1> HIDE DEF low, high, mid, gone
<1>4. CASE k - gone \in low..high
  BY <1>1, <1>2, <1>3, <1>4
<1>5. CASE k - gone \notin low..high
  BY <1>1, <1>2, <1>3, <1>5
<1> QED
  BY <1>4, <1>5

-----------------------------------------------------------------------------
\* The initial states.
LEMMA InitIInv == UsageInit => IInv
<1> SUFFICES ASSUME UsageInit PROVE IInv
  OBVIOUS
<1> USE UsageAssumption
<1>1. PICK u, f, s \in Size \cup {0} :
          /\ report = [used |-> u, freed |-> f]
          /\ cached = u + s
          /\ sinceReport = s
  BY DEF UsageInit
<1>2. u \in Nat /\ f \in Nat /\ s \in Nat
  OBVIOUS
<1>3. report \in Result /\ report.used = u
  BY <1>1, <1>2 DEF Result
<1>4. /\ usage \in Nat
      /\ 5 * report.used <= 6 * 1024 * (usage + 1)
  BY <1>3, ReportCovers DEF UsageInit
<1>5. UsageTypeOK
  BY <1>1, <1>2, <1>3, <1>4 DEF UsageInit, UsageTypeOK
<1>6. UsageCoversCache
  BY <1>1, <1>2, <1>3, <1>4 DEF UsageInit, UsageCoversCache
<1>7. Pending /\ Accounted
  BY <1>1, <1>2, <1>3 DEF UsageInit, Pending, Accounted
<1> QED
  BY <1>5, <1>6, <1>7 DEF IInv

\* A child writes a file: its bytes are in no estimate yet, and its status
\* covers them.
LEMMA Cached ==
    ASSUME IInv, NEW c \in Child, FileWritten(c)
    PROVE  IInv'
<1> USE UsageAssumption
<1>1. PICK b \in Size, discarded \in BOOLEAN :
        LET new == IF discarded THEN 0 ELSE b IN
        /\ transfers < MaxTransfers /\ exited[c] = None
        /\ exited' = [exited EXCEPT ![c] =
                          [status |-> HTBytesToExitStatus(b), bytes |-> new]]
        /\ \E old \in Size \cup {0} :
              /\ old <= cached /\ (discarded => old = 0)
              /\ cached' = cached - old + new
        /\ sinceScan' = sinceScan + new
        /\ sinceReport' = sinceReport + new
        /\ uncounted' = uncounted + new
        /\ transfers' = transfers + 1
        /\ UNCHANGED <<usage, gc, found, report, gcs>>
  BY DEF FileWritten
<1> DEFINE new == IF discarded THEN 0 ELSE b
           s == HTBytesToExitStatus(b)
<1>2. b \in Nat /\ new \in Nat /\ new <= b
  OBVIOUS
<1>3. /\ s \in 0..255
      /\ HTExitStatusToKilos(s) \in Nat
      /\ 5 * b <= 6 * 1024 * HTExitStatusToKilos(s)
  BY StatusCoversSize
<1>4. PICK old \in Size \cup {0} : old <= cached /\ cached' = cached - old + new
  BY <1>1
<1>5. old \in Nat
  OBVIOUS
<1>6. /\ exited' = [exited EXCEPT ![c] = [status |-> s, bytes |-> new]]
      /\ sinceScan' = sinceScan + new
      /\ sinceReport' = sinceReport + new
      /\ uncounted' = uncounted + new
      /\ transfers' = transfers + 1
      /\ UNCHANGED <<usage, gc, found, report, gcs>>
  BY <1>1
<1> HIDE DEF new, s
<1>7. UsageTypeOK'
  BY <1>2, <1>3, <1>4, <1>5, <1>6 DEF IInv, UsageTypeOK
<1>8. UsageCoversCache'
  BY <1>2, <1>4, <1>5, <1>6 DEF IInv, UsageTypeOK, UsageCoversCache
<1>9. Pending'
  <2>1. 5 * new <= 6 * 1024 * HTExitStatusToKilos(s)
    BY <1>2, <1>3
  <2> QED
    BY <2>1, <1>6 DEF IInv, UsageTypeOK, Pending
<1>10. Accounted'
  BY <1>2, <1>4, <1>5, <1>6 DEF IInv, UsageTypeOK, Accounted, Result
<1> QED
  BY <1>7, <1>8, <1>9, <1>10 DEF IInv

\* The parent adds what a status stands for.
LEMMA Counted ==
    ASSUME IInv, NEW c \in Child, sig_child(c)
    PROVE  IInv'
<1> DEFINE p == exited[c]
<1>1. /\ p \in [status : 0..255, bytes : Nat]
      /\ 5 * p.bytes <= 6 * 1024 * HTExitStatusToKilos(p.status)
  BY DEF IInv, UsageTypeOK, Pending, sig_child
<1>2. /\ p.status \in 0..255
      /\ p.bytes \in Nat
      /\ HTExitStatusToKilos(p.status) \in Nat
  BY <1>1, KilosNat
<1>3. /\ usage' = usage + HTExitStatusToKilos(p.status)
      /\ uncounted' = uncounted - p.bytes
      /\ exited' = [exited EXCEPT ![c] = None]
      /\ UNCHANGED <<gc, found, report, cached, sinceScan, sinceReport, counters>>
  BY DEF sig_child
<1> HIDE DEF p
<1>4. UsageTypeOK'
  BY <1>2, <1>3 DEF IInv, UsageTypeOK, counters
<1>5. UsageCoversCache'
  BY <1>1, <1>2, <1>3 DEF IInv, UsageTypeOK, UsageCoversCache
<1>6. Pending'
  BY <1>3 DEF IInv, UsageTypeOK, Pending
<1>7. Accounted'
  BY <1>3 DEF IInv, Accounted
<1> QED
  BY <1>4, <1>5, <1>6, <1>7 DEF IInv

\* The collection removes bytes; the estimate stays ahead.
LEMMA Collected ==
    ASSUME IInv, Collect
    PROVE  IInv'
<1>1. PICK freed \in {0, cached \div 2, cached} :
          /\ found' = [used |-> cached - freed, freed |-> freed]
          /\ cached' = cached - freed
  BY DEF Collect
<1>2. cached \in Nat /\ freed \in Nat /\ freed <= cached
  BY DEF IInv, UsageTypeOK
<1>3. found' \in Result /\ found'.used = cached' /\ cached' \in Nat
  BY <1>1, <1>2 DEF Result
<1>4. UsageTypeOK'
  BY <1>3 DEF IInv, UsageTypeOK, Collect
<1>5. UsageCoversCache'
  BY <1>1, <1>2 DEF IInv, UsageTypeOK, UsageCoversCache, Collect
<1>6. Pending'
  BY DEF IInv, Pending, Collect
<1>7. Accounted'
  BY <1>1, <1>2, <1>3 DEF IInv, UsageTypeOK, Accounted, Collect, Result
<1> QED
  BY <1>4, <1>5, <1>6, <1>7 DEF IInv

\* The gc leaves its report, or dies: the parent's estimate is the same, and
\* the report in the file and what came after it cover the cache.
LEMMA GcExits ==
    ASSUME IInv, WriteReport \/ GcDies
    PROVE  IInv'
<1>1. UsageTypeOK'
  BY DEF IInv, UsageTypeOK, Accounted, WriteReport, GcDies, added, counters
<1>2. UsageCoversCache'
  BY DEF IInv, UsageCoversCache, WriteReport, GcDies, added
<1>3. Pending'
  BY DEF IInv, Pending, WriteReport, GcDies
<1>4. Accounted'
  BY DEF IInv, Accounted, WriteReport, GcDies, added
<1> QED
  BY <1>1, <1>2, <1>3, <1>4 DEF IInv

\* The parent reads the report in the file: the estimate covers what it tells
\* of, and the bytes that came after it are uncounted.
LEMMA ReportRead ==
    ASSUME IInv, gc_completed \/ Restart
    PROVE  IInv'
<1>1. /\ report \in Result /\ usage \in Nat
      /\ report.used \in Nat
      /\ cached \in Nat /\ sinceReport \in Nat
      /\ cached <= report.used + sinceReport
  BY DEF IInv, UsageTypeOK, Accounted, Result
<1>2. /\ usage' \in Nat
      /\ 5 * report.used <= 6 * 1024 * (usage' + 1)
  BY <1>1, ReportCovers DEF gc_completed, Restart
<1>3. uncounted' = sinceReport /\ UNCHANGED <<report, cached, sinceReport>>
  BY DEF gc_completed, Restart
<1>4. UsageTypeOK'
  BY <1>1, <1>2, <1>3 DEF IInv, UsageTypeOK, gc_completed, Restart, counters
<1>5. UsageCoversCache'
  <2>1. 5 * (cached - sinceReport) <= 5 * report.used
    BY <1>1
  <2> DEFINE net == 5 * (cached - sinceReport)
             all == 5 * report.used
             most == 6 * 1024 * (usage' + 1)
  <2>2. net \in Int /\ all \in Int /\ most \in Int
    BY <1>1, <1>2
  <2>3. net <= all /\ all <= most
    BY <2>1, <1>2
  <2> HIDE DEF net, all, most
  <2>4. net <= most
    BY <2>2, <2>3
  <2>5. 5 * (cached - sinceReport) <= 6 * 1024 * (usage' + 1)
    BY <2>4 DEF net, most
  <2> QED
    BY <1>3, <2>5 DEF UsageCoversCache
<1>6. Pending'
  BY DEF IInv, Pending, gc_completed, Restart
<1>7. Accounted'
  BY <1>1, <1>3 DEF Accounted, gc_completed, Restart
<1> QED
  BY <1>4, <1>5, <1>6, <1>7 DEF IInv

\* Every step keeps the inductive invariant.
LEMMA NextIInv == IInv /\ [UsageNext]_usageVars => IInv'
<1> SUFFICES ASSUME IInv, [UsageNext]_usageVars PROVE IInv'
  OBVIOUS
<1>1. ASSUME NEW c \in Child, FileWritten(c) PROVE IInv'
  BY <1>1, Cached
<1>2. ASSUME NEW c \in Child, sig_child(c) PROVE IInv'
  BY <1>2, Counted
<1>3. CASE Collect
  BY <1>3, Collected
<1>4. CASE WriteReport \/ GcDies
  BY <1>4, GcExits
<1>5. CASE gc_completed \/ Restart
  BY <1>5, ReportRead
<1>6. CASE UNCHANGED usageVars
  <2>1. UsageTypeOK'
    BY <1>6 DEF IInv, UsageTypeOK, usageVars, added, counters
  <2>2. UsageCoversCache'
    BY <1>6 DEF IInv, UsageCoversCache, usageVars, added
  <2>3. Pending'
    BY <1>6 DEF IInv, Pending, usageVars
  <2>4. Accounted'
    BY <1>6 DEF IInv, Accounted, usageVars, added
  <2> QED
    BY <2>1, <2>2, <2>3, <2>4 DEF IInv
<1> QED
  BY <1>1, <1>2, <1>3, <1>4, <1>5, <1>6 DEF UsageNext

-----------------------------------------------------------------------------
\* The types: the exit status fits eight bits, the estimate is never negative.
THEOREM UsageTypeCorrect == UsageSpec => []UsageTypeOK
<1>1. IInv => UsageTypeOK
  BY DEF IInv
<1> QED
  BY <1>1, InitIInv, NextIInv, PTL DEF UsageSpec

\* The estimate does not fall behind the cache but by the uncounted bytes, for
\* any number of children, transfers, collections and restarts, and any sizes
\* up to 12000K.
THEOREM EstimateCoversCache == UsageSpec => []UsageCoversCache
<1>1. IInv => UsageCoversCache
  BY DEF IInv
<1> QED
  BY <1>1, InitIInv, NextIInv, PTL DEF UsageSpec

=============================================================================
