------------------------------- MODULE CacheGC -------------------------------
(***************************************************************************)
(* The garbage collection of the cache as an algorithm                     *)
(* (Daemon/Implementation/HTgc.c).  gc_read_dir() walks the directories    *)
(* bottom up and keeps what it has seen in memory; when a protocol's       *)
(* directory is complete, or a subtree has too many nodes for the memory,  *)
(* it ranks the files in memory, finds the threshold below which enough    *)
(* bytes lie, and removes them.  Each such collection has its own          *)
(* threshold.                                                              *)
(*                                                                         *)
(* What other processes do to the cache meanwhile is in ProxyCacheGC.      *)
(* Values are in thousandths: the code's floats matter only in so far as   *)
(* they select an entry of its table.                                      *)
(***************************************************************************)
EXTENDS Integers, FiniteSets, FiniteSetsExt

CONSTANTS
    Dir,            \* directories of the cache
    Parent,         \* Parent[d]: the directory above d, or None for the roots
    None,
    Http,           \* the root of the http documents; others are ftp, gopher
    File,           \* cached files
    Place,          \* Place[f]: the directory of f
    Attributes,     \* [bytes, expired, unused, value] a file may have
    TABLE_SIZE,     \* entries of the table of values
    MemUsage,       \* cc.gc_mem_usage_control: nodes kept in memory
    MaxK,           \* cc.cache_max_k
    Usage           \* values of HTCacheUsage to consider

ASSUME GCAssumption ==
    /\ Parent \in [Dir -> Dir \cup {None}]
    /\ Place \in [File -> Dir]
    /\ Http \in Dir
    /\ None \notin Dir
    /\ MemUsage \in Nat /\ MaxK \in Nat
    /\ Usage \subseteq Nat
    /\ IsFiniteSet(Dir) /\ IsFiniteSet(File)

\* The directories are trees: going up from one leads to a root.
ASSUME TreeAssumption ==
    \E depth \in [Dir -> 0..Cardinality(Dir)] :
        \A d \in Dir : Parent[d] # None => depth[Parent[d]] < depth[d]

\* The last entry of the table is for all the values above those of the others.
ASSUME TableAssumption ==
    /\ TABLE_SIZE \in Nat /\ TABLE_SIZE > 0 /\ TABLE_SIZE % 20 = 0
    /\ \A a \in Attributes :
          a.bytes \in Nat /\ a.value \in Nat /\ 2 * a.value < 11 * TABLE_SIZE

VARIABLES
    attributes,     \* attributes[f]: what stat and the cache info say of f
    keep_expired,   \* cc.keep_expired
    usage,          \* HTCacheUsage when the collection began
    readDirs,       \* the directories that were read
    memory,         \* memory[d]: the files in the tree gc_read_dir(d) returned
    files,          \* the files that are on disk
    dirs,           \* the directories that are on disk
    infos,          \* files that have an entry in a .cache_info file
    bytes_total, bytes_collected,
    collections     \* number of collections so far

setting == <<attributes, keep_expired, usage>>
totals == <<bytes_total, bytes_collected, collections>>
vars == <<setting, readDirs, memory, files, dirs, infos, totals>>

\* The values of the variables.
TypeOK ==
    /\ attributes \in [File -> Attributes]
    /\ keep_expired \in BOOLEAN
    /\ usage \in Usage
    /\ readDirs \subseteq Dir
    /\ memory \in [Dir -> SUBSET File]
    /\ files \subseteq File /\ infos \subseteq File
    /\ dirs \subseteq Dir
    /\ bytes_total \in Nat /\ bytes_collected \in Nat
    /\ collections \in Nat

Init ==
    /\ attributes \in [File -> Attributes]
    /\ keep_expired \in BOOLEAN
    /\ usage \in Usage
    /\ readDirs = {}
    /\ memory = [d \in Dir |-> {}]
    /\ files = File /\ dirs = Dir
    /\ infos \in {File, {}}
    /\ bytes_total = 0 /\ bytes_collected = 0
    /\ collections = 0

Bytes(fs) == MapThenSumSet(LAMBDA f : attributes[f].bytes, fs)
Children(d) == {e \in Dir : Parent[e] = d}
FilesOf(d) == {f \in File : Place[f] = d}

-----------------------------------------------------------------------------
(* Ranking                                                                 *)

\* The entry of the table for a value: thousandths, then hundredths.
make_ind(v) ==
    LET n == IF v >= TABLE_SIZE \div 2
             THEN ((v - TABLE_SIZE \div 2) \div 10) + TABLE_SIZE \div 2
             ELSE v
    IN IF n >= TABLE_SIZE THEN TABLE_SIZE - 1 ELSE n

\* The value at which entry n begins.
ThresholdAt(n) ==
    IF n < TABLE_SIZE \div 2 THEN n ELSE (n - (9 * TABLE_SIZE) \div 20) * 10

\* eval(): expired documents may be kept, but only those that a conditional
\* request can refresh.
Expired(d, f) == attributes[f].expired /\ ~(keep_expired /\ d = Http)

\* A file that has expired, is too old or was not used for long is worth
\* nothing; d is the directory the collection was started for.
eval(d, f) == IF Expired(d, f) \/ attributes[f].unused THEN 0 ELSE attributes[f].value

\* table[i], after evaluate() of the files fs.
table(d, fs, i) == Bytes({f \in fs : make_ind(eval(d, f)) = i})

\* Mutant: the loop tests one entry too early.
find_threshold_Early(must_collect, d, fs) ==
    LET enough == {n \in 0..TABLE_SIZE :
            Bytes({f \in fs : make_ind(eval(d, f)) <= n}) >= must_collect}
    IN ThresholdAt(IF enough = {} THEN TABLE_SIZE ELSE Min(enough))

\* Mutant: one entry too many.
find_threshold_Late(must_collect, d, fs) ==
    LET enough == {n \in 1..TABLE_SIZE :
            Bytes({f \in fs : make_ind(eval(d, f)) < n}) >= must_collect}
    IN ThresholdAt(IF enough = {} THEN TABLE_SIZE ELSE Min(enough) + 1)

\* find_threshold(): the least number of entries, from the bottom, that hold
\* enough bytes; at least the first, at most all.
find_threshold(must_collect, d, fs) ==
    LET enough == {n \in 1..TABLE_SIZE :
            Bytes({f \in fs : make_ind(eval(d, f)) < n}) >= must_collect}
    IN ThresholdAt(IF enough = {} THEN TABLE_SIZE ELSE Min(enough))

\* gc() and get_threshold(): the fraction by which the usage is above nine
\* tenths of the limit, of the bytes in memory.
MustCollect(fs) ==
    IF MaxK = 0 \/ usage = 0 \/ 10 * usage < 9 * MaxK THEN 0
    ELSE ((10 * usage - 9 * MaxK) * Bytes(fs)) \div (10 * usage)

-----------------------------------------------------------------------------
(* The walk                                                                *)

\* The directories of the tree below the root of d: the walk is depth first,
\* one protocol after the other.
Root[d \in Dir] == IF Parent[d] = None THEN d ELSE Root[Parent[d]]

\* gc_read_dir(d) has seen the files of d, and what its calls for the
\* subdirectories have left in memory.
InMemory(d) == FilesOf(d) \cup UNION {memory[e] : e \in Children(d)}

ReadDir(d) ==
    /\ d \in dirs \ readDirs
    /\ Children(d) \subseteq readDirs
    /\ d # Http /\ Root[d] # Http => Http \in readDirs
    /\ readDirs' = readDirs \cup {d}
    /\ bytes_total' = bytes_total + Bytes(FilesOf(d))

\* Mutant: an entry is written for every file.
collect_AllEntries(d, fs) ==
    LET threshold == find_threshold(MustCollect(fs), Root[d], fs)
        victims == {f \in fs : eval(Root[d], f) < threshold}
        rewritten == {d} \cup {Place[f] : f \in fs}
    IN
    /\ files' = files \ victims
    /\ infos' = infos \cup fs
    /\ dirs' = dirs \ {e \in rewritten : Children(e) = {} /\ FilesOf(e) \subseteq victims}
    /\ bytes_collected' = bytes_collected + Bytes(victims)

\* collect() of d and the directories that hang from it: the files below the
\* threshold go, .cache_info is written anew for the others, and a directory
\* that had nothing else is removed.  A directory that was counted as an entry
\* of the one above is not discounted there.
collect(d, fs) ==
    LET threshold == find_threshold(MustCollect(fs), Root[d], fs)
        victims == {f \in fs : eval(Root[d], f) < threshold}
        rewritten == {d} \cup {Place[f] : f \in fs}
    IN
    /\ files' = files \ victims
    /\ infos' = (infos \ victims) \cup (fs \ victims)
    /\ dirs' = dirs \ {e \in rewritten : Children(e) = {} /\ FilesOf(e) \subseteq victims}
    /\ bytes_collected' = bytes_collected + Bytes(victims)

DoCollect(d) == Parent[d] = None \/ Cardinality(InMemory(d)) >= MemUsage

\* The end of gc_read_dir(d): collect, or leave the tree to the caller.
gc_read_dir(d) ==
    /\ ReadDir(d)
    /\ IF DoCollect(d)
       THEN collect(d, InMemory(d)) /\ collections' = collections + 1 /\ UNCHANGED memory
       ELSE /\ memory' = [memory EXCEPT ![d] = InMemory(d)]
            /\ UNCHANGED <<files, dirs, infos, bytes_collected, collections>>
    /\ UNCHANGED setting

Next == \E d \in Dir : gc_read_dir(d)

Spec == Init /\ [][Next]_vars

-----------------------------------------------------------------------------
(* Properties                                                              *)

Done == readDirs = Dir

\* After a collection that began with an estimate not below the truth, no more
\* than nine tenths of the limit is on disk, but for what the integer division
\* of each collection has lost.
LimitRestored ==
    Done /\ bytes_total <= usage /\ MaxK > 0 =>
        10 * Bytes(files) <= 9 * MaxK + 10 * collections

\* The report is true: what it says was found and removed was.
ReportTrue ==
    Done => /\ bytes_total = Bytes(File)
            /\ bytes_total - bytes_collected = Bytes(files)

\* Whatever the threshold, a document that has expired is removed, unless it
\* is an http document and those are kept.
ExpiredCollected ==
    Done => \A f \in files :
        attributes[f].expired => keep_expired /\ Root[Place[f]] = Http

\* The rewritten .cache_info files list the files that are left, and no others.
InfosMatch == Done => infos = files

\* Both: after a walk there is room, and nothing that has expired is left.
Collected == LimitRestored /\ ExpiredCollected

\* And what the report, the infos and the disk say of the cache is the same.
BooksAgree == ReportTrue /\ InfosMatch

\* A collection takes no more than it must: without the entry of the table at
\* which it stopped, and beyond the first entry, it would have been too little.
NoMoreThanNeeded ==
    [][\A d \in Dir : d \in readDirs' \ readDirs /\ files' # files =>
        LET fs == InMemory(d)
            gone == files \ files'
            top == {f \in gone : \A g \in gone :
                        make_ind(eval(Root[d], g)) <= make_ind(eval(Root[d], f))}
        IN  \/ \A f \in gone : make_ind(eval(Root[d], f)) = 0
            \/ Bytes(gone \ top) < MustCollect(fs)]_vars

=============================================================================
