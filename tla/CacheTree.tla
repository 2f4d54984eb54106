----------------------------- MODULE CacheTree ------------------------------
(***************************************************************************)
(* The names of cached copies, and the directories they make               *)
(* (Daemon/Implementation/HTCache.c, HTCacheInfo.c).  The path of a URL is *)
(* the path of its copy; a copy whose name is needed for a directory moves *)
(* into that directory, under a name of its own.  Children do this beside  *)
(* each other, by system calls that they do not check.                     *)
(*                                                                         *)
(* A name is a sequence of components [base, suffix].  ProxyCache has the  *)
(* locks and verdicts of one name in detail; here a copy is fresh or stale *)
(* and a lock old or not as it pleases them.                               *)
(***************************************************************************)
EXTENDS Integers, Sequences, SequencesExt

CONSTANTS
    Child,          \* processes that serve a request each
    Url,            \* URLs asked for
    Access,         \* Access[u]: its protocol
    HostName,       \* HostName[u]: its host as it was written
    LowerCase,      \* LowerCase[h]: that in lower case
    Path,           \* Path[u]: the components of its path
    Slash,          \* URLs that end with a slash
    Search,         \* URLs with a question mark
    TooLong,        \* URLs whose last component is longer than 64 characters
    NoCaching,      \* URLs that a template of cc.no_caching matches
    CacheOnly,      \* those that one of cc.cache_only matches, or Absent
    OldTree,        \* the trees a daemon may find
    Absent          \* what is not there

VARIABLES
    tree,           \* tree[n]: what is at name n, "dir" or the URL of a document
    info,           \* names that have an entry in the .cache_info beside them
    pc,             \* pc[p]: the next system call of child p
    url,            \* url[p]: what it was asked for
    cfn,            \* cfn[p]: the name of the copy
    cur,            \* cur[p]: how much of it create_cache_place has dealt with
    create,         \* create[p]: the directories from there on are missing
    ims,            \* ims[p]: there is a backup
    served,         \* served[p]: what the client got from the cache
    together,       \* history: two children were at work at a time
    kept            \* history: documents that were put into the cache for good

place == <<cfn, cur, create>>
history == <<together, kept>>
treeVars == <<tree, info, pc, url, place, ims, served, history>>

Part(base, suffix) == [base |-> base, suffix |-> suffix]
INDEX_FILE == Part(".cache_dirindex", "")
WELCOME_FILE == Part(".cache_welcome", "")
CACHE_INFO == Part(".cache_info", "")

\* The components that names are made of.
Base ==
    {".cache_dirindex", ".cache_welcome"}
    \cup {Access[u] : u \in Url} \cup {LowerCase[HostName[u]] : u \in Url}
    \cup {c.base : c \in UNION {ToSet(Path[u]) : u \in Url}}
Suffix ==
    {"", ".cache_lock", ".cache_tmp"} \cup {c.suffix : c \in UNION {ToSet(Path[u]) : u \in Url}}
Component == [base : Base, suffix : Suffix]

ASSUME UrlAssumption ==
    /\ "dir" \notin Url /\ Absent \notin Url /\ Absent # "dir"
    /\ \A u \in Url : Path[u] \in Seq(Component)

\* The suffix of a component, and names of the cache's own, may only be found at
\* the end of a URL: reserved_name() does not look further, and a URL that has
\* .cache_dirindex for a directory comes to what was moved there.  No host has
\* that name.
ASSUME OwnNames ==
    \A u \in Url :
        /\ LowerCase[HostName[u]] # ".cache_dirindex"
        /\ \A i \in DOMAIN Path[u] :
              i < Len(Path[u]) \/ u \in Slash =>
                 /\ Path[u][i].suffix = ""
                 /\ Path[u][i].base \notin {".cache_dirindex", ".cache_welcome"}

With(n, suffix) == Append(Front(n), Part(Last(n).base, suffix))
LockName(n) == With(n, ".cache_lock")
TmpName(n) == With(n, ".cache_tmp")

-----------------------------------------------------------------------------
(* The file system.                                                        *)

Stat(n) == IF n \in DOMAIN tree THEN tree[n] ELSE Absent
IsDir(n) == n = <<>> \/ Stat(n) = "dir"
IsReg(n) == Stat(n) \notin {Absent, "dir"}

Below(n) == {m \in DOMAIN tree \cup info : IsPrefix(n, m) /\ m # n}

Plus(n, what) == [m \in DOMAIN tree \cup {n} |-> IF m = n THEN what ELSE tree[m]]
Minus(S) == [m \in DOMAIN tree \ S |-> tree[m]]

\* What rename() accepts: over a file only a file, over a directory only a
\* directory and only if it is empty.
CanRename(old, new) ==
    /\ old \in DOMAIN tree /\ IsDir(Front(new)) /\ ~IsStrictPrefix(old, new)
    /\ \/ Stat(new) = Absent
       \/ IsReg(old) /\ IsReg(new)
       \/ IsDir(old) /\ IsDir(new) /\ Below(new) = {}

Moved(m, old, new) == new \o SubSeq(m, Len(old) + 1, Len(m))

\* rename(), whose result nobody looks at.  The .cache_info of a directory, and
\* all else in it, goes with it.
Rename(old, new) ==
    IF ~CanRename(old, new) THEN UNCHANGED <<tree, info>>
    ELSE LET stay == DOMAIN tree \ (Below(old) \cup {old, new})
             goes == Below(old) \cup {old}
         IN /\ tree' = [m \in stay \cup {Moved(k, old, new) : k \in goes \cap DOMAIN tree} |->
                          IF IsPrefix(new, m)
                          THEN tree[Moved(m, new, old)] ELSE tree[m]]
            /\ info' = (info \ Below(old))
                       \cup {Moved(k, old, new) : k \in Below(old) \cap info}

\* mkdir(); it fails if there is anything of that name.
CanMkdir(n) == Stat(n) = Absent /\ IsDir(Front(n))
Mkdir(n) == tree' = IF CanMkdir(n) THEN Plus(n, "dir") ELSE tree

\* unlink(); of a file only.
Unlink(n) == tree' = IF IsReg(n) THEN Minus({n}) ELSE tree

-----------------------------------------------------------------------------
(* The names.                                                              *)

\* Mutant: the suffixes are not looked at.
reserved_name_NoSuffix(u) ==
    /\ u \notin Slash /\ Path[u] # <<>>
    /\ Last(Path[u]) \in {CACHE_INFO, INDEX_FILE, WELCOME_FILE}

\* The last component of the URL, which is empty after a slash, is a name that
\* the cache uses itself.
reserved_name(u) ==
    /\ u \notin Slash /\ Path[u] # <<>>
    /\ \/ Last(Path[u]) \in {CACHE_INFO, INDEX_FILE, WELCOME_FILE}
       \/ Last(Path[u]).suffix # ""

do_caching(u) == u \notin NoCaching /\ (CacheOnly = Absent \/ u \in CacheOnly)

\* The name of the copy, or Absent if there is to be no copy.
cache_file_name(u) ==
    IF u \in Search \cup TooLong \/ reserved_name(u)
       \/ Access[u] \notin {"http", "ftp", "gopher"}
    THEN Absent
    ELSE <<Part(Access[u], ""), Part(LowerCase[HostName[u]], "")>> \o Path[u]
         \o IF u \in Slash THEN <<WELCOME_FILE>> ELSE <<>>

\* The trees a daemon may find are those that children leave who work one after the
\* other: a copy is where its URL leads to, or the index of the directory there,
\* and may have left its lock or a backup.
ASSUME OldTreeAssumption == \A t \in OldTree : \A n \in DOMAIN t :
    /\ n \in Seq(Component) /\ n # <<>>
    /\ \A i \in 1 .. Len(n) - 1 : SubSeq(n, 1, i) \in DOMAIN t /\ t[SubSeq(n, 1, i)] = "dir"
    /\ t[n] = "dir" => \A i \in DOMAIN n : n[i].suffix = "" /\ n[i] # INDEX_FILE
    /\ t[n] # "dir" =>
          /\ t[n] \in Url /\ cache_file_name(t[n]) # Absent
          /\ \E m \in {cache_file_name(t[n]), Append(cache_file_name(t[n]), INDEX_FILE)} :
                n \in {m, LockName(m), TmpName(m)}

\* HTCacheInfo_writeEntryFor(): the entry is appended to the .cache_info file
\* of the directory, if that can be opened.
Entered(n) == IF IsDir(Front(n)) THEN info \cup {n} ELSE info
HTCacheInfo_for(n) == n \in info /\ IsDir(Front(n))

-----------------------------------------------------------------------------
(* cache_lookup                                                            *)

Working(p) == pc[p] \notin {"free", "exit"}
Goto(p, label) == pc' = [pc EXCEPT ![p] = label]

\* The URL has a name: the lock of that name is looked at first.
Lookup(p, u) ==
    /\ pc[p] = "free"
    /\ url' = [url EXCEPT ![p] = u]
    /\ together' = (together \/ \E q \in Child : Working(q))
    /\ IF do_caching(u) /\ cache_file_name(u) # Absent
       THEN Goto(p, "locked") /\ cfn' = [cfn EXCEPT ![p] = cache_file_name(u)]
       ELSE Goto(p, "exit") /\ UNCHANGED cfn
    /\ UNCHANGED <<tree, info, cur, create, ims, served, kept>>

\* locked(): no lock; or one that is in force, or too old.
locked(p) ==
    /\ pc[p] = "locked"
    /\ \E next \in IF IsReg(LockName(cfn[p])) THEN {"exit", "break"} ELSE {"stat"} :
          Goto(p, next)
    /\ UNCHANGED <<tree, info, url, place, ims, served, history>>

locked_break(p) ==
    /\ pc[p] = "break"
    /\ Unlink(LockName(cfn[p]))
    /\ Goto(p, "stat")
    /\ UNCHANGED <<info, url, place, ims, served, history>>

\* The loop over stat(): a copy; a directory, in place of which its index is
\* looked for (replace_with_indexname); or nothing.
lookup_stat(p) ==
    /\ pc[p] = "stat"
    /\ \/ /\ IsReg(cfn[p])
          /\ Goto(p, "verdict")
          /\ UNCHANGED place
       \/ /\ IsDir(cfn[p])
          /\ cfn' = [cfn EXCEPT ![p] = Append(@, INDEX_FILE)]
          /\ UNCHANGED <<pc, cur, create>>
       \/ /\ Stat(cfn[p]) = Absent
          /\ Goto(p, "place")
          /\ cur' = [cur EXCEPT ![p] = 1]
          /\ create' = [create EXCEPT ![p] = FALSE]
          /\ UNCHANGED cfn
    /\ UNCHANGED <<tree, info, url, ims, served, history>>

\* The copy is served if its entry calls it fresh, or else refreshed.
lookup_info(p) ==
    /\ pc[p] = "verdict"
    /\ \E next \in {"refresh"} \cup (IF HTCacheInfo_for(cfn[p]) THEN {"open"} ELSE {}) :
          Goto(p, next)
    /\ UNCHANGED <<tree, info, url, place, ims, served, history>>

\* do_lock(): a new lock file; what is written to it is the document of p.
do_lock(p, next) ==
    LET l == LockName(cfn[p]) IN
    IF Stat(l) = Absent /\ IsDir(Front(l))
    THEN tree' = Plus(l, url[p]) /\ Goto(p, next)
    ELSE UNCHANGED tree /\ Goto(p, "exit")

lookup_refresh(p) ==
    /\ pc[p] = "refresh"
    /\ do_lock(p, "backup")
    /\ UNCHANGED <<info, url, place, ims, served, history>>

lookup_backup(p) ==
    /\ pc[p] = "backup"
    /\ Rename(cfn[p], TmpName(cfn[p]))
    /\ ims' = [ims EXCEPT ![p] = TRUE]
    /\ kept' = {u \in kept : cache_file_name(u) # cache_file_name(url[p])}
    /\ Goto(p, "transfer")
    /\ UNCHANGED <<url, place, served, together>>

-----------------------------------------------------------------------------
(* create_cache_place                                                      *)

\* The directory that the loop has come to.
Level(p) == SubSeq(cfn[p], 1, cur[p])
NextLevel(p) == cur' = [cur EXCEPT ![p] = @ + 1] /\ UNCHANGED <<cfn, create>>

\* The loop: the end of the name, a directory that is not there or is known not
\* to be, a copy in its place, or a directory.
place_stat(p) ==
    /\ pc[p] = "place"
    /\ \/ /\ cur[p] = Len(cfn[p])
          /\ Goto(p, "lock")
          /\ UNCHANGED place
       \/ /\ cur[p] < Len(cfn[p])
          /\ create[p] \/ Stat(Level(p)) = Absent
          /\ Goto(p, "mkdir")
          /\ create' = [create EXCEPT ![p] = TRUE]
          /\ UNCHANGED <<cfn, cur>>
       \/ /\ cur[p] < Len(cfn[p]) /\ ~create[p] /\ IsReg(Level(p))
          /\ Goto(p, "aside")
          /\ UNCHANGED place
       \/ /\ cur[p] < Len(cfn[p]) /\ ~create[p] /\ IsDir(Level(p))
          /\ NextLevel(p)
          /\ UNCHANGED pc
    /\ UNCHANGED <<tree, info, url, ims, served, history>>

\* A directory that cannot be made: the document is not cached.
place_mkdir(p) ==
    /\ pc[p] = "mkdir"
    /\ Mkdir(Level(p))
    /\ IF CanMkdir(Level(p))
       THEN Goto(p, "place") /\ NextLevel(p)
       ELSE Goto(p, "exit") /\ UNCHANGED place
    /\ UNCHANGED <<info, url, ims, served, history>>

\* The copy is moved aside, a directory made, and the copy moved into it.
place_aside(p) ==
    /\ pc[p] = "aside"
    /\ Rename(Level(p), TmpName(Level(p)))
    /\ Goto(p, "dir")
    /\ UNCHANGED <<url, place, ims, served, history>>

place_dir(p) ==
    /\ pc[p] = "dir"
    /\ Mkdir(Level(p))
    /\ Goto(p, "index")
    /\ UNCHANGED <<info, url, place, ims, served, history>>

place_index(p) ==
    /\ pc[p] = "index"
    /\ Rename(TmpName(Level(p)), Append(Level(p), INDEX_FILE))
    /\ Goto(p, "entry_index")
    /\ UNCHANGED <<url, place, ims, served, history>>

\* The entry of the copy is entered for its new name as well.
place_entry(p) ==
    /\ pc[p] = "entry_index"
    /\ info' = IF HTCacheInfo_for(Level(p)) THEN Entered(Append(Level(p), INDEX_FILE)) ELSE info
    /\ Goto(p, "place")
    /\ NextLevel(p)
    /\ UNCHANGED <<tree, url, ims, served, history>>

lookup_create(p) ==
    /\ pc[p] = "lock"
    /\ do_lock(p, "transfer")
    /\ UNCHANGED <<info, url, place, ims, served, history>>

-----------------------------------------------------------------------------
(* The end of the transfer.                                                *)

\* cache_free(): a new document, none, or an old one that is still right.
cache_free(p) ==
    /\ pc[p] = "transfer"
    /\ \E next \in {"install", "cancel"} \cup (IF ims[p] THEN {"restore"} ELSE {}) :
          Goto(p, next)
    /\ UNCHANGED <<tree, info, url, place, ims, served, history>>

\* cache_created(): the lock gets the name of the copy, the backup goes, an
\* entry is made.
created_install(p) ==
    /\ pc[p] = "install"
    /\ Rename(LockName(cfn[p]), cfn[p])
    /\ kept' = kept \cup {url[p]}
    /\ Goto(p, IF ims[p] THEN "discard" ELSE "entry")
    /\ UNCHANGED <<url, place, ims, served, together>>

created_discard(p) ==
    /\ pc[p] = "discard"
    /\ Unlink(TmpName(cfn[p]))
    /\ Goto(p, "entry")
    /\ UNCHANGED <<info, url, place, ims, served, history>>

created_entry(p) ==
    /\ pc[p] = "entry"
    /\ info' = Entered(cfn[p])
    /\ Goto(p, "exit")
    /\ UNCHANGED <<tree, url, place, ims, served, history>>

\* cache_not_modified(): the backup gets its name again, the lock goes, an entry
\* is made; then the copy is sent.
not_modified_restore(p) ==
    /\ pc[p] = "restore"
    /\ Rename(TmpName(cfn[p]), cfn[p])
    /\ kept' = kept \cup {url[p]}
    /\ Goto(p, "unlock")
    /\ UNCHANGED <<url, place, ims, served, together>>

not_modified_unlock(p) ==
    /\ pc[p] = "unlock"
    /\ Unlink(LockName(cfn[p]))
    /\ Goto(p, "entry304")
    /\ UNCHANGED <<info, url, place, ims, served, history>>

not_modified_entry(p) ==
    /\ pc[p] = "entry304"
    /\ info' = Entered(cfn[p])
    /\ Goto(p, "open")
    /\ UNCHANGED <<tree, url, place, ims, served, history>>

\* cache_cancel(): the lock is unlinked by the name that the URL makes, not by
\* that of an index.
cache_cancel(p) ==
    /\ pc[p] = "cancel"
    /\ Unlink(LockName(cache_file_name(url[p])))
    /\ Goto(p, "exit")
    /\ UNCHANGED <<info, url, place, ims, served, history>>

\* fopen(), which opens a directory too, and the copy is sent.
OpenCached(p) ==
    /\ pc[p] = "open"
    /\ served' = [served EXCEPT ![p] = Stat(cfn[p])]
    /\ Goto(p, "exit")
    /\ UNCHANGED <<tree, info, url, place, ims, history>>

-----------------------------------------------------------------------------

TreeInit ==
    /\ tree \in OldTree
    /\ info = {n \in DOMAIN tree : tree[n] # "dir"}
    /\ pc = [p \in Child |-> "free"]
    /\ url \in [Child -> {Absent}]
    /\ cfn = [p \in Child |-> <<>>] /\ cur = [p \in Child |-> 1]
    /\ create = [p \in Child |-> FALSE] /\ ims = [p \in Child |-> FALSE]
    /\ served = [p \in Child |-> Absent]
    /\ together = FALSE
    /\ kept = {tree[n] : n \in {m \in DOMAIN tree : Last(m).suffix = ""}} \ {"dir"}

ChildNext(p) ==
    \/ \E u \in Url : Lookup(p, u)
    \/ locked(p) \/ locked_break(p) \/ lookup_stat(p) \/ lookup_info(p)
    \/ lookup_refresh(p) \/ lookup_backup(p) \/ lookup_create(p)
    \/ place_stat(p) \/ place_mkdir(p)
    \/ place_aside(p) \/ place_dir(p) \/ place_index(p) \/ place_entry(p)
    \/ cache_free(p)
    \/ created_install(p) \/ created_discard(p) \/ created_entry(p)
    \/ not_modified_restore(p) \/ not_modified_unlock(p) \/ not_modified_entry(p)
    \/ cache_cancel(p) \/ OpenCached(p)

TreeNext == \E p \in Child : ChildNext(p)

TreeSpec == TreeInit /\ [][TreeNext]_treeVars

-----------------------------------------------------------------------------
(* Properties                                                              *)

SameDocument(u, v) ==
    /\ Access[u] = Access[v] /\ LowerCase[HostName[u]] = LowerCase[HostName[v]]
    /\ Path[u] = Path[v] /\ (u \in Slash <=> v \in Slash)

\* Whatever children do to the tree beside each other, what one of them sends
\* from the cache is the document it was asked for (or a directory, as which the
\* copy may be found when it is opened, and which has nothing to send).
OwnDocument ==
    \A p \in Child : served[p] \in {Absent, "dir"} \/ SameDocument(served[p], url[p])

\* HTCache.c, create_cache_place: "after that caller can rely on fopen(cfn,"w")
\* succeeding".  It can, as long as the children work one after the other.
PlaceReady == \A p \in Child : pc[p] = "lock" /\ ~together => IsDir(Front(cfn[p]))

\* Where a lookup of the URL comes to: a copy, or the index of a directory.
Found(u) ==
    LET n == cache_file_name(u)
        Holds(m) == IsReg(m) /\ SameDocument(Stat(m), u)
    IN  Holds(n) \/ (IsDir(n) /\ Holds(Append(n, INDEX_FILE)))

\* As long as the children work one after the other, a document that was put
\* into the cache is found there by the next lookup, though its copy may have
\* been moved since.
StaysFound == together \/ (\E p \in Child : Working(p)) \/ \A u \in kept : Found(u)

CopiesFound == OwnDocument /\ PlaceReady /\ StaysFound

=============================================================================
