------------------------------ MODULE MCCacheGC ------------------------------
(* Instances of CacheGC, CacheTree and Daemon for TLC: http with a         *)
(* subdirectory, and ftp, for the walk of a collection; one host with      *)
(* documents that are in each other's way for the tree that children make; *)
(* and the parent process, which forks children and collections.           *)
EXTENDS CacheGC, CacheTree, Daemon, TLC

ParentOf == "http" :> None @@ "sub" :> "http" @@ "ftp" :> None
PlaceOf == 1 :> "http" @@ 2 :> "sub" @@ 3 :> "sub" @@ 4 :> "ftp"

A(b, e, u, v) == [bytes |-> b, expired |-> e, unused |-> u, value |-> v]

\* A table a tenth as long as that of the code: values on both sides of the
\* change from thousandths to hundredths, and at the ends; expired and unused
\* files.
AttributesOf ==
    {A(1, FALSE, FALSE, 0), A(3, FALSE, FALSE, 9), A(2, FALSE, FALSE, 10),
     A(4, FALSE, FALSE, 15), A(5, FALSE, FALSE, 109),
     A(3, TRUE, FALSE, 5), A(2, FALSE, TRUE, 7)}

-----------------------------------------------------------------------------
\* A document and one below it; the same name with a slash, and of a host in
\* capitals; the host itself; a name of the cache's own; one with a search,
\* and of a protocol without a cache.
Urls == {"a", "a/b", "a/", "A:a", "host", "a.cache_tmp", "a?", "wais:a"}
UrlPath == [u \in Urls |->
    CASE u = "a/b" -> <<Part("a", ""), Part("b", "")>>
      [] u = "host" -> <<>>
      [] u = "a.cache_tmp" -> <<Part("a", ".cache_tmp")>>
      [] OTHER -> <<Part("a", "")>>]
UrlAccess == [u \in Urls |->
    IF u = "wais:a" THEN "wais" ELSE "http"]
UrlHost == [u \in Urls |-> IF u = "A:a" THEN "H" ELSE "h"]
InLowerCase == [h \in {"h", "H"} |-> "h"]

\* An empty cache; one that has the document; and one that a child left that was
\* killed when it had a lock and a backup of it.
HostDir == <<Part("http", ""), Part("h", "")>>
HostTree == <<Part("http", "")>> :> "dir" @@ HostDir :> "dir"
ACopy == Append(HostDir, Part("a", ""))
OldTrees ==
    {<<>>, HostTree @@ ACopy :> "a",
     HostTree @@ LockName(ACopy) :> "a" @@ TmpName(ACopy) :> "a"}

\* Two children beside each other, and one that comes when they are done.
TwoAndOne ==
    /\ pc[2] # "free" => pc[1] # "free"
    /\ pc[3] # "free" => ~Working(1) /\ ~Working(2)

-----------------------------------------------------------------------------
VARIABLE subject

cacheVars == <<subject, vars, treeVars, daemonVars>>
ATree == CHOOSE t \in OldTree : TRUE

\* Of a child that has exited nothing counts but what it has sent.
Placing == {"place", "mkdir", "aside", "dir", "index", "entry_index"}
Sent(p) == served[p] = "dir" \/ SameDocument(served[p], url[p])
ChildView(p) ==
    IF pc[p] = "exit" THEN <<served[p] # Absent, served[p] # Absent /\ Sent(p)>>
    ELSE <<pc[p], url[p], cfn[p], IF pc[p] \in Placing THEN <<cur[p], create[p]>> ELSE <<>>, ims[p]>>
CacheView ==
    <<subject, vars, tree, info, history, [p \in Child |-> ChildView(p)], daemonVars>>

\* Of two files in the same directory, it does not matter which is which.
Ordered == attributes[2].value <= attributes[3].value

\* Those that are not the subject stay as one of their initial states.
CacheInit ==
    /\ subject \in {"walk", "tree", "parent"}
    /\ Init /\ Ordered /\ TreeInit /\ DaemonInit
    /\ subject # "tree" => tree = ATree
    /\ subject # "walk" => /\ keep_expired /\ infos = File
                           /\ usage = CHOOSE n \in Usage : TRUE
                           /\ \A f, g \in File : attributes[f] = attributes[g]
                           /\ attributes[1] = A(1, FALSE, FALSE, 0)
    /\ subject # "parent" => HTCacheUsage = 0

CacheNext ==
    /\ UNCHANGED subject
    /\ \/ subject = "walk" /\ Next /\ UNCHANGED <<treeVars, daemonVars>>
       \/ subject = "tree" /\ TreeNext /\ UNCHANGED <<vars, daemonVars>>
       \/ subject = "parent" /\ DaemonNext /\ UNCHANGED <<vars, treeVars>>

\* The fairness of DaemonFairSpec.
OfParent(action) == subject = "parent" /\ action

CacheSpec ==
    /\ CacheInit /\ [][CacheNext]_cacheVars
    /\ WF_daemonVars(OfParent(Loop)) /\ WF_daemonVars(OfParent(SigChild("handler")))
    /\ WF_daemonVars(OfParent(DeliverSigcld))

=============================================================================
