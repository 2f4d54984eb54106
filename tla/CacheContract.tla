--------------------------- MODULE CacheContract ----------------------------
(***************************************************************************)
(* What the cache promises the requests, without its files and clocks.     *)
(* Each document has copies, one to be served and one that is kept beside  *)
(* a refresh, and a lock, which one child holds at a time.  The holder     *)
(* writes a document apart from the copies, finishes it, and publishes it; *)
(* nothing else adds to the copies, though any may be forgotten.  Only     *)
(* when a child has failed at a document may the locks of that document be *)
(* stolen, and what a robbed child was writing be published unfinished.    *)
(* Module ProxyCache is shown to keep this, with a collector too.          *)
(***************************************************************************)

CONSTANTS
    Child,     \* the processes that serve one request each
    Name,      \* the documents
    Orig,      \* the copy that was there before
    None       \* no child

VARIABLES
    copies,    \* copies[n]: the writers of the copies of n, or Orig
    holder,    \* holder[n]: who has the lock of n
    finished,  \* the children whose document is complete and at rest
    failed,    \* failed[n]: the children that have failed at n
    robbed     \* robbed[n]: those whose lock another took

contractVars == <<copies, holder, finished, failed, robbed>>

ContractInit ==
    /\ copies \in [Name -> SUBSET {Orig}]
    /\ holder = [n \in Name |-> None]
    /\ finished = {}
    /\ failed = [n \in Name |-> {}]
    /\ robbed = [n \in Name |-> {}]

\* The copies of n come to be some of these.
Become(n, these) == \E kept \in SUBSET these : copies' = [copies EXCEPT ![n] = kept]

Unlock(n) == holder' = [holder EXCEPT ![n] = None]

Begin(p, n) ==
    /\ holder[n] = None /\ p \notin finished \cup robbed[n] \cup copies[n]
    /\ holder' = [holder EXCEPT ![n] = p]
    /\ UNCHANGED <<copies, finished, failed, robbed>>

Finish(p, n) ==
    /\ holder[n] = p \/ p \in robbed[n]
    /\ p \notin finished
    /\ finished' = finished \cup {p}
    /\ UNCHANGED <<copies, holder, failed, robbed>>

Publish(n) ==
    /\ holder[n] \in finished
    /\ Become(n, copies[n] \cup {holder[n]})
    /\ Unlock(n)
    /\ UNCHANGED <<finished, failed, robbed>>

GiveUp(n) ==
    /\ holder[n] # None
    /\ Unlock(n)
    /\ UNCHANGED <<copies, finished, failed, robbed>>

Forget(n) ==
    /\ Become(n, copies[n])
    /\ UNCHANGED <<holder, finished, failed, robbed>>

Fail(p, n) ==
    /\ failed' = [failed EXCEPT ![n] = @ \cup {p}]
    /\ UNCHANGED <<copies, holder, finished, robbed>>

Steal(n) ==
    /\ holder[n] # None /\ failed[n] # {}
    /\ robbed' = [robbed EXCEPT ![n] = @ \cup {holder[n]}]
    /\ Become(n, copies[n] \cup {holder[n]})
    /\ Unlock(n)
    /\ UNCHANGED <<finished, failed>>

ContractNext ==
    \E n \in Name :
        \/ Publish(n) \/ GiveUp(n) \/ Forget(n) \/ Steal(n)
        \/ \E p \in Child : Begin(p, n) \/ Finish(p, n) \/ Fail(p, n)

ContractSpec == ContractInit /\ [][ContractNext]_contractVars

\* What a request relies on follows: a copy is finished, unless its writer was
\* robbed, which needs a failure at the same document.
Whole ==
    \A n \in Name :
        /\ copies[n] \subseteq {Orig} \cup finished \cup robbed[n]
        /\ robbed[n] # {} => failed[n] # {}

=============================================================================
