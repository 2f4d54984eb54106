---------------------------- MODULE MCProxyCache ----------------------------
(* Instances of ProxyCache for TLC.                                        *)
EXTENDS ProxyCache, FiniteSets, TLC

\* Children are interchangeable: each serves one request.
ChildSymmetry == Permutations(Child)

AnyConfig == [expCheck : BOOLEAN, noConnect : BOOLEAN]

\* Expiry checks off: copies are only created, never refreshed.
CreateConfig == {[expCheck |-> FALSE, noConnect |-> FALSE]}

\* The configuration of an ordinary caching proxy.
UsualConfig == {[expCheck |-> TRUE, noConnect |-> FALSE]}

\* States that differ only in a variable no later step and no property reads
\* are the same state: what a child remembers of its request is forgotten as
\* soon as its code cannot look at it again.
LookingUp(p) == pc[p] \in {"request", "locked", "break", "stat", "info"}

ChildView(p) ==
    <<pc[p], url[p], armed[p], ino[p],
      IF LookingUp(p) THEN <<pragma[p], cur[p]>> ELSE <<>>,
      IF Live(p) /\ armed[p] THEN start[p] ELSE 0,
      IF pc[p] \in Holding \cup {"refresh"} THEN ims[p] ELSE FALSE,
      IF pc[p] = "break" THEN seen[p] ELSE None,
      IF lock[url[p]] = p THEN mtime[p] ELSE 0>>

View == <<now, conf, files, robbed, [p \in Child |-> ChildView(p)]>>

\* The bound on the children at work: one under any configuration, two under the
\* usual one without Pragma: no-cache.  The children are interchangeable, so the
\* first in the order is accepted first, and at time 0; the other at the same time,
\* or when the lock of the first may be too old.
AtWork == {p \in Child : pc[p] # "free"}
First == CHOOSE p \in Child : TRUE
PlainTogether ==
    /\ now > 0 => AtWork # {}
    /\ AtWork # {} => First \in AtWork
    /\ \A p \in AtWork : cur[p] # 1
    /\ \/ Cardinality(AtWork) <= 1
       \/ conf \in UsualConfig /\ \A p \in AtWork : ~pragma[p]

=============================================================================
