---------------------------- MODULE LoadsProofs ------------------------------
(***************************************************************************)
(* Proofs about Loads, for any addresses, servers, proxies and gateways    *)
(* and any number of retries and redirections: the sockets of a load are   *)
(* closed at its end, the FTP client stays in step with its server, and    *)
(* the client of a proxy gets the document or a message.                   *)
(*                                                                         *)
(* The first part is about HostCache, for any hosts, numbers of addresses, *)
(* times and bound of the cache: the cache keeps to its bound, only a      *)
(* host's own addresses are tried for it, and HTDoConnect with all its     *)
(* rounds is one step of the contract that the rest relies on.             *)
(*                                                                         *)
(* The second part has an invariant of one load (Sound), and a lemma for   *)
(* each operator of the models that all handlers are made of; then one for *)
(* each handler, in the order of the protocol modules.                     *)
(***************************************************************************)
EXTENDS Loads, SequenceTheorems, WellFoundedInduction, TLAPS

-----------------------------------------------------------------------------
(* HTTCP.c: the hosts that were looked up                                  *)

\* An element of the cache: a weight for each address of the host, and .offset is
\* the number of one of them.
Element ==
    {e \in [hostname : Host, hits : Nat, offset : Nat, weight : Seq(Nat)] :
        Len(e.weight) = Homes[e.hostname] /\ e.offset \in 1 .. Homes[e.hostname]}

\* No host is there twice.
Unique(cache) ==
    \A i, j \in DOMAIN cache : cache[i].hostname = cache[j].hostname => i = j

\* The same hosts in the same places.
SameHosts(c, d) ==
    Len(d) = Len(c) /\ \A i \in DOMAIN c : d[i].hostname = c[i].hostname

-----------------------------------------------------------------------------
(* Numbers and sequences                                                   *)

\* A set of numbers has a least one.
LEMMA LeastNatural ==
    ASSUME NEW T, T \subseteq Nat, T # {}
    PROVE  \E m \in T : \A k \in T : m <= k
<1>1. \E m \in T : \A k \in T : ~ (<<k, m>> \in OpToRel(<, Nat))
  BY WFMin, NatLessThanWellFounded
<1>2. OpToRel(<, Nat) = {p \in Nat \X Nat : p[1] < p[2]}
  BY Zenon DEF OpToRel
<1>3. \A k, m \in Nat : k < m => <<k, m>> \in {p \in Nat \X Nat : p[1] < p[2]}
  OBVIOUS
<1>4. PICK m \in T : \A k \in T : ~ (<<k, m>> \in OpToRel(<, Nat))
  BY <1>1
<1>5. \A k \in T : ~ (k < m)
  BY <1>2, <1>3, <1>4, Zenon
<1> QED
  BY <1>5

\* The lowest weight is that of an address.
LEMMA LowestIsAddress ==
    ASSUME NEW weight \in Seq(Nat), weight # <<>>
    PROVE  Lowest(weight) \in DOMAIN weight
<1> DEFINE T == {weight[a] : a \in DOMAIN weight}
<1>1. T \subseteq Nat /\ T # {}
  <2>1. DOMAIN weight = 1 .. Len(weight) /\ Len(weight) \in Nat \ {0}
    BY LenProperties, EmptySeq
  <2> QED
    BY <2>1
<1>2. PICK m \in T : \A k \in T : m <= k
  BY <1>1, LeastNatural
<1> DEFINE A == {a \in DOMAIN weight : weight[a] = m}
<1>3. A \subseteq Nat /\ A # {}
  BY <1>2
<1>4. PICK a \in A : \A b \in A : a <= b
  BY <1>3, LeastNatural
<1>5. \A b \in DOMAIN weight : weight[a] < weight[b] \/ (weight[a] = weight[b] /\ a <= b)
  <2> SUFFICES ASSUME NEW b \in DOMAIN weight
               PROVE  weight[a] < weight[b] \/ (weight[a] = weight[b] /\ a <= b)
    OBVIOUS
  <2>1. weight[a] = m /\ m <= weight[b] /\ m \in Nat /\ weight[b] \in Nat
    BY <1>1, <1>2, <1>4
  <2>2. CASE weight[b] = m
    BY <1>4, <2>1, <2>2
  <2>3. CASE weight[b] # m
    BY <2>1, <2>3
  <2> QED
    BY <2>2, <2>3
<1> QED
  BY <1>4, <1>5 DEF Lowest

\* What RemoveAt leaves of a sequence, and where.
LEMMA RemoveElement ==
    ASSUME NEW S, NEW s \in Seq(S), NEW i \in DOMAIN s
    PROVE  /\ RemoveAt(s, i) \in Seq(S)
           /\ Len(RemoveAt(s, i)) = Len(s) - 1
           /\ \A j \in DOMAIN RemoveAt(s, i) :
                RemoveAt(s, i)[j] = IF j < i THEN s[j] ELSE s[j + 1]
<1>1. i \in 1 .. Len(s) /\ Len(s) \in Nat
  OBVIOUS
<1> DEFINE a == SubSeq(s, 1, i - 1)
           b == SubSeq(s, i + 1, Len(s))
<1>2. a \in Seq(S) /\ Len(a) = i - 1 /\ \A j \in 1 .. i - 1 : a[j] = s[j]
  BY <1>1, SubSeqProperties
<1>3. b \in Seq(S) /\ Len(b) = Len(s) - i /\ \A j \in 1 .. Len(s) - i : b[j] = s[i + j]
  BY <1>1, SubSeqProperties
<1> HIDE DEF a, b
<1>4. /\ a \o b \in Seq(S) /\ Len(a \o b) = Len(s) - 1
      /\ \A j \in 1 .. Len(s) - 1 : (a \o b)[j] = IF j < i THEN s[j] ELSE s[j + 1]
  BY <1>1, <1>2, <1>3, ConcatProperties
<1>5. RemoveAt(s, i) = a \o b
  BY DEF RemoveAt, a, b
<1>6. DOMAIN RemoveAt(s, i) = 1 .. Len(s) - 1
  BY <1>4, <1>5
<1> QED
  BY <1>4, <1>5, <1>6

-----------------------------------------------------------------------------
(* The operations on the cache keep its elements and hosts as they must be *)

\* An element has as many weights afterwards as before.
LEMMA ReweighedType ==
    ASSUME NEW e \in Element, NEW t \in Nat
    PROVE Reweighed(e, t) \in Seq(Nat) /\ Len(Reweighed(e, t)) = Len(e.weight)
<1> DEFINE n == Len(e.weight)
           W(a) == IF a = e.offset THEN (e.weight[a] * 7165 + 28350 * t) \div 10000
                   ELSE (e.weight[a] * 9) \div 10
<1>1. n \in Nat /\ DOMAIN e.weight = 1 .. n /\ \A a \in 1 .. n : e.weight[a] \in Nat
  BY DEF Element
<1>2. \A a \in 1 .. n : W(a) \in Nat
  BY <1>1
<1> HIDE DEF W, n
<1>3. [a \in 1 .. n |-> W(a)] \in Seq(Nat) /\ Len([a \in 1 .. n |-> W(a)]) = n
  BY <1>1, <1>2
<1>4. Reweighed(e, t) = [a \in 1 .. n |-> W(a)]
  <2>1. DOMAIN e.weight = 1 .. n
    BY <1>1
  <2> QED
    BY <2>1 DEF Reweighed, W
<1>5. n = Len(e.weight)
  BY DEF n
<1> QED
  BY <1>3, <1>4, <1>5
\* New weights leave the hosts where they are.
LEMMA WeightsKeep ==
    ASSUME NEW c \in Seq(Element), NEW host, NEW deltatime \in Nat
    PROVE  LET w == HTTCPAddrWeights(c, host, deltatime)
           IN  w \in Seq(Element) /\ SameHosts(c, w)
<1>1. ASSUME NEW i \in DOMAIN c PROVE 
     c[i] \in Element /\ [c[i] EXCEPT !.weight = Reweighed(c[i], deltatime)] \in Element
    <2>1. c[i] \in Element
      OBVIOUS
    <2> DEFINE w == Reweighed(c[i], deltatime)
    <2>2. w \in Seq(Nat) /\ Len(w) = Len(c[i].weight)
      BY <2>1, ReweighedType
    <2> HIDE DEF w
    <2>3. [c[i] EXCEPT !.weight = w] \in Element
      BY <2>1, <2>2 DEF Element
    <2> QED 
      BY <2>1, <2>3 DEF w
<1>2. HTTCPAddrWeights(c, host, deltatime) \in Seq(Element)
  BY <1>1 DEF HTTCPAddrWeights
<1>3. ASSUME NEW i \in DOMAIN c
      PROVE  HTTCPAddrWeights(c, host, deltatime)[i].hostname = c[i].hostname
  BY <1>1 DEF HTTCPAddrWeights, Element
<1>4. DOMAIN HTTCPAddrWeights(c, host, deltatime) = DOMAIN c
  BY DEF HTTCPAddrWeights
<1> QED
  BY <1>2, <1>3, <1>4 DEF SameHosts

\* With the same hosts in the same places, none is there twice, and all are found
\* as before.
LEMMA SameHostsKeep ==
    ASSUME NEW c \in Seq(Element), NEW d \in Seq(Element), SameHosts(c, d), Unique(c)
    PROVE  Unique(d) /\ \A host : Found(d, host) = Found(c, host)
<1>1. DOMAIN d = DOMAIN c
  BY DEF SameHosts
<1> QED
  BY <1>1 DEF SameHosts, Unique, Found

\* An element that is found: one hit more, another address.
LEMMA HitElement ==
    ASSUME NEW e \in Element, NEW a \in 1 .. Homes[e.hostname]
    PROVE  /\ [e EXCEPT !.hits = @ + 1, !.offset = a] \in Element
           /\ [e EXCEPT !.hits = @ + 1, !.offset = a].hostname = e.hostname
<1>1. Homes[e.hostname] \in Nat
  BY HostsAssumption DEF Element
<1>2. e.hits + 1 \in Nat
  BY DEF Element
<1>3. a \in Nat
  BY <1>1
<1> QED
  BY <1>1, <1>2, <1>3 DEF Element

\* A host that is found stays where it is, with all the others.
LEMMA HitKeeps ==
    ASSUME NEW c \in Seq(Element), NEW host \in Host, Homes[host] > 0
    PROVE  LET d == [i \in DOMAIN c |->
                       IF c[i].hostname # host THEN c[i]
                       ELSE [c[i] EXCEPT !.hits = @ + 1, !.offset = Lowest(c[i].weight)]]
           IN  d \in Seq(Element) /\ SameHosts(c, d)
<1> DEFINE hit(i) == [c[i] EXCEPT !.hits = @ + 1, !.offset = Lowest(c[i].weight)]
           d == [i \in DOMAIN c |-> IF c[i].hostname # host THEN c[i] ELSE hit(i)]
<1>1. ASSUME NEW i \in DOMAIN c, c[i].hostname = host
      PROVE  hit(i) \in Element /\ hit(i).hostname = host
  <2> HIDE DEF hit, d
  <2>1. c[i] \in Element
    OBVIOUS
  <2>2. c[i].weight \in Seq(Nat) /\ Len(c[i].weight) = Homes[host] /\ Homes[host] \in Nat
    BY <1>1, <2>1, HostsAssumption DEF Element
  <2>3. c[i].weight # <<>> /\ DOMAIN c[i].weight = 1 .. Homes[host]
    BY <2>2
  <2>4. Lowest(c[i].weight) \in 1 .. Homes[host]
    BY <2>2, <2>3, LowestIsAddress
  <2> DEFINE a == Lowest(c[i].weight)
  <2> HIDE DEF a
  <2>5. a \in 1 .. Homes[host] /\ Homes[host] \in Nat
    BY <2>2, <2>4 DEF a
  <2>6. [c[i] EXCEPT !.hits = @ + 1, !.offset = a] \in Element
    BY <1>1, <2>1, <2>5, HitElement DEF Element
  <2>7. [c[i] EXCEPT !.hits = @ + 1, !.offset = a].hostname = host
    BY <1>1, <2>1, <2>5, HitElement DEF Element
  <2> QED
    BY <2>6, <2>7 DEF a, hit
<1> HIDE DEF hit
<1>2. \A i \in DOMAIN c : c[i] \in Element
  OBVIOUS
<1>3. d \in Seq(Element) /\ DOMAIN d = DOMAIN c /\ Len(d) = Len(c)
  BY <1>1, <1>2
<1>4. \A i \in DOMAIN c : d[i].hostname = c[i].hostname
  BY <1>1
<1> QED
  BY <1>3, <1>4 DEF SameHosts, hit

\* A removal takes one element and adds no host.
LEMMA RemovalKeeps ==
    ASSUME NEW c \in Seq(Element), Unique(c), NEW i \in DOMAIN c
    PROVE  LET d == HTTCPCacheRemoveElement(c, i)
           IN  /\ d \in Seq(Element)
               /\ Unique(d)
               /\ Len(d) = Len(c) - 1
               /\ \A host : Found(c, host) = {} => Found(d, host) = {}
<1> DEFINE d == HTTCPCacheRemoveElement(c, i)
           old(j) == IF j < i THEN j ELSE j + 1
<1>1. d \in Seq(Element) /\ Len(d) = Len(c) - 1
  BY RemoveElement DEF HTTCPCacheRemoveElement
<1>2. \A j \in DOMAIN d : d[j] = c[old(j)]
  BY RemoveElement DEF HTTCPCacheRemoveElement
<1>3. \A j \in DOMAIN d : old(j) \in DOMAIN c
  BY <1>1
<1>4. \A j, k \in DOMAIN d : old(j) = old(k) => j = k
  BY <1>1
<1> HIDE DEF d, old
<1>5. Unique(d)
  BY <1>2, <1>3, <1>4 DEF Unique
<1>6. \A host : Found(c, host) = {} => Found(d, host) = {}
  BY <1>2, <1>3 DEF Found
<1> QED
  BY <1>1, <1>5, <1>6 DEF d

\* There is an element with the fewest hits, the last of those: garbage collection
\* removes one element of a cache that is not empty.
LEMMA GarbageRemoves ==
    ASSUME NEW c \in Seq(Element), c # <<>>
    PROVE  \E i \in DOMAIN c : HTTCPCacheGarbage(c) = HTTCPCacheRemoveElement(c, i)
<1>1. DOMAIN c = 1 .. Len(c) /\ Len(c) \in Nat \ {0} /\ \A i \in DOMAIN c : c[i].hits \in Nat
  BY LenProperties, EmptySeq DEF Element
<1> DEFINE H == {c[i].hits : i \in DOMAIN c}
<1>2. H \subseteq Nat /\ H # {}
  BY <1>1
<1>3. PICK m \in H : \A k \in H : m <= k
  BY <1>2, LeastNatural
<1> DEFINE A == {Len(c) - i : i \in {j \in DOMAIN c : c[j].hits = m}}
<1>4. A \subseteq Nat /\ A # {}
  BY <1>1, <1>3
<1>5. PICK a \in A : \A b \in A : a <= b
  BY <1>4, LeastNatural
<1>6. PICK i \in DOMAIN c : c[i].hits = m /\ a = Len(c) - i
  BY <1>5
<1>7. \A j \in DOMAIN c : c[i].hits < c[j].hits \/ (c[i].hits = c[j].hits /\ i >= j)
  <2> SUFFICES ASSUME NEW j \in DOMAIN c
               PROVE  c[i].hits < c[j].hits \/ (c[i].hits = c[j].hits /\ i >= j)
    OBVIOUS
  <2>1. m <= c[j].hits /\ m \in Nat /\ c[j].hits \in Nat
    BY <1>1, <1>2, <1>3
  <2>0. c[i].hits = m /\ i \in Nat /\ j \in Nat
    BY <1>1, <1>6
  <2>2. CASE c[j].hits = m
    <3>1. a <= Len(c) - j
      BY <1>5, <2>2
    <3> QED
      BY <1>1, <1>6, <2>2, <3>1
  <2>3. CASE c[j].hits # m
    <3>1. m < c[j].hits
      BY <2>1, <2>3
    <3> QED
      BY <2>0, <2>1, <3>1
  <2> QED
    BY <2>2, <2>3
<1> QED
  BY <1>7 DEF HTTCPCacheGarbage

\* A host that was not there can be added.
LEMMA AddKeeps ==
    ASSUME NEW c \in Seq(Element), Unique(c), NEW host \in Host, Homes[host] > 0,
           Found(c, host) = {}
    PROVE  LET d == HTTCPCacheAddElement(c, host)
           IN  d \in Seq(Element) /\ Unique(d) /\ Len(d) = Len(c) + 1 /\ Found(d, host) # {}
<1> DEFINE w == [a \in 1 .. Homes[host] |-> 0]
           e == [hostname |-> host, hits |-> 0, offset |-> 1, weight |-> w]
           d == <<e>> \o c
<1>1. Homes[host] \in Nat \ {0}
  BY HostsAssumption
<1>2. w \in Seq(Nat) /\ Len(w) = Homes[host]
  BY <1>1
<1> HIDE DEF w
<1>3. e \in Element /\ e.hostname = host
  BY <1>1, <1>2 DEF Element
<1> HIDE DEF e
<1>4. <<e>> \in Seq(Element) /\ Len(<<e>>) = 1 /\ <<e>>[1] = e
  BY <1>3
<1>5. /\ d \in Seq(Element) /\ Len(d) = Len(c) + 1
      /\ \A i \in 1 .. Len(c) + 1 : d[i] = IF i <= 1 THEN e ELSE c[i - 1]
  BY <1>4, ConcatProperties
<1> HIDE DEF d
<1>6. DOMAIN d = 1 .. Len(c) + 1 /\ DOMAIN c = 1 .. Len(c) /\ Len(c) \in Nat
  BY <1>5
<1>7. \A i \in DOMAIN c : c[i].hostname # host
  BY DEF Found
<1>8. Unique(d)
  <2> SUFFICES ASSUME NEW i \in DOMAIN d, NEW j \in DOMAIN d, d[i].hostname = d[j].hostname,
                      i # 1 \/ j # 1
               PROVE  i = j
    BY DEF Unique
  <2>1. i # 1 => i - 1 \in DOMAIN c /\ d[i] = c[i - 1]
    BY <1>5, <1>6
  <2>2. j # 1 => j - 1 \in DOMAIN c /\ d[j] = c[j - 1]
    BY <1>5, <1>6
  <2>3. d[1] = e
    BY <1>5, <1>6
  <2>4. i # 1 /\ j # 1
    BY <1>3, <1>7, <2>1, <2>2, <2>3
  <2>5. i - 1 = j - 1
    BY <2>1, <2>2, <2>4 DEF Unique
  <2> QED
    BY <1>6, <2>5
<1>9. Found(d, host) # {}
  <2>1. 1 \in DOMAIN d /\ d[1].hostname = host
    BY <1>3, <1>5, <1>6
  <2> QED
    BY <2>1 DEF Found
<1> QED
  BY <1>5, <1>8, <1>9 DEF d, e, w, HTTCPCacheAddElement

\* After a lookup the host is there, once, and the cache within its bound: where
\* HTCacheSize, which is never less than the length, does not reach the bound there
\* is room, and elsewhere an element goes first.
LEMMA LookupKeeps ==
    ASSUME NEW c \in Seq(Element), Unique(c), NEW size \in Nat, NEW host \in Host,
           Homes[host] > 0, Len(c) <= size, Len(c) <= HTConCacheSize
    PROVE  LET d == HTGetHostByName(c, size, host)
           IN  /\ d \in Seq(Element) /\ Unique(d) /\ Found(d, host) # {}
               /\ Len(d) <= HTConCacheSize
               /\ Len(d) <= IF Found(c, host) # {} THEN size ELSE size + 1
<1> DEFINE d == HTGetHostByName(c, size, host)
<1>0. Len(c) \in Nat /\ HTConCacheSize \in Nat \ {0}
  BY HostsAssumption
<1>1. CASE Found(c, host) # {}
  <2> DEFINE h == [i \in DOMAIN c |->
                     IF c[i].hostname # host THEN c[i]
                     ELSE [c[i] EXCEPT !.hits = @ + 1, !.offset = Lowest(c[i].weight)]]
  <2>1. d = h
    BY <1>1 DEF HTGetHostByName
  <2>2. h \in Seq(Element) /\ SameHosts(c, h)
    BY HitKeeps
  <2> HIDE DEF d, h
  <2>3. Unique(h) /\ Found(h, host) = Found(c, host) /\ Len(h) = Len(c)
    BY <2>2, SameHostsKeep DEF SameHosts
  <2> QED
    BY <1>0, <1>1, <2>1, <2>2, <2>3 DEF d
<1>2. CASE Found(c, host) = {}
  <2> DEFINE g == IF size >= HTConCacheSize THEN HTTCPCacheGarbage(c) ELSE c
  <2>1. d = HTTCPCacheAddElement(g, host)
    BY <1>2 DEF HTGetHostByName
  <2>2. /\ g \in Seq(Element) /\ Unique(g) /\ Found(g, host) = {}
        /\ Len(g) <= Len(c) /\ Len(g) < HTConCacheSize
    <3>1. CASE size < HTConCacheSize
      BY <1>0, <1>2, <3>1
    <3>2. CASE size >= HTConCacheSize /\ c = <<>>
      BY <1>0, <1>2, <3>2 DEF HTTCPCacheGarbage
    <3>3. CASE size >= HTConCacheSize /\ c # <<>>
      <4>1. PICK i \in DOMAIN c : HTTCPCacheGarbage(c) = HTTCPCacheRemoveElement(c, i)
        BY <3>3, GarbageRemoves
      <4> QED
        BY <1>0, <1>2, <3>3, <4>1, RemovalKeeps
    <3> QED
      BY <1>0, <3>1, <3>2, <3>3
  <2> HIDE DEF d, g
  <2>3. /\ d \in Seq(Element) /\ Unique(d) /\ Len(d) = Len(g) + 1 /\ Found(d, host) # {}
    BY <2>1, <2>2, AddKeeps
  <2>4. Len(g) \in Nat
    BY <2>2
  <2> QED
    BY <1>0, <1>2, <2>2, <2>3, <2>4 DEF d
<1> QED
  BY <1>1, <1>2

-----------------------------------------------------------------------------
(* The invariant                                                           *)

NetType ==
    net \in [pc : {"idle", "asked", "ok", "failed"}, host : Host, port : BOOLEAN,
             addressCount : Nat, errs : SUBSET Severities, socks : SUBSET {"net"},
             asked : Nat, tried : SUBSET Nat]

\* HTCacheSize counts at least the elements that are there.
CacheCounted ==
    /\ hostcache \in Seq(Element)
    /\ HTCacheSize \in Nat
    /\ Len(hostcache) <= HTCacheSize

\* No connection is open before one was made, and errors of rounds are not fatal.
NetQuiet ==
    /\ net.pc \in {"idle", "asked"} => net.socks = {}
    /\ net.pc = "idle" => net.errs = {}
    /\ net.pc = "asked" => net.errs \subseteq {"NON_FATAL"}

\* What is tried is an address of the host, and no more rounds than it has addresses.
AddressesOfHost ==
    /\ net.tried \subseteq 1 .. Homes[net.host]
    /\ net.addressCount = 0 \/ net.addressCount < Homes[net.host]

\* The inductive invariant: HostCacheBounded needs CacheCounted to be kept.
HInv ==
    /\ NetType
    /\ CacheCounted
    /\ HostCacheBounded
    /\ NetQuiet
    /\ AddressesOfHost

\* At the start nothing is cached and nothing asked for.
LEMMA HostInitInv == HostInit => HInv
<1> SUFFICES ASSUME HostInit PROVE HInv
  OBVIOUS
<1>1. (CHOOSE h \in Host : TRUE) \in Host
  BY HostsAssumption
<1>2. NetType /\ NetQuiet /\ AddressesOfHost
  BY <1>1 DEF HostInit, NewNet, NetType, NetQuiet, AddressesOfHost, Severities
<1>3. CacheCounted /\ HostCacheBounded
  BY HostsAssumption DEF HostInit, CacheCounted, HostCacheBounded
<1> QED
  BY <1>2, <1>3 DEF HInv

\* The lookup of a host that has addresses, with what is done to the cache then.
LEMMA LookupCounted ==
    ASSUME HInv, NEW host \in Host, Homes[host] > 0
    PROVE  LET d == HTGetHostByName(hostcache, HTCacheSize, host)
               size == IF Found(hostcache, host) # {} THEN HTCacheSize ELSE HTCacheSize + 1
           IN  /\ d \in Seq(Element) /\ Unique(d) /\ Found(d, host) # {}
               /\ size \in Nat /\ Len(d) <= size /\ Len(d) <= HTConCacheSize
BY LookupKeeps DEF HInv, CacheCounted, HostCacheBounded, Unique

\* A host without an address, or no socket for one that has some.
LEMMA NoSocketInv == HInv /\ NoSocket => HInv'
<1> SUFFICES ASSUME HInv, NoSocket PROVE HInv'
  OBVIOUS
<1>1. NetType' /\ NetQuiet' /\ AddressesOfHost'
  BY DEF HInv, NetType, NetQuiet, AddressesOfHost, NoSocket, HTErrorAdd, Severities
<1>2. CacheCounted' /\ HostCacheBounded'
  <2>1. CASE UNCHANGED <<hostcache, HTCacheSize>>
    BY <2>1 DEF HInv, CacheCounted, HostCacheBounded
  <2>2. CASE ~UNCHANGED <<hostcache, HTCacheSize>>
    BY <2>2, LookupCounted DEF HInv, NetType, NoSocket, CacheCounted, HostCacheBounded, Unique
  <2> QED
    BY <2>1, <2>2
<1> QED
  BY <1>1, <1>2 DEF HInv

\* One round of HTDoConnect's loop, whichever way it goes.
LEMMA TryInv ==
    ASSUME HInv, NEW succeeds \in BOOLEAN, NEW seconds \in Nat, Try(succeeds, seconds)
    PROVE  HInv'
<1> DEFINE host == net.host
           c == HTGetHostByName(hostcache, HTCacheSize, host)
           size == IF Found(hostcache, host) # {} THEN HTCacheSize ELSE HTCacheSize + 1
           used == c[CHOOSE i \in Found(c, host) : TRUE].offset
           now == [net EXCEPT !.tried = @ \cup {used}]
<1>0. host \in Host /\ Homes[host] > 0 /\ Homes[host] \in Nat /\ net.pc = "asked" /\ NetType
  BY HostsAssumption DEF HInv, NetType, Try
<1>1. /\ c \in Seq(Element) /\ Unique(c) /\ Found(c, host) # {}
      /\ size \in Nat /\ Len(c) <= size /\ Len(c) <= HTConCacheSize
  BY <1>0, LookupCounted
<1>2. used \in 1 .. Homes[host]
  <2>1. PICK i \in DOMAIN c : c[i].hostname = host /\ used = c[i].offset
    BY <1>1 DEF Found
  <2>2. c[i] \in Element
    BY <1>1
  <2> QED
    BY <2>1, <2>2 DEF Element
<1>3. CacheCounted' /\ HostCacheBounded'
  <2>1. HTCacheSize' = size
    BY DEF Try
  <2>2. hostcache' \in Seq(Element) /\ Unique(hostcache') /\ Len(hostcache') <= Len(c)
    <3>1. CASE Homes[host] > 1
      <4>1. hostcache' = HTTCPAddrWeights(c, host, seconds)
        BY <3>1 DEF Try
      <4>2. hostcache' \in Seq(Element) /\ SameHosts(c, hostcache')
        BY <1>1, <4>1, WeightsKeep
      <4> QED
        BY <1>1, <4>2, SameHostsKeep DEF SameHosts
    <3>2. CASE ~(Homes[host] > 1)
      <4>1. hostcache' \in {c, HTTCPCacheRemoveHost(c, host, net.port)}
        BY <3>2 DEF Try
      <4>2. CASE hostcache' = c
        BY <1>1, <4>2
      <4>3. CASE hostcache' # c
        <5>1. PICK i \in DOMAIN c : hostcache' = HTTCPCacheRemoveElement(c, i)
          BY <4>1, <4>3 DEF HTTCPCacheRemoveHost, Found
        <5> QED
          BY <1>1, <5>1, RemovalKeeps
      <4> QED
        BY <4>2, <4>3
    <3> QED
      BY <3>1, <3>2
  <2> HIDE DEF c, size
  <2>3. Len(hostcache') \in Nat /\ Len(c) \in Nat /\ HTConCacheSize \in Nat
    BY <1>1, <2>2, HostsAssumption
  <2> QED
    BY <1>1, <2>1, <2>2, <2>3 DEF CacheCounted, HostCacheBounded, Unique
<1>4. NetType' /\ NetQuiet' /\ AddressesOfHost'
  <2>1. /\ net' = IF succeeds THEN [Opened(now, "net") EXCEPT !.pc = "ok", !.addressCount = 0]
                  ELSE IF Homes[host] = 1 THEN [HTErrorAdd(now, "FATAL") EXCEPT !.pc = "failed"]
                  ELSE IF net.addressCount < Homes[host] - 1
                  THEN [HTErrorAdd(now, "NON_FATAL") EXCEPT !.addressCount = @ + 1]
                  ELSE GivenUp(now)
    BY DEF Try
  <2> HIDE DEF used, c, size
  <2>2. /\ now \in [pc : {"idle", "asked", "ok", "failed"}, host : Host, port : BOOLEAN,
                     addressCount : Nat, errs : SUBSET Severities, socks : SUBSET {"net"},
                     asked : Nat, tried : SUBSET Nat]
        /\ now.pc = "asked" /\ now.host = host /\ now.tried \subseteq 1 .. Homes[host]
        /\ now.errs \subseteq {"NON_FATAL"} /\ now.socks = {}
        /\ now.addressCount = net.addressCount
        /\ now.addressCount = 0 \/ now.addressCount < Homes[host]
    BY <1>0, <1>2 DEF HInv, NetType, NetQuiet, AddressesOfHost
  <2> HIDE DEF now, host
  <2> USE DEF NetType, NetQuiet, AddressesOfHost, Opened, HTErrorAdd, GivenUp, Severities
  <2>3. CASE succeeds
    BY <1>0, <2>1, <2>2, <2>3
  <2>4. CASE ~succeeds /\ Homes[host] = 1
    BY <1>0, <2>1, <2>2, <2>4
  <2>5. CASE ~succeeds /\ Homes[host] # 1 /\ net.addressCount < Homes[host] - 1
    <3>1. net.addressCount + 1 \in Nat /\ net.addressCount + 1 < Homes[host]
      BY <1>0, <2>2, <2>5
    <3> DEFINE n == net.addressCount + 1
    <3>2. net' = [HTErrorAdd(now, "NON_FATAL") EXCEPT !.addressCount = n]
      BY <2>1, <2>2, <2>5
    <3> HIDE DEF n
    <3>3. n \in Nat /\ n < Homes[host]
      BY <3>1 DEF n
    <3> QED
      BY <1>0, <2>2, <3>2, <3>3
  <2>6. CASE ~succeeds /\ Homes[host] # 1 /\ ~(net.addressCount < Homes[host] - 1)
    BY <1>0, <2>1, <2>2, <2>6
  <2> QED
    BY <2>3, <2>4, <2>5, <2>6
<1> QED
  BY <1>3, <1>4 DEF HInv

\* Every step keeps the invariant.
LEMMA HostNextInv == HInv /\ [HostNext]_hostVars => HInv'
<1> SUFFICES ASSUME HInv, [HostNext]_hostVars PROVE HInv'
  OBVIOUS
<1>1. CASE Ask
  <2>1. NetType' /\ NetQuiet' /\ AddressesOfHost'
    BY <1>1 DEF HInv, Ask, NewNet, NetType, NetQuiet, AddressesOfHost, Severities
  <2> QED
    BY <1>1, <2>1 DEF HInv, Ask, CacheCounted, HostCacheBounded
<1>2. CASE NoSocket
  BY <1>2, NoSocketInv
<1>3. CASE Connects
  <2>1. PICK t \in Times : Try(TRUE, t)
    BY <1>3 DEF Connects
  <2> QED
    BY <2>1, TryInv, HostsAssumption
<1>4. CASE Refused
  <2>1. PICK t \in Times, d \in {TCP_DELAY, TCP_PENALTY} : Try(FALSE, t + d)
    BY <1>4 DEF Refused
  <2>2. t + d \in Nat
    BY HostsAssumption DEF TCP_DELAY, TCP_PENALTY
  <2> QED
    BY <2>1, <2>2, TryInv
<1>5. CASE Close
  <2>1. NetType' /\ NetQuiet' /\ AddressesOfHost'
    BY <1>5 DEF HInv, Close, NewNet, NetType, NetQuiet, AddressesOfHost, Severities
  <2> QED
    BY <1>5, <2>1 DEF HInv, Close, CacheCounted, HostCacheBounded
<1>6. CASE UNCHANGED hostVars
  BY <1>6 DEF hostVars, HInv, NetType, NetQuiet, AddressesOfHost, CacheCounted, HostCacheBounded
<1> QED
  BY <1>1, <1>2, <1>3, <1>4, <1>5, <1>6 DEF HostNext

\* The inductive invariant holds always.
THEOREM HostInductive == HostSpec => []HInv
  BY HostInitInv, HostNextInv, PTL DEF HostSpec

\* The cache of hosts never has more elements than HTConCacheSize, and never two
\* for one host, although HTCacheSize is not counted down when one is removed.
THEOREM HostCacheStaysBounded == HostSpec => []HostCacheBounded
<1>1. HInv => HostCacheBounded
  BY DEF HInv
<1> QED
  BY <1>1, HostInductive, PTL

\* HTDoConnect only tries addresses of the host that it was asked for, and begins
\* no more rounds than the host has addresses.
THEOREM OnlyOwnAddresses == HostSpec => []AddressesOfHost
<1>1. HInv => AddressesOfHost
  BY DEF HInv
<1> QED
  BY <1>1, HostInductive, PTL

-----------------------------------------------------------------------------
(* The refinement                                                          *)

\* What the contract sees of net.
Conn == [pc |-> net.pc, socks |-> net.socks, errs |-> IF net.pc = "asked" THEN {} ELSE net.errs]

\* An answer of the contract, from the record that stands for it.
Answered(n, ok, errs) ==
    /\ n.pc = IF ok THEN "ok" ELSE "failed"
    /\ n.socks = IF ok THEN {"net"} ELSE {}
    /\ n.errs = errs

\* The contract allows every such answer.
LEMMA ContractAnswer ==
    ASSUME HInv, net.pc = "asked", NEW ok \in BOOLEAN, NEW errs, Answered(net', ok, errs),
           errs \in IF ok THEN {{}, {"NON_FATAL"}}
                    ELSE {{"FATAL"}, {"NON_FATAL"}, {"NON_FATAL", "FATAL"}}
    PROVE  Contract!Connect
<1> DEFINE conn == [pc |-> "asked", socks |-> {}, errs |-> {}]
           answers == Contract!HTDoConnect(conn, "net")
<1>1. net.socks = {}
  BY DEF HInv, NetQuiet
<1>2. Contract!Opened(conn, "net") = [conn EXCEPT !.socks = {"net"}]
  BY DEF Contract!Opened
<1>3. /\ Contract!HTErrorAdd(conn, "NON_FATAL") = [conn EXCEPT !.errs = {"NON_FATAL"}]
      /\ Contract!HTErrorAdd(conn, "FATAL") = [conn EXCEPT !.errs = {"FATAL"}]
  BY DEF Contract!HTErrorAdd
<1>4. Contract!Opened(Contract!HTErrorAdd(conn, "NON_FATAL"), "net")
        = [pc |-> "asked", socks |-> {"net"}, errs |-> {"NON_FATAL"}]
  BY <1>3 DEF Contract!Opened
<1>5. Contract!HTErrorAdd(Contract!HTErrorAdd(conn, "NON_FATAL"), "FATAL")
        = [pc |-> "asked", socks |-> {}, errs |-> {"NON_FATAL", "FATAL"}]
  <2> DEFINE e == [conn EXCEPT !.errs = {"NON_FATAL"}]
  <2>1. Contract!HTErrorAdd(e, "FATAL") = [e EXCEPT !.errs = e.errs \cup {"FATAL"}]
    BY DEF Contract!HTErrorAdd
  <2>2. e = [pc |-> "asked", socks |-> {}, errs |-> {"NON_FATAL"}]
    OBVIOUS
  <2> HIDE DEF e
  <2>3. [e EXCEPT !.errs = e.errs \cup {"FATAL"}]
          = [pc |-> "asked", socks |-> {}, errs |-> {"NON_FATAL"} \cup {"FATAL"}]
    BY <2>2
  <2>4. {"NON_FATAL"} \cup {"FATAL"} = {"NON_FATAL", "FATAL"}
    OBVIOUS
  <2> QED
    BY <1>3, <2>1, <2>3, <2>4 DEF e
<1> DEFINE answer == [ok |-> ok, r |-> [pc |-> "asked", socks |-> net'.socks, errs |-> errs]]
<1>6. answer \in answers
  <2> USE DEF Contract!HTDoConnect, Answered
  <2>1. CASE ok
    BY <1>2, <1>4, <2>1
  <2>2. CASE ~ok
    BY <1>3, <1>5, <2>2
  <2> QED
    BY <2>1, <2>2
<1> QED
  <2>1. [answer.r EXCEPT !.pc = IF ok THEN "ok" ELSE "failed"]
          = [pc |-> net'.pc, socks |-> net'.socks, errs |-> IF net'.pc = "asked" THEN {} ELSE net'.errs]
    BY DEF Answered
  <2> HIDE DEF answer, answers
  <2>2. answer.ok = ok
    BY DEF answer
  <2> QED
    BY <1>1, <1>6, <2>1, <2>2 DEF Contract!Connect, answers

\* A step is one of the contract, or changes nothing that it sees: a round that is
\* not the last.
LEMMA ContractStep ==
    ASSUME HInv, [HostNext]_hostVars
    PROVE  [Contract!Ask \/ Contract!Connect \/ Contract!Close]_Conn
<1> USE DEF Conn
<1>1. CASE Ask
  BY <1>1 DEF HInv, NetQuiet, Ask, NewNet, Contract!Ask
<1>2. CASE Close
  BY <1>2 DEF Close, NewNet, Contract!Close
<1>3. CASE NoSocket
  <2>1. Answered(net', FALSE, net.errs \cup {"FATAL"})
    BY <1>3 DEF NoSocket, HTErrorAdd, HInv, NetType, NetQuiet, Answered
  <2> QED
    BY <1>3, <2>1, ContractAnswer DEF NoSocket, HInv, NetQuiet
<1>4. ASSUME NEW succeeds \in BOOLEAN, NEW seconds, Try(succeeds, seconds)
      PROVE  Contract!Connect \/ UNCHANGED Conn
  <2> DEFINE homes == Homes[net.host]
             used == HTGetHostByName(hostcache, HTCacheSize, net.host)[
                        CHOOSE i \in Found(HTGetHostByName(hostcache, HTCacheSize, net.host),
                                           net.host) : TRUE].offset
             now == [net EXCEPT !.tried = @ \cup {used}]
  <2>1. /\ net.pc = "asked"
        /\ net' = IF succeeds THEN [Opened(now, "net") EXCEPT !.pc = "ok", !.addressCount = 0]
                  ELSE IF homes = 1 THEN [HTErrorAdd(now, "FATAL") EXCEPT !.pc = "failed"]
                  ELSE IF net.addressCount < homes - 1
                  THEN [HTErrorAdd(now, "NON_FATAL") EXCEPT !.addressCount = @ + 1]
                  ELSE GivenUp(now)
    BY <1>4 DEF Try
  <2>2. /\ now \in [pc : {"asked"}, host : Host, port : BOOLEAN, addressCount : Nat,
                     errs : SUBSET {"NON_FATAL"}, socks : {{}}, asked : Nat, tried : {now.tried}]
        /\ now.errs = net.errs
    BY <2>1 DEF HInv, NetType, NetQuiet
  <2> HIDE DEF now, used, homes
  <2> USE DEF Opened, HTErrorAdd, GivenUp, Answered
  <2>3. CASE succeeds
    <3>1. Answered(net', TRUE, net.errs)
      BY <2>1, <2>2, <2>3
    <3>2. net.errs \in {{}, {"NON_FATAL"}}
      BY <2>2
    <3> QED
      BY <2>1, <3>1, <3>2, ContractAnswer
  <2>4. CASE ~succeeds /\ homes = 1
    <3>1. Answered(net', FALSE, net.errs \cup {"FATAL"})
      BY <2>1, <2>2, <2>4
    <3>2. net.errs = {} \/ net.errs = {"NON_FATAL"}
      BY <2>2
    <3>3. net.errs \cup {"FATAL"} \in {{"FATAL"}, {"NON_FATAL"}, {"NON_FATAL", "FATAL"}}
      BY <3>2
    <3> QED
      BY <2>1, <3>1, <3>3, ContractAnswer
  <2>5. CASE ~succeeds /\ homes # 1 /\ net.addressCount < homes - 1
    <3>1. net'.pc = "asked" /\ net'.socks = net.socks
      BY <2>1, <2>2, <2>5 DEF HInv, NetQuiet
    <3> QED
      BY <2>1, <3>1
  <2>6. CASE ~succeeds /\ homes # 1 /\ ~(net.addressCount < homes - 1)
    <3>1. Answered(net', FALSE, {"NON_FATAL"})
      BY <2>1, <2>2, <2>6
    <3> QED
      BY <2>1, <3>1, ContractAnswer
  <2> QED
    BY <2>3, <2>4, <2>5, <2>6
<1>5. CASE Connects
  BY <1>4, <1>5 DEF Connects
<1>6. CASE Refused
  BY <1>4, <1>6 DEF Refused
<1>7. CASE UNCHANGED hostVars
  BY <1>7 DEF hostVars
<1> QED
  BY <1>1, <1>2, <1>3, <1>5, <1>6, <1>7 DEF HostNext

\* HTDoConnect, with its rounds over the addresses of a host and the cache behind
\* them, implements the contract that the protocol modules rely on.
THEOREM ConnectImplements == HostSpec => ConnectKept
<1>1. HostInit => Contract!ContractInit
  BY DEF HostInit, NewNet, Contract!ContractInit
<1>2. HInv /\ [HostNext]_hostVars => [Contract!Ask \/ Contract!Connect \/ Contract!Close]_Conn
  BY ContractStep
<1> QED
  BY <1>1, <1>2, HostInductive, PTL DEF HostSpec, ConnectKept, Contract!ContractSpec, Conn

-----------------------------------------------------------------------------
(* Where a load is                                                         *)

HTTPAt == {"http", "http_send", "http_forward", "http_copy", "http_reply", "http_moved", "http_401"}
MenuAt == {"parse_menu", "parse_cso"}
NewsAt == {"news", "news_try", "news_status", "read_group", "read_article"}
LocalAt == {"file", "telnet", "tn3270", "rlogin"}
BackAt == {"loaded", "retried", "answered", "done"}
Place == {"document", "ftp", "gopher", "gopher_copy", "crashed"}
            \cup HTTPAt \cup MenuAt \cup NewsAt \cup LocalAt \cup BackAt

-----------------------------------------------------------------------------
(* The values of the variables                                             *)

Request ==
    [pc : Place, mode : Modes, address : Address, protocol : protocols \cup {"none"},
     using_proxy : BOOLEAN, frames : Seq({"redirect", "auth"}), redirections : Nat,
     ret : Results, errs : SUBSET Severities, error_block : BOOLEAN, fed : BOOLEAN,
     told : BOOLEAN, ended : Nat, socks : SUBSET {"http", "ctrl", "data", "gopher"}]

States ==
    {"FTP_BEGIN", "GREETING", "SENT_UID", "SENT_PASSWD", "SENT_ACCOUNT", "SENT_TYPE", "SENT_PASV",
     "SENT_PORT", "SWITCH_TO_PORT", "SENT_SYST", "SENT_PWD", "SENT_CWD", "SENT_CWDS", "SENT_LIST",
     "SENT_RETR", "WAIT_FOR_CONNECTION", "READY_FOR_DATA", "HANDLE_CTRL", "GOT_DATA", "SENT_QUIT"}
Sent == {"connect", "USER", "PASS", "ACCT", "TYPE", "PASV", "PORT", "SYST", "PWD", "CWD",
         "LIST", "RETR", "QUIT"}
Connection ==
    [state : States, owed : Seq([to : Sent, code : Nat]), lost : BOOLEAN, asked : BOOLEAN,
     passwd : BOOLEAN, datatype : BOOLEAN, directory : BOOLEAN, path : Int, passive : 0 .. 2,
     server : BOOLEAN, retry : 0 .. 1, multiple : BOOLEAN, handle_ctrl : BOOLEAN]

GopherInfo ==
    [type : GopherTypes, query : BOOLEAN, target : BOOLEAN, files : BOOLEAN, message : BOOLEAN]

-----------------------------------------------------------------------------
(* What a load does in a place                                             *)

\* What a proxy does not do: it keeps nothing, interprets no response, and follows no
\* redirection.
Relays(r) ==
    r.mode = "proxy" =>
        /\ r.frames = <<>> /\ ~r.address.memory /\ ~r.address.cached
        /\ r.pc \notin {"http_reply", "http_moved", "http_401", "retried"}

\* The protocol that is being spoken, and that who returns was called.
Spoken(r) ==
    /\ r.pc \in {"gopher", "gopher_copy"} \cup MenuAt => r.protocol = "gopher"
    /\ r.pc \in NewsAt => r.protocol = "news"
    /\ r.pc = "file" => r.protocol = "file"
    /\ r.pc = "retried" => r.frames # <<>>

\* The sockets that may be open in a place.
SocksAt(pc, mode) ==
    IF pc \in HTTPAt THEN {"http"}
    ELSE IF pc = "ftp" THEN {"ctrl", "data"}
    ELSE IF pc \in {"gopher_copy"} \cup MenuAt THEN {"gopher"}
    ELSE IF pc \in BackAt /\ mode # "proxy" THEN {"http"}
    ELSE {}
FewSocks(r, f) ==
    /\ r.socks \subseteq SocksAt(r.pc, r.mode)
    /\ r.pc = "ftp" /\ f.state = "SENT_QUIT" => r.socks \subseteq {"ctrl"}
    /\ r.pc = "ftp" /\ f.state = "FTP_BEGIN" => r.socks = {}

\* Before a protocol module runs its variables are untouched.
Fresh(r, f, g) ==
    /\ r.pc \in {"document", "file"} \cup HTTPAt => f.state = "FTP_BEGIN" /\ f.owed = <<>>
    /\ r.pc \in {"document", "gopher"} \cup HTTPAt => ~g.target /\ ~g.files

-----------------------------------------------------------------------------
(* The dialogue with an FTP server                                         *)

\* The reply that is read next.
Next1(f) == <<f.state, f.owed[1].to>>

\* One reply at most is owed, and the one that is waited for; of a transfer that starts the
\* reply at its end may be there too.
Single(f) == Len(f.owed) <= 1 /\ (f.owed # <<>> => Next1(f) \in Commands)
Double(f) ==
    \/ Single(f)
    \/ /\ Len(f.owed) = 2 /\ Next1(f) \in Commands
       /\ f.owed[1].code \in Started /\ f.owed[2].to \in Transfers
InStep(f) ==
    /\ f.state = "FTP_BEGIN" => f.owed = <<>>
    /\ f.state \in {"SENT_LIST", "SENT_RETR"} => Double(f)
    /\ f.state = "SENT_QUIT" /\ f.owed # <<>> =>
          Next1(f) \in Commands \/ (f.handle_ctrl /\ f.owed[1].to \in Transfers)
    /\ f.state \notin {"SENT_LIST", "SENT_RETR", "SENT_QUIT"} => Single(f)

Dialogue(r, f) == r.pc = "ftp" => InStep(f)

\* Nothing was transferred yet.
EarlyStates == {"FTP_BEGIN", "GREETING", "SENT_UID", "SENT_PASSWD", "SENT_ACCOUNT", "SENT_TYPE",
                "SENT_PASV", "SENT_PORT"}

-----------------------------------------------------------------------------
(* What the client of a proxy has got                                      *)

Untouched(r) == ~r.fed /\ ~r.told /\ r.ended = 0 /\ ~r.error_block

\* Errors are told later, if nothing was fed; what was fed excludes it, but for a second
\* transfer.
Clean(r, f) ==
    /\ ~r.told
    /\ ~r.fed => r.ended = 0 /\ ~r.error_block
    /\ r.fed => r.error_block \/ f.retry = 1

FTPData(r, f) ==
    /\ Clean(r, f)
    /\ f.state \in EarlyStates => ~r.fed
    /\ IF f.state \in {"GOT_DATA", "SENT_QUIT"} THEN r.fed ELSE r.fed => f.retry = 1

GopherData(r, g) ==
    /\ ~r.told
    /\ ~r.fed => r.ended = 0 /\ ~r.error_block
    /\ r.fed => r.error_block
    /\ r.pc = "parse_menu" => (g.files <=> r.fed) /\ (g.files <=> g.target)
    /\ r.pc = "parse_cso" => (g.target <=> r.fed) /\ g.type = "GOPHER_CSO"

PhoneBook(r, g) == r.protocol = "gopher" /\ g.type = "GOPHER_CSO"
Explained(r) == r.ret = "ERROR" /\ r.protocol # "file" => r.errs \cap {"FATAL", "NON_FATAL"} # {}

\* The protocol module has returned.
Due(r, f, g) ==
    /\ ~r.told
    /\ r.ret # "NO_DATA"
    /\ r.ret = "LOADED" => r.fed \/ PhoneBook(r, g)
    /\ r.ret # "LOADED" => Clean(r, f)
    /\ Explained(r)

Served(r, f, g) ==
    /\ \/ r.fed /\ (r.told => f.retry = 1)
       \/ r.told /\ ~r.fed /\ r.ended = 1
       \/ PhoneBook(r, g) /\ r.ret = "LOADED"
    /\ Explained(r)

UntouchedAt == {"document", "gopher", "gopher_copy"} \cup HTTPAt \cup LocalAt
ProxyData(r, f, g) ==
    r.mode = "proxy" =>
        /\ r.pc \in UntouchedAt => Untouched(r)
        /\ r.pc = "ftp" => FTPData(r, f)
        /\ r.pc \in MenuAt => GopherData(r, g)
        /\ r.pc = "loaded" /\ r.protocol # "news" => Due(r, f, g)
        /\ r.pc \in {"answered", "done"} /\ r.protocol # "news" => Served(r, f, g)

\* What a load satisfies at any time.
Sound(r, f, g) ==
    /\ r \in Request /\ f \in Connection /\ g \in GopherInfo
    /\ Relays(r) /\ Spoken(r) /\ FewSocks(r, f) /\ Fresh(r, f, g)
    /\ Dialogue(r, f) /\ ProxyData(r, f, g)

LInv == Sound(req, ftp, gopher)

-----------------------------------------------------------------------------
(* Operators on a request                                                  *)

\* What no operator on a request changes.
SameLoad(r, s) ==
    /\ s \in Request
    /\ s.pc = r.pc /\ s.mode = r.mode /\ s.address = r.address /\ s.protocol = r.protocol
    /\ s.frames = r.frames /\ s.told = r.told

\* What the stream has got.
SameData(r, s) == s.error_block = r.error_block /\ s.fed = r.fed /\ s.ended = r.ended

\* HTErrorAdd changes the error stack only.
LEMMA AddedError ==
    ASSUME NEW r \in Request, NEW v \in Severities
    PROVE  LET s == HTErrorAdd(r, v) IN
           SameLoad(r, s) /\ SameData(r, s) /\ s.errs = r.errs \cup {v} /\ s.socks = r.socks
BY DEF HTErrorAdd, Request, SameLoad, SameData

\* Closing sockets changes nothing else.
LEMMA ShutSocks ==
    ASSUME NEW r \in Request, NEW S
    PROVE  LET s == Shut(r, S) IN
           SameLoad(r, s) /\ SameData(r, s) /\ s.errs = r.errs /\ s.socks = r.socks \ S
BY DEF Shut, Request, SameLoad, SameData

\* A stream is put up and fed.
LEMMA FedRequest ==
    ASSUME NEW r \in Request
    PROVE  LET s == Fed(StreamUp(r)) IN
           /\ SameLoad(r, s) /\ s.errs = r.errs /\ s.socks = r.socks
           /\ s.error_block /\ s.fed /\ s.ended = r.ended
BY DEF Fed, StreamUp, Request, SameLoad

\* A stream is freed.
LEMMA FreedRequest ==
    ASSUME NEW r \in Request
    PROVE  LET s == Freed(r) IN
           /\ SameLoad(r, s) /\ s.errs = r.errs /\ s.socks = r.socks
           /\ s.error_block = r.error_block /\ s.fed = r.fed /\ s.ended = r.ended + 1
BY DEF Freed, Request, SameLoad

\* A document is delivered: put up, fed and freed.
LEMMA DeliveredRequest ==
    ASSUME NEW r \in Request
    PROVE  LET s == Delivered(r) IN
           /\ SameLoad(r, s) /\ s.errs = r.errs /\ s.socks = r.socks
           /\ s.error_block /\ s.fed /\ s.ended = r.ended + 1
<1>1. Fed(StreamUp(r)) \in Request
  BY FedRequest DEF SameLoad
<1> QED
  BY <1>1, FedRequest, FreedRequest DEF Delivered, SameLoad

\* Without a converter nothing is fed, and there is an error.
LEMMA NoStreamRequest ==
    ASSUME NEW r \in Request
    PROVE  LET s == NoStream(r) IN
           /\ SameLoad(r, s) /\ s.errs = r.errs \cup {"FATAL"} /\ s.socks = r.socks
           /\ ~s.error_block /\ s.fed = r.fed /\ s.ended = r.ended
BY DEF NoStream, HTErrorAdd, Request, SameLoad, Severities

\* HTParseSocket delivers the document, or leaves an error and feeds nothing.
LEMMA ParsedSocket ==
    ASSUME NEW r \in Request, NEW d \in HTParseSocket(r)
    PROVE  /\ SameLoad(r, d.r) /\ d.r.socks = r.socks
           /\ d.ok \in BOOLEAN
           /\ d.ok => d.r.error_block /\ d.r.fed
           /\ ~d.ok => /\ d.r.fed = r.fed /\ d.r.ended = r.ended
                       /\ d.r.error_block => r.error_block
                       /\ d.r.errs # {}
<1>1. CASE d = [ok |-> FALSE, r |-> r] /\ r.errs # {}
  BY <1>1 DEF SameLoad, SameData, Request
<1>2. CASE d = [ok |-> TRUE, r |-> Delivered(r)]
  BY <1>2, DeliveredRequest
<1>3. CASE d = [ok |-> FALSE, r |-> NoStream(r)]
  <2>1. d.r = NoStream(r) /\ d.ok = FALSE
    BY <1>3
  <2> QED
    BY <2>1, NoStreamRequest
<1> QED
  BY <1>1, <1>2, <1>3 DEF HTParseSocket

\* A connection that is made, or not.
LEMMA Connected ==
    ASSUME NEW r \in Request, NEW s \in {"http", "ctrl", "data", "gopher"},
           NEW c \in HTDoConnect(r, s)
    PROVE  /\ SameLoad(r, c.r) /\ SameData(r, c.r) /\ c.ok \in BOOLEAN
           /\ c.ok => c.r.socks = r.socks \cup {s}
           /\ ~c.ok => c.r.socks = r.socks /\ c.r.errs \cap {"FATAL", "NON_FATAL"} # {}
<1>1. ASSUME NEW q \in Request
      PROVE  LET p == Opened(q, s) IN
             SameLoad(q, p) /\ SameData(q, p) /\ p.socks = q.socks \cup {s}
  BY DEF Opened, Request, SameLoad, SameData
<1>2. "FATAL" \in Severities /\ "NON_FATAL" \in Severities
  BY DEF Severities
<1>3. HTErrorAdd(r, "NON_FATAL") \in Request
  BY <1>2, AddedError DEF SameLoad
<1>4. CASE c = [ok |-> TRUE, r |-> Opened(r, s)]
  BY <1>1, <1>4
<1>5. CASE c = [ok |-> TRUE, r |-> Opened(HTErrorAdd(r, "NON_FATAL"), s)]
  BY <1>1, <1>2, <1>3, <1>5, AddedError DEF SameLoad, SameData
<1>6. CASE c = [ok |-> FALSE, r |-> HTErrorAdd(r, "FATAL")]
  BY <1>2, <1>6, AddedError
<1>7. CASE c = [ok |-> FALSE, r |-> HTErrorAdd(r, "NON_FATAL")]
  BY <1>2, <1>7, AddedError
<1>8. CASE c = [ok |-> FALSE, r |-> HTErrorAdd(HTErrorAdd(r, "NON_FATAL"), "FATAL")]
  <2> DEFINE q == HTErrorAdd(r, "NON_FATAL")
             p == HTErrorAdd(q, "FATAL")
  <2>1. SameLoad(r, q) /\ SameData(r, q) /\ q.socks = r.socks
    BY <1>2, AddedError
  <2>2. SameLoad(q, p) /\ SameData(q, p) /\ q.socks = p.socks /\ "FATAL" \in p.errs
    BY <1>2, <1>3, AddedError
  <2>3. c.r = p /\ c.ok = FALSE
    BY <1>8
  <2> HIDE DEF q, p
  <2> QED
    BY <2>1, <2>2, <2>3 DEF SameLoad, SameData
<1> QED
  BY <1>4, <1>5, <1>6, <1>7, <1>8 DEF HTDoConnect

\* A protocol module returns.
Returns(r, v, f, g) ==
    /\ Relays(r)
    /\ r.socks \subseteq IF r.mode = "proxy" THEN {} ELSE {"http"}
    /\ r.mode = "proxy" /\ r.protocol # "news" => Due([r EXCEPT !.ret = v], f, g)

\* A protocol module that returns changes the place and the result only.
LEMMA ReturnedRequest ==
    ASSUME NEW r \in Request, NEW v \in Results
    PROVE  LET s == Returned(r, v) IN
           /\ s \in Request
           /\ s.pc \in {"loaded", "retried"}
           /\ s.pc = "retried" => r.frames # <<>>
           /\ s.mode = r.mode /\ s.address = r.address /\ s.protocol = r.protocol
           /\ s.frames = r.frames /\ s.told = r.told /\ s.ret = v
           /\ s.errs = r.errs /\ s.socks = r.socks /\ SameData(r, s)
<1>1. "loaded" \in Place /\ "retried" \in Place
  BY DEF Place, BackAt
<1> QED
  BY <1>1 DEF Returned, Request, SameData

\* Returning is sound when what is due to the client is there.
LEMMA ReturnedSound ==
    ASSUME NEW r \in Request, NEW f \in Connection, NEW g \in GopherInfo, NEW v \in Results,
           Returns(r, v, f, g)
    PROVE  Sound(Returned(r, v), f, g)
<1> DEFINE s == Returned(r, v)
           q == [r EXCEPT !.ret = v]
<1>1. /\ s \in Request
      /\ s.pc \in {"loaded", "retried"}
      /\ s.pc = "retried" => r.frames # <<>>
      /\ s.mode = r.mode /\ s.address = r.address /\ s.protocol = r.protocol
      /\ s.frames = r.frames /\ s.told = r.told /\ s.ret = v
      /\ s.errs = r.errs /\ s.socks = r.socks /\ SameData(r, s)
  BY ReturnedRequest
<1>2. /\ q.told = r.told /\ q.ret = v /\ q.errs = r.errs /\ q.protocol = r.protocol
      /\ q.error_block = r.error_block /\ q.fed = r.fed /\ q.ended = r.ended
  BY DEF Request
<1> HIDE DEF s, q
<1>3. Relays(s)
  BY <1>1 DEF Returns, Relays
<1>4. Spoken(s) /\ Fresh(s, f, g) /\ Dialogue(s, f)
  BY <1>1 DEF Spoken, Fresh, Dialogue, MenuAt, NewsAt, HTTPAt
<1>5. FewSocks(s, f)
  BY <1>1 DEF FewSocks, SocksAt, Returns, HTTPAt, MenuAt, BackAt
<1>6. Due(q, f, g) => Due(s, f, g)
  BY <1>1, <1>2 DEF Due, Clean, PhoneBook, Explained, SameData
<1>7. ProxyData(s, f, g)
  BY <1>1, <1>6 DEF ProxyData, UntouchedAt, HTTPAt, LocalAt, MenuAt, Returns, q
<1> QED
  BY <1>1, <1>3, <1>4, <1>5, <1>7 DEF Sound, s

\* A load goes on in another place.
LEMMA GoesRequest ==
    ASSUME NEW r \in Request, NEW p \in Place
    PROVE  LET s == Goes(r, p) IN
           /\ s \in Request /\ s.pc = p
           /\ s.mode = r.mode /\ s.address = r.address /\ s.protocol = r.protocol
           /\ s.frames = r.frames /\ s.told = r.told /\ s.ret = r.ret
           /\ s.errs = r.errs /\ s.socks = r.socks /\ SameData(r, s)
BY DEF Goes, Request, SameData

\* A failure adds an error first.
LEMMA FailedSound ==
    ASSUME NEW r \in Request, NEW f \in Connection, NEW g \in GopherInfo,
           Relays(r), r.socks \subseteq IF r.mode = "proxy" THEN {} ELSE {"http"},
           r.mode = "proxy" /\ r.protocol # "news" => Clean(r, f)
    PROVE  Sound(Failed(r), f, g)
<1> DEFINE q == HTErrorAdd(r, "FATAL")
           p == [q EXCEPT !.ret = "ERROR"]
<1>1. SameLoad(r, q) /\ SameData(r, q) /\ q.errs = r.errs \cup {"FATAL"} /\ q.socks = r.socks
  BY AddedError DEF Severities
<1>2. q \in Request /\ "ERROR" \in Results
  BY <1>1 DEF SameLoad, Results
<1> HIDE DEF q
<1>3. /\ p.told = q.told /\ p.ret = "ERROR" /\ p.errs = q.errs /\ p.protocol = q.protocol
      /\ p.error_block = q.error_block /\ p.fed = q.fed /\ p.ended = q.ended
  BY <1>2 DEF Request
<1> HIDE DEF p
<1>4. r.mode = "proxy" /\ r.protocol # "news" => Due(p, f, g)
  BY <1>1, <1>3 DEF SameLoad, SameData, Due, Explained, Clean
<1>5. Returns(q, "ERROR", f, g)
  BY <1>1, <1>4 DEF Returns, p, Relays, SameLoad
<1>6. Sound(Returned(q, "ERROR"), f, g)
  BY <1>2, <1>5, ReturnedSound
<1> QED
  BY <1>6 DEF Failed, q

-----------------------------------------------------------------------------
(* HTTP                                                                    *)

\* What holds of a request in HTLoadHTTP.
InHTTP(r, f, g) ==
    /\ r \in Request /\ f \in Connection /\ g \in GopherInfo
    /\ r.mode = "proxy" => r.frames = <<>> /\ ~r.address.memory /\ ~r.address.cached
    /\ r.socks \subseteq {"http"}
    /\ f.state = "FTP_BEGIN" /\ f.owed = <<>> /\ ~g.target /\ ~g.files
    /\ r.mode = "proxy" => Untouched(r)

\* HTLoadHTTP goes on to another of its places.
LEMMA HTTPGoesOn ==
    ASSUME NEW r, NEW f, NEW g, InHTTP(r, f, g), NEW p \in HTTPAt,
           r.mode = "proxy" => p \notin {"http_reply", "http_moved", "http_401"}
    PROVE  Sound(Goes(r, p), f, g)
<1> DEFINE s == Goes(r, p)
<1>1. /\ s \in Request /\ s.pc = p
      /\ s.mode = r.mode /\ s.address = r.address /\ s.protocol = r.protocol
      /\ s.frames = r.frames /\ s.told = r.told /\ s.ret = r.ret
      /\ s.errs = r.errs /\ s.socks = r.socks /\ SameData(r, s)
  BY GoesRequest DEF InHTTP, Place
<1> HIDE DEF s
<1>2. p \notin {"document", "ftp", "gopher", "gopher_copy", "crashed"}
                  \cup MenuAt \cup NewsAt \cup LocalAt \cup BackAt
  BY DEF HTTPAt, MenuAt, NewsAt, LocalAt, BackAt
<1>3. Relays(s) /\ Spoken(s)
  BY <1>1, <1>2 DEF InHTTP, Relays, Spoken, LocalAt, BackAt
<1>4. FewSocks(s, f) /\ Fresh(s, f, g) /\ Dialogue(s, f)
  BY <1>1, <1>2 DEF InHTTP, FewSocks, SocksAt, Fresh, Dialogue
<1>5. ProxyData(s, f, g)
  BY <1>1, <1>2 DEF InHTTP, ProxyData, Untouched, SameData, BackAt
<1> QED
  BY <1>1, <1>3, <1>4, <1>5 DEF InHTTP, Sound, s

\* HTTPCleanup closes the socket; a proxy has fed its client, or has an error to tell.
LEMMA HTTPReturns ==
    ASSUME NEW r, NEW f, NEW g, r \in Request, f \in Connection, g \in GopherInfo,
           r.mode = "proxy" => r.frames = <<>> /\ ~r.address.memory /\ ~r.address.cached,
           r.pc \in HTTPAt, r.socks \subseteq {"http"}, NEW v \in Results,
           r.mode = "proxy" =>
              /\ r.pc \notin {"http_reply", "http_moved", "http_401"}
              /\ \/ v = "LOADED" /\ r.fed /\ ~r.told
                 \/ v = "ERROR" /\ Untouched(r) /\ r.errs \cap {"FATAL", "NON_FATAL"} # {}
    PROVE  Sound(HTTPCleanup(r, v), f, g)
<1> DEFINE q == Shut(r, {"http"})
           p == [q EXCEPT !.ret = v]
<1>1. SameLoad(r, q) /\ SameData(r, q) /\ q.errs = r.errs /\ q.socks = {}
  BY ShutSocks
<1>2. q \in Request
  BY <1>1 DEF SameLoad
<1> HIDE DEF q
<1>3. /\ p.told = q.told /\ p.ret = v /\ p.errs = q.errs /\ p.protocol = q.protocol
      /\ p.error_block = q.error_block /\ p.fed = q.fed /\ p.ended = q.ended
  BY <1>2 DEF Request
<1> HIDE DEF p
<1>4. r.mode = "proxy" => Due(p, f, g)
  BY <1>1, <1>3 DEF SameLoad, SameData, Due, Explained, Clean, Untouched
<1>5. Relays(q)
  BY <1>1 DEF Relays, SameLoad, HTTPAt
<1>6. Returns(q, v, f, g)
  BY <1>1, <1>4, <1>5 DEF Returns, p, SameLoad
<1>7. Sound(Returned(q, v), f, g)
  BY <1>2, <1>6, ReturnedSound
<1> QED
  BY <1>7 DEF HTTPCleanup, q

\* HTLoadHTTP fails before anything was fed.
LEMMA HTTPFailsSound ==
    ASSUME NEW r, NEW f, NEW g, InHTTP(r, f, g), r.pc \in HTTPAt,
           r.mode = "proxy" => r.pc \notin {"http_reply", "http_moved", "http_401"}
    PROVE  Sound(HTTPFails(r), f, g)
<1> DEFINE q == HTErrorAdd(r, "FATAL")
<1>1. SameLoad(r, q) /\ SameData(r, q) /\ q.errs = r.errs \cup {"FATAL"} /\ q.socks = r.socks
  BY AddedError DEF Severities, InHTTP
<1> HIDE DEF q
<1>2. "ERROR" \in Results
  BY DEF Results
<1>3. Sound(HTTPCleanup(q, "ERROR"), f, g)
  BY <1>1, <1>2, HTTPReturns DEF InHTTP, SameLoad, SameData, Untouched
<1> QED
  BY <1>3 DEF HTTPFails, q

\* A browser may end with anything.
LEMMA BrowserReturns ==
    ASSUME NEW r, NEW f, NEW g, InHTTP(r, f, g), r.mode # "proxy", r.pc \in HTTPAt,
           NEW q, SameLoad(r, q), q.socks = r.socks, NEW v \in Results
    PROVE  Sound(HTTPCleanup(q, v), f, g)
<1>1. q \in Request /\ q.mode # "proxy" /\ q.pc \in HTTPAt /\ q.socks \subseteq {"http"}
  BY DEF SameLoad, InHTTP
<1> QED
  BY <1>1, HTTPReturns DEF InHTTP

\* The header of a reply is read, by a proxy passed on as it is.
LEMMA ReadReplySound ==
    ASSUME InHTTP(req, ftp, gopher), req.mode # "proxy", ReadReply
    PROVE  Sound(req', ftp, gopher)
<1> DEFINE info == HTErrorAdd(req, "INFO")
<1>1. req.pc = "http_reply" /\ req.pc \in HTTPAt /\ req \in Request
  BY DEF ReadReply, HTTPAt, InHTTP
<1>2. \A v \in {"LOADED", "NO_DATA", "ERROR"} : v \in Results
  BY DEF Results
<1>3. SameLoad(req, info) /\ info.socks = req.socks /\ info \in Request
  BY <1>1, AddedError DEF Severities, SameLoad
<1>4. SameLoad(req, req)
  BY <1>1 DEF SameLoad
<1> HIDE DEF info
<1>5. ASSUME NEW q, q \in Request, SameLoad(req, q), q.socks = req.socks, req' \in HTTPGetBody(q)
      PROVE  Sound(req', ftp, gopher)
  <2>1. SameLoad(req, Delivered(q)) /\ Delivered(q).socks = req.socks
    BY <1>5, DeliveredRequest DEF SameLoad
  <2>2. SameLoad(req, NoStream(q)) /\ NoStream(q).socks = req.socks
    BY <1>5, NoStreamRequest DEF SameLoad
  <2>3. Sound(HTTPCleanup(Delivered(q), "LOADED"), ftp, gopher)
    BY <1>1, <1>2, <2>1, BrowserReturns
  <2>4. Sound(HTTPCleanup(NoStream(q), "ERROR"), ftp, gopher)
    BY <1>1, <1>2, <2>2, BrowserReturns
  <2> QED
    BY <1>5, <2>3, <2>4 DEF HTTPGetBody
<1>6. CASE req' \in HTTPGetBody(req) \/ req' \in HTTPGetBody(info)
  BY <1>1, <1>3, <1>4, <1>5, <1>6
<1>7. CASE req' = HTTPCleanup(info, "NO_DATA")
  BY <1>1, <1>2, <1>3, <1>7, BrowserReturns
<1>8. CASE req' = HTTPCleanup(info, "LOADED")
  BY <1>1, <1>2, <1>3, <1>8, BrowserReturns
<1>9. CASE req' = HTTPCleanup(req, "ERROR")
  BY <1>1, <1>2, <1>4, <1>9, BrowserReturns
<1>10. CASE req' = HTTPFails(req)
  BY <1>1, <1>10, HTTPFailsSound
<1>11. CASE req' = Failed(req)
  <2>1. Relays(req)
    BY DEF Relays
  <2> QED
    BY <1>11, <2>1, FailedSound DEF InHTTP
<1>12. CASE req' = Goes(req, "http_moved")
  BY <1>12, HTTPGoesOn DEF HTTPAt
<1>13. CASE req' = Goes(req, "http_401")
  BY <1>13, HTTPGoesOn DEF HTTPAt
<1> QED
  BY <1>6, <1>7, <1>8, <1>9, <1>10, <1>11, <1>12, <1>13 DEF ReadReply, info

\* What a browser asks next of a server begins without a socket.
LEMMA RedirectSound ==
    ASSUME InHTTP(req, ftp, gopher), req.mode # "proxy", Redirect
    PROVE  Sound(req', ftp, gopher)
<1> DEFINE info == HTErrorAdd(req, "INFO")
           shut == Shut(info, {"http"})
           moved == [shut EXCEPT !.redirections = @ + 1]
<1>1. req \in Request
  BY DEF InHTTP
<1>2. SameLoad(req, info) /\ info.socks = req.socks
  BY <1>1, AddedError DEF Severities
<1>3. SameLoad(info, shut) /\ shut.socks = {}
  BY <1>2, ShutSocks DEF SameLoad, InHTTP
<1> HIDE DEF shut
<1>4. shut \in Request /\ shut.mode = req.mode
  BY <1>2, <1>3 DEF SameLoad
<1>5. moved \in Request /\ moved.mode = req.mode /\ moved.socks = {}
  BY <1>3, <1>4 DEF Request
<1> HIDE DEF moved
<1>6. CASE \E a \in Address : req' = [moved EXCEPT !.address = a, !.frames = <<"redirect">> \o @,
                                                   !.pc = "document"]
  <2>1. PICK a \in Address : req' = [moved EXCEPT !.address = a, !.frames = <<"redirect">> \o @,
                                                  !.pc = "document"]
    BY <1>6
  <2>2. <<"redirect">> \o moved.frames \in Seq({"redirect", "auth"})
    BY <1>5 DEF Request
  <2>3. /\ req' \in Request /\ req'.pc = "document" /\ req'.mode = req.mode
        /\ req'.socks = {}
    BY <1>5, <2>1, <2>2 DEF Request, Place
  <2> QED
    BY <2>3 DEF InHTTP, Sound, Relays, Spoken, FewSocks, Fresh, Dialogue, ProxyData, HTTPAt,
                MenuAt, NewsAt
<1>7. CASE req' = Failed(moved)
  BY <1>5, <1>7, FailedSound DEF InHTTP, Relays
<1>8. CASE req' = Goes(Shut(req, req.socks), "crashed")
  <2>1. SameLoad(req, Shut(req, req.socks)) /\ Shut(req, req.socks).socks = {}
    BY <1>1, ShutSocks
  <2>2. req' \in Request /\ req'.pc = "crashed" /\ req'.mode = req.mode /\ req'.socks = {}
    BY <1>8, <2>1, GoesRequest DEF SameLoad, Place
  <2> QED
    BY <2>2 DEF InHTTP, Sound, Relays, Spoken, FewSocks, Fresh, Dialogue, ProxyData, HTTPAt,
                MenuAt, NewsAt
<1> QED
  BY <1>6, <1>7, <1>8 DEF Redirect, moved, shut

\* A browser that is asked for a password starts the request again.
LEMMA UnauthorizedSound ==
    ASSUME InHTTP(req, ftp, gopher), req.mode # "proxy", Unauthorized
    PROVE  Sound(req', ftp, gopher)
<1> DEFINE closed == Shut(req, {"http"})
<1>1. req \in Request
  BY DEF InHTTP
<1>2. SameLoad(req, closed) /\ closed.socks = {}
  BY <1>1, ShutSocks DEF InHTTP
<1>3. closed \in Request /\ closed.mode = req.mode
  BY <1>2 DEF SameLoad
<1> HIDE DEF closed
<1>4. CASE req' = Failed(closed)
  BY <1>2, <1>3, <1>4, FailedSound DEF InHTTP, Relays
<1>5. CASE req' = Returned(closed, "LOADED")
  BY <1>2, <1>3, <1>5, ReturnedSound DEF InHTTP, Returns, Relays, Results
<1>6. CASE req' = [closed EXCEPT !.frames = <<"auth">> \o @, !.pc = "http"]
  <2>1. <<"auth">> \o closed.frames \in Seq({"redirect", "auth"})
    BY <1>3 DEF Request
  <2>2. req' \in Request /\ req'.pc = "http" /\ req'.mode = req.mode /\ req'.socks = {}
    BY <1>2, <1>3, <1>6, <2>1 DEF Request, Place, HTTPAt
  <2> QED
    BY <2>2 DEF InHTTP, Sound, Relays, Spoken, FewSocks, Fresh, Dialogue, ProxyData, HTTPAt,
                MenuAt, NewsAt
<1> QED
  BY <1>4, <1>5, <1>6 DEF Unauthorized, closed

\* All steps of HTLoadHTTP are sound.
LEMMA HTTPSound ==
    ASSUME LInv, HTTPStep
    PROVE  LInv'
<1>1. SUFFICES Sound(req', ftp, gopher)
  BY DEF LInv, HTTPStep
<1>2. req \in Request /\ ftp \in Connection /\ gopher \in GopherInfo /\ Relays(req)
  BY DEF LInv, Sound
<1>3. CASE req.pc = "retried"
  <2> DEFINE back == [req EXCEPT !.frames = Tail(@)]
  <2>1. req' = Returned(back, "LOADED")
    BY <1>3 DEF HTTPStep, HTTPNext, HTLoadHTTP, HTTPSendRequest, ForwardBody, RelayResponse,
                ReadReply, Redirect, Unauthorized, Retried
  <2>2. Tail(req.frames) \in Seq({"redirect", "auth"})
    BY <1>2, <1>3 DEF LInv, Sound, Spoken, Request
  <2>3. req.mode # "proxy" /\ req.socks \subseteq {"http"}
    BY <1>3 DEF LInv, Sound, Relays, FewSocks, SocksAt, HTTPAt, MenuAt
  <2>4. back \in Request /\ back.mode = req.mode /\ back.socks = req.socks
    BY <1>2, <2>2 DEF Request
  <2> HIDE DEF back
  <2>5. Returns(back, "LOADED", ftp, gopher)
    BY <2>3, <2>4 DEF Returns, Relays
  <2> QED
    BY <1>2, <2>1, <2>4, <2>5, ReturnedSound DEF Results
<1>4. CASE req.pc # "retried"
  <2>1. req.pc \in HTTPAt
    BY <1>4 DEF HTTPStep, HTTPNext, HTLoadHTTP, HTTPSendRequest, ForwardBody, RelayResponse,
                ReadReply, Redirect, Unauthorized, Retried, HTTPAt
  <2>2. InHTTP(req, ftp, gopher)
    BY <1>2, <2>1 DEF LInv, Sound, InHTTP, Relays, FewSocks, SocksAt, Fresh, ProxyData, UntouchedAt
  <2>3. req.mode = "proxy" => req.pc \notin {"http_reply", "http_moved", "http_401"}
    BY <1>2 DEF Relays
  <2>4. CASE HTLoadHTTP
    <3>1. PICK c \in HTDoConnect(req, "http") :
              req' = IF c.ok THEN Goes(c.r, "http_send") ELSE HTTPCleanup(c.r, "ERROR")
      BY <2>4 DEF HTLoadHTTP
    <3>2. /\ SameLoad(req, c.r) /\ SameData(req, c.r) /\ c.ok \in BOOLEAN
          /\ c.ok => c.r.socks = req.socks \cup {"http"}
          /\ ~c.ok => c.r.socks = req.socks /\ c.r.errs \cap {"FATAL", "NON_FATAL"} # {}
      BY <1>2, Connected
    <3>3. InHTTP(c.r, ftp, gopher)
      BY <2>2, <3>2 DEF InHTTP, SameLoad, SameData, Untouched
    <3>4. CASE c.ok
      BY <3>1, <3>3, <3>4, HTTPGoesOn DEF HTTPAt
    <3>5. CASE ~c.ok
      <4>1. c.r.pc \in HTTPAt /\ "ERROR" \in Results
        BY <2>1, <3>2 DEF SameLoad, Results
      <4>2. c.r.mode = "proxy" => c.r.pc \notin {"http_reply", "http_moved", "http_401"}
        BY <2>3, <3>2 DEF SameLoad
      <4>3. Sound(HTTPCleanup(c.r, "ERROR"), ftp, gopher)
        BY <3>2, <3>3, <3>5, <4>1, <4>2, HTTPReturns DEF InHTTP
      <4> QED
        BY <3>1, <3>5, <4>3
    <3> QED
      BY <3>4, <3>5
  <2>5. CASE HTTPSendRequest
    <3>1. CASE req' = HTTPFails(req)
      BY <2>1, <2>2, <2>3, <3>1, HTTPFailsSound
    <3>2. CASE \E p \in {"http_reply", "http_forward", "http_copy"} :
                  req' = Goes(req, p) /\ (req.mode = "proxy" => p # "http_reply")
      BY <2>2, <3>2, HTTPGoesOn DEF HTTPAt
    <3> QED
      BY <2>5, <3>1, <3>2 DEF HTTPSendRequest
  <2>6. CASE ForwardBody
    <3>1. CASE req' = HTTPFails(req)
      BY <2>1, <2>2, <2>3, <3>1, HTTPFailsSound
    <3>2. CASE req' = Goes(req, "http_copy")
      BY <2>2, <3>2, HTTPGoesOn DEF HTTPAt
    <3>3. CASE req' = req
      BY <3>3 DEF LInv
    <3> QED
      BY <2>6, <3>1, <3>2, <3>3 DEF ForwardBody
  <2>7. CASE RelayResponse
    <3> DEFINE fed == Fed(req)
               freed == Freed(fed)
    <3>1. SameLoad(req, fed) /\ fed.fed /\ fed.socks = req.socks
      BY <1>2 DEF Fed, Request, SameLoad
    <3>2. SameLoad(fed, freed) /\ freed.fed /\ freed.socks = req.socks
      BY <3>1, FreedRequest DEF SameLoad
    <3> HIDE DEF freed, fed
    <3>3. /\ SameLoad(req, freed) /\ "LOADED" \in Results
      BY <3>1, <3>2 DEF SameLoad, Results
    <3>4. Sound(HTTPCleanup(freed, "LOADED"), ftp, gopher)
      BY <2>1, <2>2, <2>3, <3>2, <3>3, HTTPReturns DEF InHTTP, SameLoad, Untouched
    <3> QED
      BY <2>7, <3>4 DEF RelayResponse, fed, freed
  <2>8. CASE ReadReply
    BY <2>2, <2>3, <2>8, ReadReplySound DEF ReadReply
  <2>9. CASE Redirect
    BY <2>2, <2>3, <2>9, RedirectSound DEF Redirect
  <2>10. CASE Unauthorized
    BY <2>2, <2>3, <2>10, UnauthorizedSound DEF Unauthorized
  <2> QED
    BY <1>4, <2>4, <2>5, <2>6, <2>7, <2>8, <2>9, <2>10 DEF HTTPStep, HTTPNext, Retried
<1> QED
  BY <1>3, <1>4

-----------------------------------------------------------------------------
(* Gopher                                                                  *)

\* A Gopher load comes to its end.
LEMMA GopherEnds ==
    ASSUME NEW r \in Request, NEW f \in Connection, NEW g \in GopherInfo, Relays(r),
           r.socks \subseteq {"gopher"}, r.protocol = "gopher", NEW ok \in BOOLEAN,
           r.mode = "proxy" =>
              /\ ~r.told
              /\ ok => r.fed \/ g.type = "GOPHER_CSO"
              /\ ~ok /\ ~r.fed => r.ended = 0 /\ ~r.error_block
              /\ ~ok /\ r.fed => r.error_block
    PROVE  Sound(GopherEnd(r, ok), f, g)
<1> DEFINE q == Shut(r, {"gopher"})
           p == [q EXCEPT !.ret = "LOADED"]
<1>1. SameLoad(r, q) /\ SameData(r, q) /\ q.errs = r.errs /\ q.socks = {}
  BY ShutSocks
<1>2. q \in Request /\ "LOADED" \in Results
  BY <1>1 DEF SameLoad, Results
<1> HIDE DEF q
<1>3. Relays(q)
  BY <1>1 DEF Relays, SameLoad
<1>4. CASE ok
  <2>1. p.told = q.told /\ p.ret = "LOADED" /\ p.fed = q.fed /\ p.protocol = q.protocol
    BY <1>2 DEF Request
  <2> HIDE DEF p
  <2>2. r.mode = "proxy" => Due(p, f, g)
    BY <1>1, <1>4, <2>1 DEF Due, Explained, PhoneBook, SameLoad, SameData
  <2>3. Returns(q, "LOADED", f, g)
    BY <1>1, <1>3, <2>2 DEF Returns, p, SameLoad
  <2> QED
    BY <1>2, <1>4, <2>3, ReturnedSound DEF GopherEnd, q
<1>5. CASE ~ok
  <2>1. r.mode = "proxy" => Clean(q, f)
    BY <1>1, <1>5 DEF Clean, SameLoad, SameData
  <2>2. Sound(Failed(q), f, g)
    BY <1>1, <1>2, <1>3, <2>1, FailedSound DEF SameLoad
  <2> QED
    BY <1>5, <2>2 DEF GopherEnd, q
<1> QED
  BY <1>4, <1>5

\* A menu or a phone book is read on.
LEMMA MenuGoesOn ==
    ASSUME NEW r \in Request, NEW f \in Connection, NEW g \in GopherInfo, Relays(r),
           r.pc \in MenuAt, r.socks \subseteq {"gopher"}, r.protocol = "gopher",
           r.mode = "proxy" => GopherData(r, g)
    PROVE  Sound(r, f, g)
<1>1. r.pc \notin {"document", "ftp", "gopher", "gopher_copy", "crashed"}
                     \cup HTTPAt \cup NewsAt \cup LocalAt \cup BackAt
  BY DEF HTTPAt, MenuAt, NewsAt, LocalAt, BackAt
<1>2. Spoken(r) /\ FewSocks(r, f) /\ Fresh(r, f, g)
  BY <1>1 DEF Spoken, FewSocks, SocksAt, Fresh, LocalAt, BackAt
<1>3. Dialogue(r, f) /\ ProxyData(r, f, g)
  BY <1>1 DEF Dialogue, ProxyData, UntouchedAt, BackAt
<1> QED
  BY <1>2, <1>3 DEF Sound

\* HTLoadGopher connects and chooses how to read what comes.
LEMMA HTLoadGopherSound ==
    ASSUME LInv, HTLoadGopher
    PROVE  Sound(req', ftp, gopher)
<1>1. /\ req \in Request /\ ftp \in Connection /\ gopher \in GopherInfo /\ Relays(req)
      /\ req.pc = "gopher" /\ req.protocol = "gopher" /\ req.socks = {}
      /\ ~gopher.target /\ ~gopher.files
      /\ req.mode = "proxy" => Untouched(req)
  BY DEF LInv, Sound, HTLoadGopher, Spoken, FewSocks, SocksAt, Fresh, ProxyData, UntouchedAt,
         HTTPAt, MenuAt, BackAt
<1>2. CASE req' = Returned(Delivered(req), "LOADED")
  <2> DEFINE q == Delivered(req)
             p == [q EXCEPT !.ret = "LOADED"]
  <2>1. SameLoad(req, q) /\ q.socks = {} /\ q.fed
    BY <1>1, DeliveredRequest
  <2>2. q \in Request /\ "LOADED" \in Results
    BY <2>1 DEF SameLoad, Results
  <2> HIDE DEF q
  <2>3. p.told = q.told /\ p.ret = "LOADED" /\ p.fed = q.fed
    BY <2>2 DEF Request
  <2> HIDE DEF p
  <2>4. req.mode = "proxy" => Due(p, ftp, gopher)
    BY <1>1, <2>1, <2>3 DEF Due, Explained, SameLoad, Untouched
  <2>5. Relays(q)
    BY <1>1, <2>1 DEF SameLoad, Relays
  <2>6. Returns(q, "LOADED", ftp, gopher)
    BY <2>1, <2>4, <2>5 DEF Returns, p, SameLoad
  <2>7. Sound(Returned(q, "LOADED"), ftp, gopher)
    BY <1>1, <2>2, <2>6, ReturnedSound
  <2> QED
    BY <1>2, <2>7 DEF q
<1>3. ASSUME NEW c \in HTDoConnect(req, "gopher"), NEW sent \in BOOLEAN,
             req' = IF ~c.ok THEN GopherEnd(c.r, FALSE)
                    ELSE IF ~sent THEN GopherEnd(HTErrorAdd(c.r, "FATAL"), FALSE)
                    ELSE Goes(c.r, IF gopher.type = "GOPHER_CSO" THEN "parse_cso"
                                   ELSE IF gopher.type \in {"GOPHER_MENU", "GOPHER_INDEX"}
                                   THEN "parse_menu" ELSE "gopher_copy")
      PROVE  Sound(req', ftp, gopher)
  <2>1. /\ SameLoad(req, c.r) /\ SameData(req, c.r) /\ c.ok \in BOOLEAN
        /\ c.r.socks \subseteq {"gopher"}
    BY <1>1, Connected
  <2>2. c.r \in Request /\ Relays(c.r) /\ c.r.protocol = "gopher"
    BY <1>1, <2>1 DEF SameLoad, Relays
  <2>3. c.r.mode = "proxy" => Untouched(c.r)
    BY <1>1, <2>1 DEF SameLoad, SameData, Untouched
  <2>4. CASE ~c.ok
    <3>1. Sound(GopherEnd(c.r, FALSE), ftp, gopher)
      BY <1>1, <2>1, <2>2, <2>3, GopherEnds DEF Untouched
    <3> QED
      BY <1>3, <2>4, <3>1
  <2>5. CASE c.ok /\ ~sent
    <3> DEFINE q == HTErrorAdd(c.r, "FATAL")
    <3>1. SameLoad(c.r, q) /\ SameData(c.r, q) /\ q.socks = c.r.socks
      BY <2>2, AddedError DEF Severities
    <3> HIDE DEF q
    <3>2. q \in Request /\ Relays(q)
      BY <2>2, <3>1 DEF SameLoad, Relays
    <3>3. Sound(GopherEnd(q, FALSE), ftp, gopher)
      BY <1>1, <2>1, <2>2, <2>3, <3>1, <3>2, GopherEnds DEF SameLoad, SameData, Untouched
    <3> QED
      BY <1>3, <2>5, <3>3 DEF q
  <2>6. CASE c.ok /\ sent
    <3>1. PICK p \in {"parse_cso", "parse_menu", "gopher_copy"} :
              req' = Goes(c.r, p) /\ (p = "parse_cso" => gopher.type = "GOPHER_CSO")
      BY <1>3, <2>6
    <3>2. /\ req' \in Request /\ req'.pc = p
          /\ req'.mode = req.mode /\ req'.address = req.address /\ req'.protocol = "gopher"
          /\ req'.frames = req.frames /\ req'.told = req.told
          /\ req'.socks \subseteq {"gopher"} /\ SameData(c.r, req')
      BY <2>1, <2>2, <3>1, GoesRequest DEF SameLoad, Place, MenuAt
    <3>3. Relays(req')
      BY <1>1, <3>2 DEF Relays
    <3>4. req'.mode = "proxy" => Untouched(req')
      BY <2>1, <2>3, <3>2 DEF SameLoad, SameData, Untouched
    <3>5. CASE p \in MenuAt
      <4>1. req'.mode = "proxy" => GopherData(req', gopher)
        BY <1>1, <3>1, <3>2, <3>4 DEF GopherData, Untouched
      <4> QED
        BY <1>1, <3>2, <3>3, <3>5, <4>1, MenuGoesOn
    <3>6. CASE p = "gopher_copy"
      <4>1. Spoken(req') /\ FewSocks(req', ftp) /\ Fresh(req', ftp, gopher)
        BY <3>2, <3>6 DEF Spoken, FewSocks, SocksAt, Fresh, HTTPAt, NewsAt, MenuAt
      <4>2. Dialogue(req', ftp) /\ ProxyData(req', ftp, gopher)
        BY <3>2, <3>4, <3>6 DEF Dialogue, ProxyData, UntouchedAt, MenuAt
      <4> QED
        BY <1>1, <3>2, <3>3, <4>1, <4>2 DEF Sound
    <3> QED
      BY <3>5, <3>6 DEF MenuAt
  <2> QED
    BY <2>1, <2>4, <2>5, <2>6
<1> QED
  BY <1>2, <1>3 DEF HTLoadGopher

\* A document of a Gopher server is passed on.
LEMMA GopherDocumentSound ==
    ASSUME LInv, GopherDocument
    PROVE  Sound(req', ftp, gopher)
<1>1. /\ req \in Request /\ ftp \in Connection /\ gopher \in GopherInfo /\ Relays(req)
      /\ req.pc = "gopher_copy" /\ req.protocol = "gopher" /\ req.socks \subseteq {"gopher"}
      /\ req.mode = "proxy" => Untouched(req)
  BY DEF LInv, Sound, GopherDocument, Spoken, FewSocks, SocksAt, ProxyData, UntouchedAt,
         HTTPAt, MenuAt, BackAt
<1>2. PICK d \in HTParseSocket(req) :
          \/ req' = GopherEnd(d.r, d.ok)
          \/ req' = Returned(Shut(d.r, {"gopher"}), "NO_STATUS")
  BY DEF GopherDocument
<1>3. /\ SameLoad(req, d.r) /\ d.r.socks = req.socks
      /\ d.ok \in BOOLEAN
      /\ d.ok => d.r.error_block /\ d.r.fed
      /\ ~d.ok => /\ d.r.fed = req.fed /\ d.r.ended = req.ended
                  /\ d.r.error_block => req.error_block
                  /\ d.r.errs # {}
  BY <1>1, ParsedSocket
<1>4. d.r \in Request /\ Relays(d.r) /\ d.r.protocol = "gopher"
  BY <1>1, <1>3 DEF SameLoad, Relays
<1>5. CASE req' = GopherEnd(d.r, d.ok)
  <2>1. Sound(GopherEnd(d.r, d.ok), ftp, gopher)
    BY <1>1, <1>3, <1>4, GopherEnds DEF SameLoad, Untouched
  <2> QED
    BY <1>5, <2>1
<1>6. CASE req' = Returned(Shut(d.r, {"gopher"}), "NO_STATUS")
  <2> DEFINE q == Shut(d.r, {"gopher"})
             p == [q EXCEPT !.ret = "NO_STATUS"]
  <2>1. SameLoad(d.r, q) /\ SameData(d.r, q) /\ q.socks = {}
    BY <1>1, <1>3, <1>4, ShutSocks
  <2>2. q \in Request /\ "NO_STATUS" \in Results
    BY <2>1 DEF SameLoad, Results
  <2> HIDE DEF q
  <2>3. /\ p.told = q.told /\ p.ret = "NO_STATUS" /\ p.fed = q.fed
        /\ p.error_block = q.error_block /\ p.ended = q.ended
    BY <2>2 DEF Request
  <2> HIDE DEF p
  <2>4. req.mode = "proxy" => Due(p, ftp, gopher)
    BY <1>1, <1>3, <2>1, <2>3 DEF Due, Explained, Clean, SameLoad, SameData, Untouched
  <2>5. Relays(q)
    BY <1>4, <2>1 DEF SameLoad, Relays
  <2>6. Returns(q, "NO_STATUS", ftp, gopher)
    BY <1>3, <2>1, <2>4, <2>5 DEF Returns, p, SameLoad
  <2>7. Sound(Returned(q, "NO_STATUS"), ftp, gopher)
    BY <1>1, <2>2, <2>6, ReturnedSound
  <2> QED
    BY <1>6, <2>7 DEF q
<1> QED
  BY <1>2, <1>5, <1>6

\* What holds while a menu or the answer of a phone book is read.
InMenu ==
    /\ req \in Request /\ ftp \in Connection /\ gopher \in GopherInfo /\ Relays(req)
    /\ req.pc \in MenuAt /\ req.protocol = "gopher" /\ req.socks \subseteq {"gopher"}
    /\ req.mode = "proxy" => GopherData(req, gopher)

\* The end of a menu: it was shown, or there is an error.
LEMMA MenuEndsSound ==
    ASSUME InMenu, NEW r, NEW g \in GopherInfo, NEW ok \in BOOLEAN, SameLoad(req, r), r.socks = req.socks,
           r.mode = "proxy" =>
              /\ ok => r.fed
              /\ ~r.fed => r.ended = 0 /\ ~r.error_block
              /\ r.fed => r.error_block
              /\ g.target => r.fed
    PROVE  Sound(MenuEnds(r, g, ok), ftp, gopher)
<1>1. r \in Request /\ Relays(r) /\ r.protocol = "gopher" /\ r.socks \subseteq {"gopher"}
  BY DEF InMenu, SameLoad, Relays
<1>2. r.mode = "proxy" => ~r.told
  BY DEF InMenu, SameLoad, GopherData
<1>3. CASE ~ok /\ ~g.files
  <2> DEFINE q == HTErrorAdd(r, "FATAL")
  <2>1. SameLoad(r, q) /\ SameData(r, q) /\ q.socks = r.socks
    BY <1>1, AddedError DEF Severities
  <2> HIDE DEF q
  <2>2. q \in Request /\ Relays(q)
    BY <1>1, <2>1 DEF SameLoad, Relays
  <2>3. Sound(GopherEnd(q, FALSE), ftp, gopher)
    BY <1>1, <1>2, <2>1, <2>2, GopherEnds DEF InMenu, SameLoad, SameData
  <2> QED
    BY <1>3, <2>3 DEF MenuEnds, q
<1>4. CASE ok \/ g.files
  <2>1. CASE g.target
    <3> DEFINE q == Freed(r)
    <3>1. /\ SameLoad(r, q) /\ q.socks = r.socks /\ q.fed = r.fed
          /\ q.error_block = r.error_block
      BY <1>1, FreedRequest
    <3> HIDE DEF q
    <3>2. q \in Request /\ Relays(q)
      BY <1>1, <3>1 DEF SameLoad, Relays
    <3>3. Sound(GopherEnd(q, ok), ftp, gopher)
      BY <1>1, <1>2, <2>1, <3>1, <3>2, GopherEnds DEF InMenu, SameLoad
    <3> QED
      BY <1>4, <2>1, <3>3 DEF MenuEnds, q
  <2>2. CASE ~g.target
    <3>1. Sound(GopherEnd(r, ok), ftp, gopher)
      BY <1>1, <1>2, GopherEnds DEF InMenu
    <3> QED
      BY <1>4, <2>2, <3>1 DEF MenuEnds
  <2> QED
    BY <2>1, <2>2
<1> QED
  BY <1>3, <1>4

\* The head of a list is fed once.
LEMMA HeadsFed ==
    ASSUME InMenu, NEW g \in GopherInfo, g.files = gopher.files
    PROVE  LET s == Heads(req, g) IN
           /\ SameLoad(req, s) /\ s.socks = req.socks
           /\ req.pc = "parse_menu" /\ req.mode = "proxy" => s.fed /\ s.error_block
<1>1. CASE g.files
  BY <1>1 DEF Heads, InMenu, SameLoad, GopherData
<1>2. CASE ~g.files
  BY <1>2, FedRequest DEF Heads, InMenu
<1> QED
  BY <1>1, <1>2

\* A line of a menu, or its end: the stream is put up when a line is shown.
LEMMA ParseMenuSound ==
    ASSUME LInv, InMenu, parse_menu
    PROVE  Sound(req', ftp, gopher')
<1>1. req.pc = "parse_menu" /\ req \in Request /\ gopher \in GopherInfo
  BY DEF parse_menu, InMenu
<1>2. SameLoad(req, req)
  BY <1>1 DEF SameLoad
<1>3. req.mode = "proxy" => /\ (gopher.files <=> req.fed) /\ (gopher.files <=> gopher.target)
                            /\ ~req.told
                            /\ ~req.fed => req.ended = 0 /\ ~req.error_block
                            /\ req.fed => req.error_block
  BY <1>1 DEF InMenu, GopherData
<1>4. CASE UNCHANGED <<req, gopher>>
  BY <1>4 DEF LInv
<1>5. CASE gopher' = [gopher EXCEPT !.message = TRUE] /\ UNCHANGED req
  <2>1. /\ gopher' \in GopherInfo
        /\ gopher'.files = gopher.files /\ gopher'.target = gopher.target
    BY <1>1, <1>5 DEF GopherInfo
  <2>2. req.mode = "proxy" => GopherData(req, gopher')
    BY <1>1, <1>3, <2>1 DEF GopherData
  <2>3. Sound(req, ftp, gopher')
    BY <2>1, <2>2, MenuGoesOn DEF InMenu
  <2> QED
    BY <1>5, <2>3
<1>6. CASE gopher' = [gopher EXCEPT !.files = TRUE, !.target = TRUE] /\ req' = Heads(req, gopher)
  <2>1. gopher' \in GopherInfo /\ gopher'.files /\ gopher'.target
    BY <1>1, <1>6 DEF GopherInfo
  <2>2. /\ SameLoad(req, req') /\ req'.socks = req.socks
        /\ req.mode = "proxy" => req'.fed /\ req'.error_block
    BY <1>1, <1>6, HeadsFed
  <2>3. req' \in Request /\ Relays(req')
    BY <2>2 DEF SameLoad, InMenu, Relays
  <2>4. req'.mode = "proxy" => GopherData(req', gopher')
    BY <1>1, <1>3, <2>1, <2>2 DEF GopherData, SameLoad
  <2> QED
    BY <2>1, <2>2, <2>3, <2>4, MenuGoesOn DEF InMenu, SameLoad
<1>7. Sound(MenuEnds(req, gopher, FALSE), ftp, gopher)
  BY <1>1, <1>2, <1>3, MenuEndsSound
<1>8. Sound(MenuEnds(Heads(req, gopher), [gopher EXCEPT !.target = TRUE], TRUE), ftp, gopher)
  <2> DEFINE g == [gopher EXCEPT !.target = TRUE]
             s == Heads(req, gopher)
  <2>1. /\ SameLoad(req, s) /\ s.socks = req.socks
        /\ req.mode = "proxy" => s.fed /\ s.error_block
    BY <1>1, HeadsFed
  <2>2. g \in GopherInfo
    BY <1>1 DEF GopherInfo
  <2> HIDE DEF g, s
  <2>3. Sound(MenuEnds(s, g, TRUE), ftp, gopher)
    BY <2>1, <2>2, MenuEndsSound DEF SameLoad
  <2> QED
    BY <2>3 DEF g, s
<1> QED
  BY <1>4, <1>5, <1>6, <1>7, <1>8 DEF parse_menu

\* The answer of a phone book comes to its end.
LEMMA CsoEndsSound ==
    ASSUME InMenu, NEW r, NEW g \in GopherInfo, NEW ok \in BOOLEAN, SameLoad(req, r), r.socks = req.socks,
           r.mode = "proxy" =>
              /\ g.type = "GOPHER_CSO" /\ (g.target <=> r.fed)
              /\ ~r.fed => r.ended = 0 /\ ~r.error_block
              /\ r.fed => r.error_block \/ ok
    PROVE  Sound(CsoEnds(r, g, ok), ftp, g)
<1>1. r \in Request /\ Relays(r) /\ r.protocol = "gopher" /\ r.socks \subseteq {"gopher"}
  BY DEF InMenu, SameLoad, Relays
<1>2. r.mode = "proxy" => ~r.told
  BY DEF InMenu, SameLoad, GopherData
<1>3. CASE g.target
  <2> DEFINE q == Freed(r)
  <2>1. /\ SameLoad(r, q) /\ q.socks = r.socks /\ q.fed = r.fed
        /\ q.error_block = r.error_block
    BY <1>1, FreedRequest
  <2> HIDE DEF q
  <2>2. q \in Request /\ Relays(q)
    BY <1>1, <2>1 DEF SameLoad, Relays
  <2>3. Sound(GopherEnd(q, ok), ftp, g)
    BY <1>1, <1>2, <1>3, <2>1, <2>2, GopherEnds DEF InMenu, SameLoad
  <2> QED
    BY <1>3, <2>3 DEF CsoEnds, q
<1>4. CASE ~g.target
  <2>1. Sound(GopherEnd(r, ok), ftp, g)
    BY <1>1, <1>2, <1>4, GopherEnds DEF InMenu
  <2> QED
    BY <1>4, <2>1 DEF CsoEnds
<1> QED
  BY <1>3, <1>4

\* A line of a phone book, or its end: the stream is put up with the first record.
LEMMA ParseCsoSound ==
    ASSUME LInv, InMenu, parse_cso
    PROVE  Sound(req', ftp, gopher')
<1> DEFINE up == [gopher EXCEPT !.target = TRUE]
           shown == Fed(StreamUp(req))
           failed == HTErrorAdd(req, "FATAL")
<1>1. req.pc = "parse_cso" /\ req \in Request /\ gopher \in GopherInfo
  BY DEF parse_cso, InMenu
<1>2. SameLoad(req, req)
  BY <1>1 DEF SameLoad
<1>3. req.mode = "proxy" => /\ (gopher.target <=> req.fed) /\ gopher.type = "GOPHER_CSO"
                            /\ ~req.told
                            /\ ~req.fed => req.ended = 0 /\ ~req.error_block
                            /\ req.fed => req.error_block
  BY <1>1 DEF InMenu, GopherData
<1>4. up \in GopherInfo /\ up.target /\ up.type = gopher.type
  BY <1>1 DEF GopherInfo
<1>5. SameLoad(req, shown) /\ shown.socks = req.socks /\ shown.fed /\ shown.error_block
  BY <1>1, FedRequest
<1>6. SameLoad(req, failed) /\ SameData(req, failed) /\ failed.socks = req.socks
  BY <1>1, AddedError DEF Severities
<1> HIDE DEF up, shown, failed
<1>7. CASE gopher' = up /\ req' = shown
  <2>1. shown \in Request /\ Relays(shown)
    BY <1>5 DEF SameLoad, InMenu, Relays
  <2>2. shown.mode = "proxy" => GopherData(shown, up)
    BY <1>1, <1>3, <1>4, <1>5 DEF GopherData, SameLoad
  <2>3. Sound(shown, ftp, up)
    BY <1>4, <1>5, <2>1, <2>2, MenuGoesOn DEF InMenu, SameLoad
  <2> QED
    BY <1>7, <2>3
<1>8. Sound(CsoEnds(req, gopher, TRUE), ftp, gopher)
  BY <1>1, <1>2, <1>3, CsoEndsSound
<1>9. Sound(CsoEnds(shown, up, TRUE), ftp, up)
  BY <1>3, <1>4, <1>5, CsoEndsSound DEF SameLoad
<1>10. Sound(CsoEnds(failed, gopher, FALSE), ftp, gopher)
  BY <1>1, <1>3, <1>6, CsoEndsSound DEF SameLoad, SameData
<1>11. Sound(CsoEnds(req, gopher, FALSE), ftp, gopher)
  BY <1>1, <1>2, <1>3, CsoEndsSound
<1>12. CASE gopher' = gopher /\ req' = req
  BY <1>12 DEF LInv
<1>13. CASE gopher' = gopher /\ req' = Goes(Shut(req, req.socks), "crashed")
  <2>1. SameLoad(req, Shut(req, req.socks)) /\ Shut(req, req.socks).socks = {}
    BY <1>1, ShutSocks
  <2>2. /\ req' \in Request /\ req'.pc = "crashed" /\ req'.mode = req.mode /\ req'.socks = {}
        /\ req'.frames = req.frames /\ req'.address = req.address
    BY <1>13, <2>1, GoesRequest DEF SameLoad, Place
  <2> QED
    BY <1>13, <2>2 DEF InMenu, Sound, Relays, Spoken, FewSocks, Fresh, Dialogue, ProxyData, HTTPAt,
                MenuAt, NewsAt, LocalAt, UntouchedAt
<1> QED
  BY <1>7, <1>8, <1>9, <1>10, <1>11, <1>12, <1>13 DEF parse_cso, up, shown, failed

\* All steps of HTLoadGopher are sound.
LEMMA GopherSound ==
    ASSUME LInv, GopherStep
    PROVE  LInv'
<1>1. SUFFICES Sound(req', ftp, gopher')
  BY DEF LInv, GopherStep
<1>2. CASE HTLoadGopher
  BY <1>2, HTLoadGopherSound DEF HTLoadGopher
<1>3. CASE GopherDocument
  BY <1>3, GopherDocumentSound DEF GopherDocument
<1>4. CASE parse_menu \/ parse_cso
  <2>1. req.pc \in MenuAt
    BY <1>4 DEF parse_menu, parse_cso, MenuAt
  <2>2. InMenu
    BY <2>1 DEF LInv, Sound, InMenu, Spoken, FewSocks, SocksAt, ProxyData, HTTPAt, MenuAt, BackAt
  <2> QED
    BY <1>4, <2>2, ParseMenuSound, ParseCsoSound
<1> QED
  BY <1>2, <1>3, <1>4 DEF GopherStep, GopherNext

-----------------------------------------------------------------------------
(* News                                                                    *)

InNews(r) ==
    /\ r \in Request /\ Relays(r) /\ r.pc \in NewsAt /\ r.protocol = "news" /\ r.socks = {}

\* HTLoadNews returns anything: nothing is promised to a client of news.
LEMMA NewsReturns ==
    ASSUME NEW r, InNews(r), NEW f \in Connection, NEW g \in GopherInfo, NEW v \in Results
    PROVE  Sound(Returned(r, v), f, g)
BY ReturnedSound DEF InNews, Returns

\* HTLoadNews goes on to another of its places.
LEMMA NewsGoesOn ==
    ASSUME NEW r, InNews(r), NEW f \in Connection, NEW g \in GopherInfo, NEW p \in NewsAt
    PROVE  Sound(Goes(r, p), f, g)
<1> DEFINE s == Goes(r, p)
<1>1. /\ s \in Request /\ s.pc = p
      /\ s.mode = r.mode /\ s.address = r.address /\ s.protocol = r.protocol
      /\ s.frames = r.frames /\ s.socks = r.socks
  BY GoesRequest DEF InNews, Place
<1> HIDE DEF s
<1>2. p \notin {"document", "ftp", "gopher", "gopher_copy", "crashed"}
                  \cup MenuAt \cup HTTPAt \cup LocalAt \cup BackAt
  BY DEF HTTPAt, MenuAt, NewsAt, LocalAt, BackAt
<1>3. Relays(s) /\ Spoken(s)
  BY <1>1, <1>2 DEF InNews, Relays, Spoken, LocalAt, BackAt, HTTPAt
<1>4. FewSocks(s, f) /\ Fresh(s, f, g) /\ Dialogue(s, f)
  BY <1>1, <1>2 DEF InNews, FewSocks, SocksAt, Fresh, Dialogue, LocalAt
<1>5. ProxyData(s, f, g)
  BY <1>1, <1>2 DEF ProxyData, UntouchedAt, BackAt
<1> QED
  BY <1>1, <1>3, <1>4, <1>5 DEF Sound, s

\* All steps of HTLoadNews are sound.
LEMMA NewsSound ==
    ASSUME LInv, NewsStep
    PROVE  LInv'
<1>1. SUFFICES Sound(req', ftp, gopher)
  BY DEF LInv, NewsStep
<1>2. req.pc \in NewsAt
  BY DEF NewsStep, NewsNext, HTLoadNews, NewsHostConnects, Status, read_article, read_group, NewsAt
<1>3. InNews(req) /\ ftp \in Connection /\ gopher \in GopherInfo
  BY <1>2 DEF LInv, Sound, InNews, Spoken, FewSocks, SocksAt, HTTPAt, MenuAt, NewsAt, BackAt
<1>4. ASSUME NEW r, r \in {req, StreamUp(req), Fed(req), Freed(req), Freed(Fed(req))}
      PROVE  InNews(r)
  <2>1. ASSUME NEW q, InNews(q)
        PROVE  InNews(StreamUp(q)) /\ InNews(Fed(q)) /\ InNews(Freed(q))
    <3>1. SameLoad(q, StreamUp(q)) /\ StreamUp(q).socks = q.socks
      BY <2>1 DEF InNews, StreamUp, Request, SameLoad
    <3>2. SameLoad(q, Fed(q)) /\ Fed(q).socks = q.socks
      BY <2>1 DEF InNews, Fed, Request, SameLoad
    <3>3. SameLoad(q, Freed(q)) /\ Freed(q).socks = q.socks
      BY <2>1, FreedRequest DEF InNews
    <3> QED
      BY <2>1, <3>1, <3>2, <3>3 DEF InNews, SameLoad, Relays
  <2> QED
    BY <1>3, <1>4, <2>1
<1>5. Sound(Failed(req), ftp, gopher)
  BY <1>3, FailedSound DEF InNews
<1>6. ASSUME NEW v \in Results, req' = Returned(req, v) PROVE Sound(req', ftp, gopher)
  BY <1>3, <1>6, NewsReturns
<1>7. "ERROR" \in Results /\ "LOADED" \in Results
  BY DEF Results
<1>8. Sound(NewsEnds(req), ftp, gopher) /\ Sound(NewsEnds(Fed(req)), ftp, gopher)
  BY <1>3, <1>4, <1>7, NewsReturns DEF NewsEnds
<1>9. ASSUME NEW p \in NewsAt
      PROVE  /\ Sound(Goes(req, p), ftp, gopher) /\ Sound(Goes(Fed(req), p), ftp, gopher)
             /\ Sound(Goes(StreamUp(req), p), ftp, gopher)
  BY <1>3, <1>4, NewsGoesOn
<1>10. CASE HTLoadNews
  BY <1>6, <1>7, <1>9, <1>10 DEF HTLoadNews, NewsAt
<1>11. CASE NewsHostConnects
  BY <1>5, <1>9, <1>11 DEF NewsHostConnects, NewsAt
<1>12. CASE Status
  BY <1>8, <1>9, <1>12 DEF Status, NewsAt
<1>13. CASE read_article
  BY <1>8, <1>13 DEF read_article
<1>14. CASE read_group
  <2>1. req' = req \/ req' = NewsEnds(req)
    BY <1>14 DEF read_group
  <2> QED
    BY <1>8, <2>1 DEF LInv
<1> QED
  BY <1>10, <1>11, <1>12, <1>13, <1>14 DEF NewsStep, NewsNext

-----------------------------------------------------------------------------
(* Local files, and the library itself                                     *)

\* A file is looked for by FTP instead.
LEMMA FileSound ==
    ASSUME LInv, FileStep
    PROVE  LInv'
<1>1. SUFFICES Sound(req', ftp, gopher)
  BY DEF LInv, FileStep
<1>2. req.pc \in LocalAt
  BY DEF FileStep, FileNext, HTLoadFile, HTLoadTelnet, LocalAt
<1>3. /\ req \in Request /\ ftp \in Connection /\ gopher \in GopherInfo /\ Relays(req)
      /\ req.socks = {} /\ (req.mode = "proxy" => Untouched(req))
      /\ req.pc = "file" => req.protocol = "file" /\ ftp.state = "FTP_BEGIN" /\ ftp.owed = <<>>
  BY <1>2 DEF LInv, Sound, Spoken, FewSocks, SocksAt, Fresh, ProxyData, UntouchedAt, HTTPAt,
              MenuAt, BackAt, LocalAt
<1>4. \A v \in {"ERROR", "LOADED", "NO_ACCESS", "NO_DATA"} : v \in Results
  BY DEF Results
<1>5. ASSUME NEW q, SameLoad(req, q), q.socks = {}, NEW v \in Results,
             q.mode = "proxy" =>
                /\ v # "NO_DATA"
                /\ v = "LOADED" => q.fed
                /\ v # "LOADED" => Clean(q, ftp)
                /\ v = "ERROR" => q.protocol = "file"
      PROVE  Sound(Returned(q, v), ftp, gopher)
  <2> DEFINE p == [q EXCEPT !.ret = v]
  <2>1. q \in Request /\ Relays(q)
    BY <1>3, <1>5 DEF SameLoad, Relays
  <2>2. /\ p.told = q.told /\ p.ret = v /\ p.errs = q.errs /\ p.protocol = q.protocol
        /\ p.error_block = q.error_block /\ p.fed = q.fed /\ p.ended = q.ended
    BY <2>1 DEF Request
  <2> HIDE DEF p
  <2>3. q.mode = "proxy" => Due(p, ftp, gopher)
    BY <1>3, <1>5, <2>2 DEF Due, Explained, Clean, SameLoad, Untouched
  <2> QED
    BY <1>3, <1>5, <2>1, <2>3, ReturnedSound DEF Returns, p
<1>6. SameLoad(req, req) /\ (req.mode = "proxy" => Clean(req, ftp))
  BY <1>3 DEF SameLoad, Untouched, Clean
<1> DEFINE failed == HTErrorAdd(req, "FATAL")
<1>7. SameLoad(req, failed) /\ SameData(req, failed) /\ failed.socks = {}
  BY <1>3, AddedError DEF Severities
<1>8. failed \in Request /\ (failed.mode = "proxy" => Clean(failed, ftp))
  BY <1>6, <1>7 DEF SameLoad, SameData, Clean
<1> HIDE DEF failed
<1>9. CASE HTLoadTelnet
  <2>1. \E v \in {"NO_ACCESS", "NO_DATA"} : req' = Returned(req, v) /\ (v = "NO_DATA" => req.mode = "client")
    BY <1>9 DEF HTLoadTelnet
  <2> QED
    BY <1>3, <1>4, <1>5, <1>6, <2>1
<1>10. CASE HTLoadFile
  <2>1. req.pc = "file" /\ req.protocol = "file"
    BY <1>3, <1>10 DEF HTLoadFile
  <2>2. Sound(Returned(req, "ERROR"), ftp, gopher) /\ Sound(Returned(failed, "ERROR"), ftp, gopher)
    BY <1>3, <1>4, <1>5, <1>6, <1>7, <1>8, <2>1 DEF SameLoad
  <2>3. Sound(Returned(Delivered(req), "LOADED"), ftp, gopher)
    BY <1>3, <1>4, <1>5, DeliveredRequest
  <2>4. ASSUME NEW d \in HTParseFile(req)
        PROVE  Sound(Returned(d.r, IF d.ok THEN "LOADED" ELSE "ERROR"), ftp, gopher)
    <3>1. /\ SameLoad(req, d.r) /\ d.r.socks = {}
          /\ d.ok \in BOOLEAN
          /\ d.ok => d.r.error_block /\ d.r.fed
          /\ ~d.ok => /\ d.r.fed = req.fed /\ d.r.ended = req.ended
                      /\ d.r.error_block => req.error_block
      BY <1>3, <2>4, ParsedSocket DEF HTParseFile
    <3>2. ~d.ok /\ d.r.mode = "proxy" => Clean(d.r, ftp) /\ d.r.protocol = "file"
      BY <1>3, <2>1, <3>1 DEF SameLoad, Clean, Untouched
    <3>3. CASE d.ok
      BY <1>4, <1>5, <3>1, <3>3
    <3>4. CASE ~d.ok
      BY <1>4, <1>5, <3>1, <3>2, <3>4
    <3> QED
      BY <3>1, <3>3, <3>4
  <2>5. ASSUME NEW q, SameLoad(req, q), q.socks = {}, q.mode = "client"
        PROVE  Sound(Goes(q, "ftp"), ftp, gopher)
    <3> DEFINE s == Goes(q, "ftp")
    <3>1. /\ s \in Request /\ s.pc = "ftp" /\ s.mode = "client" /\ s.socks = {}
      BY <2>5, GoesRequest DEF SameLoad, Place
    <3> HIDE DEF s
    <3>2. Relays(s) /\ Spoken(s) /\ FewSocks(s, ftp) /\ Fresh(s, ftp, gopher) /\ ProxyData(s, ftp, gopher)
      BY <3>1 DEF Relays, Spoken, FewSocks, Fresh, ProxyData, MenuAt, NewsAt, HTTPAt
    <3>3. Dialogue(s, ftp)
      <4>1. Len(ftp.owed) = 0
        BY <1>3, <2>1
      <4> QED
        BY <1>3, <2>1, <4>1 DEF Dialogue, InStep, Single
    <3> QED
      BY <1>3, <3>1, <3>2, <3>3 DEF Sound, s
  <2>6. ASSUME NEW q, q \in {req, failed}, req' \in TriesFTP(q)
        PROVE  Sound(req', ftp, gopher)
    <3> DEFINE again == HTErrorAdd(q, "FATAL")
    <3>1. SameLoad(req, q) /\ q \in Request /\ q.socks = {}
      BY <1>3, <1>6, <1>7, <1>8, <2>6
    <3>2. SameLoad(q, again) /\ again.socks = {}
      BY <3>1, AddedError DEF Severities
    <3> HIDE DEF again
    <3>3. SameLoad(req, again)
      BY <3>1, <3>2 DEF SameLoad
    <3>4. CASE req' = Returned(q, "ERROR")
      BY <2>2, <2>6, <3>4
    <3>5. CASE q.mode = "client" /\ req' = Goes(again, "ftp")
      BY <2>5, <3>1, <3>2, <3>3, <3>5 DEF SameLoad
    <3> QED
      BY <2>6, <3>4, <3>5 DEF TriesFTP, again
  <2> QED
    BY <1>10, <2>2, <2>3, <2>4, <2>6 DEF HTLoadFile, HTBrowseDirectory, failed
<1> QED
  BY <1>9, <1>10 DEF FileStep, FileNext

\* What holds of a request of which the library begins a load.
AtStart(r) ==
    /\ r \in Request /\ Relays(r) /\ r.socks = {}
    /\ r.mode = "proxy" => Untouched(r)

\* A protocol module is called.
LEMMA StartSound ==
    ASSUME NEW r, AtStart(r), NEW f \in Connection, NEW g \in GopherInfo, f.state = "FTP_BEGIN",
           f.owed = <<>>, ~g.target, ~g.files, NEW p \in protocols, NEW u \in BOOLEAN
    PROVE  Sound([r EXCEPT !.pc = p, !.protocol = p, !.using_proxy = u], f, g)
<1> DEFINE s == [r EXCEPT !.pc = p, !.protocol = p, !.using_proxy = u]
<1>1. p \in Place
  BY DEF protocols, Place, NewsAt, HTTPAt, LocalAt
<1>2. /\ s \in Request /\ s.pc = p /\ s.protocol = p
      /\ s.mode = r.mode /\ s.address = r.address /\ s.frames = r.frames /\ s.socks = {}
      /\ s.fed = r.fed /\ s.told = r.told /\ s.ended = r.ended /\ s.error_block = r.error_block
  BY <1>1 DEF AtStart, Request
<1> HIDE DEF s
<1>3. p \in {"ftp", "news", "gopher", "http", "file", "telnet", "tn3270", "rlogin"}
  BY DEF protocols
<1>4. Relays(s) /\ Spoken(s)
  BY <1>2, <1>3 DEF AtStart, Relays, Spoken, MenuAt, NewsAt
<1>5. FewSocks(s, f) /\ Fresh(s, f, g)
  BY <1>2 DEF FewSocks, Fresh
<1>6. s.mode = "proxy" => Untouched(s)
  BY <1>2 DEF AtStart, Untouched
<1>7. Len(f.owed) = 0
  OBVIOUS
<1>8. Dialogue(s, f)
  BY <1>7 DEF Dialogue, InStep, Single
<1>9. ProxyData(s, f, g)
  BY <1>2, <1>3, <1>6 DEF ProxyData, Untouched, FTPData, Clean, MenuAt
<1> QED
  BY <1>2, <1>4, <1>5, <1>8, <1>9 DEF Sound, s

\* HTLoad finds the protocol module, or fails.
LEMMA HTLoadSound ==
    ASSUME NEW r, AtStart(r), NEW f \in Connection, NEW g \in GopherInfo, f.state = "FTP_BEGIN",
           f.owed = <<>>, ~g.target, ~g.files, NEW route
    PROVE  Sound(HTLoad(r, route), f, g)
<1> DEFINE free == [HTErrorFree(r) EXCEPT !.error_block = FALSE]
           fresh == IF r.frames # <<>> THEN r ELSE free
           access == get_physical(r.address.access, route)
           proxied == ~route.override /\ route.proxy # "none"
<1>1. AtStart(free)
  BY DEF AtStart, HTErrorFree, Request, Relays, Untouched
<1>2. AtStart(fresh)
  BY <1>1
<1> HIDE DEF free, fresh, access
<1>3. fresh.mode = "proxy" => Clean(fresh, f)
  BY <1>2 DEF AtStart, Clean, Untouched
<1>4. Sound(Failed(fresh), f, g)
  BY <1>2, <1>3, FailedSound DEF AtStart
<1>5. Sound(Returned(fresh, "NO_ACCESS"), f, g)
  <2> DEFINE p == [fresh EXCEPT !.ret = "NO_ACCESS"]
  <2>1. fresh \in Request /\ "NO_ACCESS" \in Results
    BY <1>2 DEF AtStart, Results
  <2>2. /\ p.told = fresh.told /\ p.ret = "NO_ACCESS"
        /\ p.error_block = fresh.error_block /\ p.fed = fresh.fed /\ p.ended = fresh.ended
    BY <2>1 DEF Request
  <2> HIDE DEF p
  <2>3. fresh.mode = "proxy" => Due(p, f, g)
    BY <1>3, <2>2 DEF Due, Clean, Explained
  <2> QED
    BY <1>2, <2>1, <2>3, ReturnedSound DEF AtStart, Returns, p
<1>6. ASSUME access \in protocols
      PROVE  Sound([fresh EXCEPT !.pc = access, !.protocol = access, !.using_proxy = proxied], f, g)
  <2>1. proxied \in BOOLEAN
    OBVIOUS
  <2> HIDE DEF proxied
  <2> QED
    BY <1>2, <1>6, <2>1, StartSound
<1> QED
  BY <1>4, <1>5, <1>6, Zenon DEF HTLoad, fresh, free, access

\* A browser's load is answered from memory or its cache.
LEMMA BrowserAnswered ==
    ASSUME NEW r, r \in Request, Relays(r), r.socks = {}, r.mode # "proxy",
           NEW f \in Connection, NEW g \in GopherInfo
    PROVE  Sound([r EXCEPT !.ret = "LOADED", !.pc = "answered"], f, g)
<1> DEFINE s == [r EXCEPT !.ret = "LOADED", !.pc = "answered"]
<1>1. "answered" \in Place /\ "LOADED" \in Results
  BY DEF Place, BackAt, Results
<1>2. s \in Request /\ s.pc = "answered" /\ s.mode = r.mode /\ s.socks = {}
  BY <1>1 DEF Request
<1> HIDE DEF s
<1>3. Relays(s) /\ Spoken(s) /\ FewSocks(s, f) /\ Fresh(s, f, g) /\ Dialogue(s, f) /\ ProxyData(s, f, g)
  BY <1>2 DEF Relays, Spoken, FewSocks, Fresh, Dialogue, ProxyData, MenuAt, NewsAt, HTTPAt
<1> QED
  BY <1>2, <1>3 DEF Sound, s

\* HTLoadDocument answers from memory or the cache, or loads.
LEMMA HTLoadDocumentSound ==
    ASSUME LInv, HTLoadDocument
    PROVE  Sound(req', ftp, gopher)
<1>1. /\ req \in Request /\ ftp \in Connection /\ gopher \in GopherInfo /\ Relays(req)
      /\ req.socks = {} /\ (req.mode = "proxy" => Untouched(req))
      /\ ftp.state = "FTP_BEGIN" /\ ftp.owed = <<>> /\ ~gopher.target /\ ~gopher.files
  BY DEF HTLoadDocument, LInv, Sound, FewSocks, SocksAt, Fresh, ProxyData, UntouchedAt, HTTPAt,
         MenuAt, BackAt
<1>2. CASE req.address.memory /\ req' = [req EXCEPT !.ret = "LOADED", !.pc = "answered"]
  BY <1>1, <1>2, BrowserAnswered DEF Relays
<1>3. CASE req.address.cached /\ req' = [Delivered(req) EXCEPT !.ret = "LOADED", !.pc = "answered"]
  <2>1. SameLoad(req, Delivered(req)) /\ Delivered(req).socks = {}
    BY <1>1, DeliveredRequest
  <2>2. req.mode # "proxy"
    BY <1>1, <1>3 DEF Relays
  <2>3. Delivered(req) \in Request /\ Relays(Delivered(req)) /\ Delivered(req).mode # "proxy"
    BY <1>1, <2>1, <2>2 DEF SameLoad, Relays
  <2> QED
    BY <1>1, <1>3, <2>1, <2>3, BrowserAnswered
<1>4. ASSUME NEW route, NEW r, r \in {req} \cup
                (IF req.address.cached THEN {StreamUp(req), NoStream(req)} ELSE {}),
             req' = HTLoad(r, route)
      PROVE  Sound(req', ftp, gopher)
  <2>1. AtStart(r)
    <3>1. CASE r = req
      BY <1>1, <3>1 DEF AtStart
    <3>2. CASE r # req
      <4>1. req.mode # "proxy" /\ r \in {StreamUp(req), NoStream(req)}
        BY <1>1, <1>4, <3>2 DEF Relays
      <4>2. SameLoad(req, StreamUp(req)) /\ StreamUp(req).socks = {}
        BY <1>1 DEF StreamUp, Request, SameLoad
      <4>3. SameLoad(req, NoStream(req)) /\ NoStream(req).socks = {}
        BY <1>1, NoStreamRequest
      <4> QED
        BY <4>1, <4>2, <4>3 DEF AtStart, SameLoad, Relays
    <3> QED
      BY <3>1, <3>2
  <2> QED
    BY <1>1, <1>4, <2>1, HTLoadSound
<1> QED
  BY <1>2, <1>3, <1>4 DEF HTLoadDocument

\* The messages at the end of a load: a proxy tells of errors when nothing was fed.
LEMMA ReportSound ==
    ASSUME LInv, Report
    PROVE  Sound(req', ftp, gopher)
<1>1. /\ req \in Request /\ ftp \in Connection /\ gopher \in GopherInfo /\ Relays(req)
      /\ req.pc = "loaded" /\ (req.socks \subseteq IF req.mode = "proxy" THEN {} ELSE {"http"})
      /\ req.mode = "proxy" /\ req.protocol # "news" => Due(req, ftp, gopher)
  BY DEF Report, LInv, Sound, FewSocks, SocksAt, ProxyData, HTTPAt, MenuAt, BackAt
<1> DEFINE told == HTErrorMsg(req)
           loud == IF req.mode = "proxy" THEN req.ret \notin {"LOADED", "NO_DATA"}
                   ELSE req.errs # {}
<1>2. PICK r \in {req, told} : /\ req' = Goes(r, "answered")
                               /\ r = IF loud THEN told ELSE req
  BY DEF Report
<1>3. /\ told \in Request /\ told.mode = req.mode /\ told.address = req.address
      /\ told.protocol = req.protocol /\ told.frames = req.frames /\ told.ret = req.ret
      /\ told.errs = req.errs /\ told.socks = req.socks /\ told.fed = req.fed
      /\ req.mode = "proxy" => told.ended = req.ended + 1 /\ told.told = (req.told \/ ~req.error_block)
  <2>1. CASE req.mode = "client"
    BY <1>1, <2>1 DEF HTErrorMsg
  <2>2. CASE req.mode # "client"
    <3> DEFINE q == [req EXCEPT !.told = (@ \/ ~req.error_block)]
    <3>1. (req.told \/ ~req.error_block) \in BOOLEAN
      OBVIOUS
    <3>2. /\ q \in Request /\ q.mode = req.mode /\ q.address = req.address
          /\ q.protocol = req.protocol /\ q.frames = req.frames /\ q.ret = req.ret
          /\ q.errs = req.errs /\ q.socks = req.socks /\ q.fed = req.fed
          /\ q.ended = req.ended /\ q.told = (req.told \/ ~req.error_block)
      BY <1>1, <3>1 DEF Request
    <3> HIDE DEF q
    <3>3. told = Freed(q)
      BY <2>2 DEF HTErrorMsg, q
    <3> HIDE DEF told
    <3>4. /\ SameLoad(q, told) /\ told.errs = q.errs /\ told.socks = q.socks
          /\ told.fed = q.fed /\ told.ended = q.ended + 1
      BY <3>2, <3>3, FreedRequest
    <3>5. told.ret = q.ret
      BY <3>2, <3>3 DEF Freed, Request
    <3> QED
      BY <3>2, <3>4, <3>5 DEF SameLoad
  <2> QED
    BY <2>1, <2>2
<1> HIDE DEF told
<1>4. /\ r \in Request /\ r.mode = req.mode /\ r.address = req.address
      /\ r.protocol = req.protocol /\ r.frames = req.frames /\ r.ret = req.ret
      /\ r.errs = req.errs /\ r.socks = req.socks /\ r.fed = req.fed
  BY <1>1, <1>2, <1>3
<1>5. /\ req' \in Request /\ req'.pc = "answered" /\ req'.mode = req.mode
      /\ req'.address = req.address /\ req'.protocol = req.protocol /\ req'.frames = req.frames
      /\ req'.ret = req.ret /\ req'.errs = req.errs /\ req'.socks = req.socks /\ req'.fed = req.fed
      /\ req'.told = r.told /\ req'.ended = r.ended
  BY <1>2, <1>4, GoesRequest DEF Place, BackAt, SameData
<1>6. Relays(req') /\ Spoken(req') /\ FewSocks(req', ftp) /\ Fresh(req', ftp, gopher) /\ Dialogue(req', ftp)
  BY <1>1, <1>5 DEF Relays, Spoken, FewSocks, SocksAt, Fresh, Dialogue, MenuAt, NewsAt, HTTPAt, BackAt
<1>7. ASSUME req.mode = "proxy", req.protocol # "news"
      PROVE  Served(req', ftp, gopher)
  <2>1. Explained(req')
    BY <1>1, <1>5, <1>7 DEF Due, Explained
  <2>2. CASE req.ret = "LOADED"
    <3>1. r = req
      BY <1>2, <1>7, <2>2
    <3> QED
      BY <1>1, <1>5, <1>7, <2>1, <2>2, <3>1 DEF Due, Served, PhoneBook
  <2>3. CASE req.ret # "LOADED"
    <3>1. r = told
      BY <1>1, <1>2, <1>7, <2>3 DEF Due
    <3>2. Clean(req, ftp)
      BY <1>1, <1>7, <2>3 DEF Due
    <3>3. req'.told = (req.told \/ ~req.error_block) /\ req'.ended = req.ended + 1
      BY <1>3, <1>5, <1>7, <3>1
    <3>4. CASE req.fed
      BY <1>5, <2>1, <3>2, <3>3, <3>4 DEF Clean, Served
    <3>5. CASE ~req.fed
      <4>1. req.ended = 0 /\ ~req.error_block /\ req'.fed = req.fed
        BY <1>5, <3>2, <3>5 DEF Clean
      <4>2. ~req.told /\ req.ended + 1 = 1
        BY <3>2, <4>1 DEF Clean
      <4>3. req'.told /\ req'.ended = 1
        BY <3>3, <4>1, <4>2
      <4> QED
        BY <2>1, <3>5, <4>1, <4>3 DEF Served
    <3> QED
      BY <3>4, <3>5
  <2> QED
    BY <2>2, <2>3
<1>8. ProxyData(req', ftp, gopher)
  BY <1>5, <1>7 DEF ProxyData, UntouchedAt, MenuAt, HTTPAt, LocalAt
<1> QED
  BY <1>1, <1>5, <1>6, <1>8 DEF Sound

\* HTLoadDocument returns, to the application or to the load that was redirected.
LEMMA AnswerSound ==
    ASSUME LInv, Answer
    PROVE  Sound(req', ftp, gopher)
<1>1. /\ req \in Request /\ ftp \in Connection /\ gopher \in GopherInfo /\ Relays(req)
      /\ req.pc = "answered" /\ (req.socks \subseteq IF req.mode = "proxy" THEN {} ELSE {"http"})
      /\ req.mode = "proxy" /\ req.protocol # "news" => Served(req, ftp, gopher)
  BY DEF Answer, LInv, Sound, FewSocks, SocksAt, ProxyData, HTTPAt, MenuAt, BackAt
<1>2. CASE req.frames = <<>>
  <2>1. req' = Goes(req, "done")
    BY <1>2 DEF Answer
  <2>2. /\ req' \in Request /\ req'.pc = "done"
        /\ req'.mode = req.mode /\ req'.address = req.address /\ req'.protocol = req.protocol
        /\ req'.frames = req.frames /\ req'.told = req.told /\ req'.ret = req.ret
        /\ req'.errs = req.errs /\ req'.socks = req.socks /\ SameData(req, req')
    BY <1>1, <2>1, GoesRequest DEF Place, BackAt
  <2>3. Relays(req') /\ Spoken(req') /\ FewSocks(req', ftp) /\ Fresh(req', ftp, gopher) /\ Dialogue(req', ftp)
    BY <1>1, <2>2 DEF Relays, Spoken, FewSocks, SocksAt, Fresh, Dialogue, MenuAt, NewsAt, HTTPAt, BackAt
  <2>4. ProxyData(req', ftp, gopher)
    BY <1>1, <2>2 DEF ProxyData, Served, PhoneBook, Explained, SameData, UntouchedAt, MenuAt, HTTPAt, LocalAt
  <2> QED
    BY <1>1, <2>2, <2>3, <2>4 DEF Sound
<1>3. CASE req.frames # <<>>
  <2> DEFINE back == [req EXCEPT !.frames = Tail(@)]
  <2>1. PICK v \in {"LOADED", "ERROR"} : req' = Returned(back, v)
    BY <1>3 DEF Answer
  <2>2. Tail(req.frames) \in Seq({"redirect", "auth"})
    BY <1>1, <1>3 DEF Request
  <2>3. req.mode # "proxy"
    BY <1>1, <1>3 DEF Relays
  <2>4. back \in Request /\ back.mode = req.mode /\ back.socks = req.socks
    BY <1>1, <2>2 DEF Request
  <2> HIDE DEF back
  <2>5. Returns(back, v, ftp, gopher) /\ v \in Results
    BY <1>1, <2>3, <2>4 DEF Returns, Relays, Results
  <2> QED
    BY <1>1, <2>1, <2>4, <2>5, ReturnedSound
<1> QED
  BY <1>2, <1>3

\* All steps of HTAccess.c are sound.
LEMMA LoadSound ==
    ASSUME LInv, LoadStep
    PROVE  LInv'
BY HTLoadDocumentSound, ReportSound, AnswerSound DEF LoadStep, LoadNext, LInv

-----------------------------------------------------------------------------
(* FTP                                                                     *)

\* The two records of a step.
Both == [r : Request, f : Connection]

\* What holds at any time in the dialogue.
InFTP(x) ==
    /\ x \in Both /\ x.r.pc = "ftp" /\ Relays(x.r)
    /\ x.r.socks \subseteq {"ctrl", "data"}
    /\ x.r.mode = "proxy" => Clean(x.r, x.f)

\* All replies were read; and a command may be sent that starts no second transfer.
Quiet(x) == InFTP(x) /\ x.f.owed = <<>>
Ready(x) == Quiet(x) /\ (x.r.mode = "proxy" /\ x.r.fed => x.f.retry = 1)

\* All outcomes are sound.
AllSound(Y, g) == \A y \in Y : Sound(y.r, y.f, g)

\* FTP_ERROR closes both connections, whatever the server still owes.
LEMMA ErrorSound ==
    ASSUME NEW x, InFTP(x), NEW g \in GopherInfo
    PROVE  AllSound(Error(x), g)
<1> DEFINE q == Shut(x.r, {"ctrl", "data"})
           y == [x EXCEPT !.r = Failed(q)]
<1>1. x \in Both /\ x.r \in Request /\ x.f \in Connection
  BY DEF InFTP, Both
<1>2. SameLoad(x.r, q) /\ SameData(x.r, q) /\ q.socks = {}
  BY <1>1, ShutSocks DEF InFTP
<1> HIDE DEF q
<1>3. q \in Request /\ Relays(q) /\ (q.mode = "proxy" => Clean(q, x.f))
  BY <1>2 DEF InFTP, SameLoad, SameData, Relays, Clean
<1>4. Sound(Failed(q), x.f, g)
  BY <1>1, <1>2, <1>3, FailedSound
<1>5. y.r = Failed(q) /\ y.f = x.f
  BY <1>1 DEF Both
<1> QED
  BY <1>4, <1>5 DEF AllSound, Error, q

\* What a server may owe for one command.
LEMMA RepliesShape ==
    ASSUME NEW cmd \in Sent, NEW codes \in Replies(cmd) \cup {<<>>}
    PROVE  LET s == [i \in DOMAIN codes |-> [to |-> cmd, code |-> codes[i]]] IN
           /\ s \in Seq([to : Sent, code : Nat]) /\ Len(s) <= 2
           /\ \A i \in 1 .. Len(s) : s[i].to = cmd
           /\ Len(s) = 2 => cmd \in Transfers /\ s[1].code \in Started
<1> DEFINE s == [i \in DOMAIN codes |-> [to |-> cmd, code |-> codes[i]]]
<1> DEFINE Shape == /\ s \in Seq([to : Sent, code : Nat]) /\ Len(s) <= 2
                    /\ \A i \in 1 .. Len(s) : s[i].to = cmd
                    /\ Len(s) = 2 => cmd \in Transfers /\ s[1].code \in Started
<1>1. ASSUME codes = <<>>
      PROVE  Shape
  <2>1. s = <<>>
    BY <1>1
  <2> QED
    BY <2>1
<1>2. ASSUME NEW code \in Reply(cmd), codes = <<code>>
      PROVE  Shape
  <2>1. code \in Nat
    BY DEF Reply, Started
  <2>2. DOMAIN codes = 1 .. 1
    BY <1>2
  <2>3. s \in Seq([to : Sent, code : Nat]) /\ Len(s) = 1 /\ s[1].to = cmd
    BY <1>2, <2>1, <2>2
  <2> HIDE DEF s
  <2> QED
    BY <2>3
<1>3. ASSUME cmd \in Transfers, NEW start \in Started, NEW end \in {226, 425, 426},
             codes = <<start, end>>
      PROVE  Shape
  <2>1. start \in Nat /\ end \in Nat
    BY DEF Started
  <2>2. DOMAIN codes = 1 .. 2
    BY <1>3
  <2>3. /\ s \in Seq([to : Sent, code : Nat]) /\ Len(s) = 2 /\ s[1].to = cmd /\ s[2].to = cmd
        /\ s[1].code \in Started
    BY <1>3, <2>1, <2>2
  <2>4. \A i \in 1 .. 2 : i = 1 \/ i = 2
    OBVIOUS
  <2> HIDE DEF s
  <2> QED
    BY <1>3, <2>3, <2>4
<1>4. codes = <<>> \/ (\E code \in Reply(cmd) : codes = <<code>>)
        \/ (cmd \in Transfers /\ \E start \in Started, end \in {226, 425, 426} : codes = <<start, end>>)
  BY DEF Replies
<1> HIDE DEF Shape, s
<1>5. Shape
  <2>1. CASE \E code \in Reply(cmd) : codes = <<code>>
    <3>1. PICK code \in Reply(cmd) : codes = <<code>>
      BY <2>1
    <3> QED
      BY <1>2, <3>1
  <2>2. CASE cmd \in Transfers /\ \E start \in Started, end \in {226, 425, 426} : codes = <<start, end>>
    <3>1. PICK start \in Started, end \in {226, 425, 426} : codes = <<start, end>>
      BY <2>2
    <3> QED
      BY <1>3, <2>2, <3>1
  <2> QED
    BY <1>1, <1>4, <2>1, <2>2
<1> USE DEF s
<1> QED
  BY <1>5 DEF Shape

\* A wait y for the replies s to the command that x sends.
Owing(x, cmd, state, y) ==
    \E s \in Seq([to : Sent, code : Nat]) :
        /\ Len(s) <= 2
        /\ \A i \in 1 .. Len(s) : s[i].to = cmd
        /\ Len(s) = 2 => cmd \in Transfers /\ s[1].code \in Started
        /\ y \in Both /\ y.r = x.r
        /\ y.f \in Connection /\ y.f.state = state /\ y.f.owed = x.f.owed \o s
        /\ y.f.retry = x.f.retry /\ y.f.handle_ctrl = x.f.handle_ctrl

\* The state of the connection when a command has been sent.
LEMMA Waiting ==
    ASSUME NEW x, x \in Both, NEW state \in States, NEW cmd \in Sent, NEW y \in Expects(x, cmd, state)
    PROVE  Owing(x, cmd, state, y)
<1>1. PICK codes \in Replies(cmd) \cup {<<>>} :
          y = [x EXCEPT !.f.state = state,
                        !.f.owed = @ \o [i \in DOMAIN codes |-> [to |-> cmd, code |-> codes[i]]]]
  BY DEF Expects
<1> DEFINE s == [i \in DOMAIN codes |-> [to |-> cmd, code |-> codes[i]]]
<1>2. /\ s \in Seq([to : Sent, code : Nat]) /\ Len(s) <= 2
      /\ \A i \in 1 .. Len(s) : s[i].to = cmd
      /\ Len(s) = 2 => cmd \in Transfers /\ s[1].code \in Started
  BY RepliesShape
<1> HIDE DEF s
<1>3. y = [x EXCEPT !.f.state = state, !.f.owed = @ \o s]
  BY <1>1 DEF s
<1>4. y.r = x.r /\ y.f = [x.f EXCEPT !.state = state, !.owed = @ \o s]
  BY <1>3 DEF Both
<1>5. x.f \in Connection
  BY DEF Both
<1>6. x.f.owed \o s \in Seq([to : Sent, code : Nat])
  BY <1>2, <1>5 DEF Connection
<1>7. /\ y.f \in Connection /\ y.f.state = state /\ y.f.owed = x.f.owed \o s
      /\ y.f.retry = x.f.retry /\ y.f.handle_ctrl = x.f.handle_ctrl
  BY <1>4, <1>5, <1>6 DEF Connection
<1>8. y \in Both
  BY <1>3, <1>4, <1>7 DEF Both
<1> QED
  BY <1>2, <1>4, <1>7, <1>8 DEF Owing

\* A place in the dialogue.
LEMMA DialogueSound ==
    ASSUME NEW x, InFTP(x), NEW g \in GopherInfo, InStep(x.f), x.f.state # "FTP_BEGIN",
           x.f.state = "SENT_QUIT" => x.r.socks \subseteq {"ctrl"},
           x.r.mode = "proxy" => FTPData(x.r, x.f)
    PROVE  Sound(x.r, x.f, g)
<1>1. x.r \in Request /\ x.f \in Connection /\ x.r.pc = "ftp" /\ Relays(x.r)
  BY DEF InFTP, Both
<1>2. Spoken(x.r) /\ FewSocks(x.r, x.f) /\ Fresh(x.r, x.f, g)
  BY <1>1 DEF InFTP, Spoken, FewSocks, SocksAt, Fresh, MenuAt, NewsAt, HTTPAt
<1>3. Dialogue(x.r, x.f) /\ ProxyData(x.r, x.f, g)
  BY <1>1 DEF Dialogue, ProxyData, UntouchedAt, MenuAt, HTTPAt, LocalAt
<1> QED
  BY <1>1, <1>2, <1>3 DEF Sound

\* A command is sent where nothing is owed.
LEMMA ExpectsSound ==
    ASSUME NEW x, Ready(x), NEW g \in GopherInfo, NEW cmd \in Sent, NEW state \in States,
           <<state, cmd>> \in Commands, state \notin {"FTP_BEGIN", "SENT_QUIT", "GOT_DATA"},
           cmd \in Transfers => state \in {"SENT_LIST", "SENT_RETR"},
           x.r.mode = "proxy" /\ state \in EarlyStates => ~x.r.fed
    PROVE  AllSound(Expects(x, cmd, state), g)
<1>1. SUFFICES ASSUME NEW y \in Expects(x, cmd, state) PROVE Sound(y.r, y.f, g)
  BY DEF AllSound
<1>2. x \in Both /\ x.f \in Connection /\ x.f.owed = <<>> /\ InFTP(x)
  BY DEF Ready, Quiet, InFTP, Both
<1>3. PICK s \in Seq([to : Sent, code : Nat]) :
          /\ Len(s) <= 2
          /\ \A i \in 1 .. Len(s) : s[i].to = cmd
          /\ Len(s) = 2 => cmd \in Transfers /\ s[1].code \in Started
          /\ y \in Both /\ y.r = x.r
          /\ y.f \in Connection /\ y.f.state = state /\ y.f.owed = x.f.owed \o s
          /\ y.f.retry = x.f.retry /\ y.f.handle_ctrl = x.f.handle_ctrl
  <2>1. Owing(x, cmd, state, y)
    BY <1>2, Waiting
  <2> QED
    BY <2>1 DEF Owing
<1>4. y.f.owed = s
  BY <1>2, <1>3
<1>5. InFTP(y)
  BY <1>2, <1>3 DEF InFTP, Clean
<1>6. Len(s) \in Nat /\ (s # <<>> => s[1].to = cmd) /\ (Len(s) = 2 => s[2].to = cmd)
  BY <1>3
<1>7. s # <<>> => Next1(y.f) \in Commands
  BY <1>3, <1>4, <1>6 DEF Next1
<1>8. Double(y.f) /\ (cmd \notin Transfers => Single(y.f))
  BY <1>3, <1>4, <1>6, <1>7 DEF Double, Single
<1>9. InStep(y.f)
  BY <1>3, <1>8 DEF InStep
<1>10. y.r.mode = "proxy" => FTPData(y.r, y.f)
  BY <1>3, <1>5 DEF Ready, InFTP, FTPData
<1>11. y.f.state \notin {"FTP_BEGIN", "SENT_QUIT"}
  BY <1>3
<1> QED
  BY <1>5, <1>9, <1>10, <1>11, DialogueSound

\* HTFTP_send_cmd may also fail to write the command.
LEMMA SendSound ==
    ASSUME NEW x, Ready(x), NEW g \in GopherInfo, NEW cmd \in Sent, NEW state \in States,
           <<state, cmd>> \in Commands, state \notin {"FTP_BEGIN", "SENT_QUIT", "GOT_DATA"},
           cmd \in Transfers => state \in {"SENT_LIST", "SENT_RETR"},
           x.r.mode = "proxy" /\ state \in EarlyStates => ~x.r.fed
    PROVE  AllSound(HTFTP_send_cmd(x, cmd, state), g)
<1>1. AllSound(Expects(x, cmd, state), g)
  BY ExpectsSound
<1>2. AllSound(Error(x), g)
  BY ErrorSound DEF Ready, Quiet
<1> QED
  BY <1>1, <1>2 DEF HTFTP_send_cmd, AllSound

\* The data have arrived: the data connection is closed, and HTFTP_logout.
LEMMA GotDataSound ==
    ASSUME NEW x, InFTP(x), NEW g \in GopherInfo,
           x.f.owed # <<>> => x.f.handle_ctrl /\ x.f.owed[1].to \in Transfers,
           x.r.mode = "proxy" => x.r.fed
    PROVE  AllSound(GotData(x), g)
<1> DEFINE z == [x EXCEPT !.r = Shut(@, {"data"})]
<1>1. x \in Both /\ x.r \in Request /\ x.f \in Connection
  BY DEF InFTP, Both
<1>2. /\ SameLoad(x.r, Shut(x.r, {"data"})) /\ SameData(x.r, Shut(x.r, {"data"}))
      /\ Shut(x.r, {"data"}).socks \subseteq {"ctrl"} /\ Shut(x.r, {"data"}) \in Request
  BY <1>1, ShutSocks DEF InFTP, SameLoad
<1>3. z \in Both /\ z.r = Shut(x.r, {"data"}) /\ z.f = x.f
  BY <1>1, <1>2 DEF Both
<1> HIDE DEF z
<1>4. InFTP(z) /\ z.r.socks \subseteq {"ctrl"} /\ (z.r.mode = "proxy" => z.r.fed)
  BY <1>2, <1>3 DEF InFTP, SameLoad, SameData, Relays, Clean
<1>5. AllSound(Error(z), g)
  BY <1>4, ErrorSound
<1>6. ASSUME NEW y \in Expects(z, "QUIT", "SENT_QUIT")
      PROVE  Sound(y.r, y.f, g)
  <2>1. "QUIT" \in Sent /\ "SENT_QUIT" \in States /\ "QUIT" \notin Transfers
    BY DEF Sent, States, Transfers
  <2>2. Owing(z, "QUIT", "SENT_QUIT", y)
    BY <1>3, <1>6, <2>1, Waiting
  <2>3. PICK s \in Seq([to : Sent, code : Nat]) :
            /\ Len(s) <= 2
            /\ \A i \in 1 .. Len(s) : s[i].to = "QUIT"
            /\ y \in Both /\ y.r = z.r
            /\ y.f \in Connection /\ y.f.state = "SENT_QUIT" /\ y.f.owed = z.f.owed \o s
            /\ y.f.retry = z.f.retry /\ y.f.handle_ctrl = z.f.handle_ctrl
    BY <2>2 DEF Owing
  <2>4. z.f.owed \in Seq([to : Sent, code : Nat])
    BY <1>1, <1>3 DEF Connection
  <2>7. y.f.owed # <<>> =>
            Next1(y.f) \in Commands \/ (y.f.handle_ctrl /\ y.f.owed[1].to \in Transfers)
    <3>1. CASE z.f.owed = <<>>
      <4>1. y.f.owed = s
        BY <2>3, <3>1
      <4>2. y.f.owed # <<>> => y.f.owed[1].to = "QUIT"
        BY <2>3, <4>1
      <4> QED
        BY <2>3, <4>2 DEF Next1, Commands
    <3>2. CASE z.f.owed # <<>>
      <4>1. y.f.owed[1] = z.f.owed[1]
        BY <2>3, <2>4, <3>2
      <4> QED
        BY <1>3, <2>3, <3>2, <4>1
    <3> QED
      BY <3>1, <3>2
  <2>8. InStep(y.f)
    BY <2>3, <2>7 DEF InStep
  <2>9. InFTP(y) /\ y.r.socks \subseteq {"ctrl"}
    BY <1>4, <2>3 DEF InFTP, Clean
  <2>10. y.r.mode = "proxy" => FTPData(y.r, y.f)
    BY <1>4, <2>3, <2>9 DEF InFTP, FTPData, EarlyStates
  <2> QED
    BY <2>3, <2>8, <2>9, <2>10, DialogueSound
<1> QED
  BY <1>5, <1>6 DEF GotData, HTFTP_send_cmd, AllSound, z

\* HTFTP_get_dir, HTFTPServerInfo, HTFTP_get_file and the way to a directory.
LEMMA CommandsSound ==
    ASSUME NEW x, Ready(x), NEW g \in GopherInfo
    PROVE  /\ AllSound(NeedList(x), g) /\ AllSound(HTFTP_get_dir(x), g)
           /\ AllSound(HTFTPServerInfo(x), g) /\ AllSound(HTFTP_get_file(x), g)
           /\ AllSound(MULTIPLE_CWD(x), g)
           /\ AllSound(HTFTP_send_cmd(x, "PWD", "SENT_PWD"), g)
<1>1. "LIST" \in Sent /\ "SENT_LIST" \in States \ EarlyStates /\ <<"SENT_LIST", "LIST">> \in Commands
  BY DEF Sent, States, EarlyStates, Commands, Transfers
<1>2. "RETR" \in Sent /\ "SENT_RETR" \in States \ EarlyStates /\ <<"SENT_RETR", "RETR">> \in Commands
  BY DEF Sent, States, EarlyStates, Commands, Transfers
<1>3. /\ "CWD" \in Sent /\ {"SENT_CWD", "SENT_CWDS"} \subseteq States \ EarlyStates
      /\ <<"SENT_CWD", "CWD">> \in Commands /\ <<"SENT_CWDS", "CWD">> \in Commands
  BY DEF Sent, States, EarlyStates, Commands
<1>4. /\ {"SYST", "PWD"} \subseteq Sent /\ {"SENT_SYST", "SENT_PWD"} \subseteq States \ EarlyStates
      /\ <<"SENT_SYST", "SYST">> \in Commands /\ <<"SENT_PWD", "PWD">> \in Commands
  BY DEF Sent, States, EarlyStates, Commands
<1>5. {"CWD", "SYST", "PWD"} \cap Transfers = {}
  BY DEF Transfers
<1>6. AllSound(NeedList(x), g)
  BY <1>1, SendSound DEF NeedList
<1>7. AllSound(HTFTP_get_file(x), g)
  BY <1>2, SendSound DEF HTFTP_get_file
<1>8. AllSound(HTFTP_send_cmd(x, "CWD", "SENT_CWD"), g) /\ AllSound(MULTIPLE_CWD(x), g)
  BY <1>3, <1>5, SendSound DEF MULTIPLE_CWD
<1>9. AllSound(HTFTPServerInfo(x), g) /\ AllSound(HTFTP_send_cmd(x, "PWD", "SENT_PWD"), g)
  BY <1>4, <1>5, SendSound DEF HTFTPServerInfo
<1> QED
  BY <1>6, <1>7, <1>8, <1>9 DEF HTFTP_get_dir

\* The document is asked for: of a proxy, when nothing was fed or a second time.
LEMMA AsksSound ==
    ASSUME NEW x, Quiet(x), NEW g \in GopherInfo, NEW retry \in 0 .. 1,
           x.r.mode = "proxy" /\ x.r.fed => retry = 1
    PROVE  AllSound(Asks(x, retry), g)
<1> DEFINE y == [x EXCEPT !.f.retry = retry, !.f.multiple = FALSE, !.f.handle_ctrl = FALSE]
<1>1. x \in Both /\ x.f \in Connection /\ InFTP(x) /\ x.f.owed = <<>>
  BY DEF Ready, Quiet, InFTP, Both
<1> DEFINE h == [x.f EXCEPT !.retry = retry, !.multiple = FALSE, !.handle_ctrl = FALSE]
<1>2. h \in Connection /\ h.owed = <<>> /\ h.retry = retry
  BY <1>1 DEF Connection
<1>3. y.r = x.r /\ y.f = h
  BY <1>1 DEF Both
<1>4. y \in Both
  BY <1>1, <1>2, <1>3 DEF Both
<1> HIDE DEF y
<1>5. Ready(y)
  BY <1>1, <1>2, <1>3, <1>4 DEF Ready, Quiet, InFTP, Clean
<1> QED
  BY <1>5, CommandsSound DEF Asks, y

\* A transfer is tried once more, or fails.
LEMMA FailureSound ==
    ASSUME NEW x, Quiet(x), NEW g \in GopherInfo
    PROVE  AllSound(Failure(x), g)
BY AsksSound, ErrorSound DEF Failure, Quiet

\* A socket that listens, and PORT.
LEMMA ListensSound ==
    ASSUME NEW x, Ready(x), NEW g \in GopherInfo, NEW state \in {"SENT_PORT", "SWITCH_TO_PORT"},
           x.r.mode = "proxy" /\ state = "SENT_PORT" => ~x.r.fed
    PROVE  AllSound(Listens(x, state), g)
<1> DEFINE z == [x EXCEPT !.r = Opened(@, "data")]
<1>1. x \in Both /\ x.r \in Request /\ x.f \in Connection /\ InFTP(x) /\ x.f.owed = <<>>
  BY DEF Ready, Quiet, InFTP, Both
<1>2. /\ SameLoad(x.r, Opened(x.r, "data")) /\ SameData(x.r, Opened(x.r, "data"))
      /\ Opened(x.r, "data").socks = x.r.socks \cup {"data"} /\ Opened(x.r, "data") \in Request
  BY <1>1 DEF Opened, Request, SameLoad, SameData
<1>3. z \in Both /\ z.r = Opened(x.r, "data") /\ z.f = x.f
  BY <1>1, <1>2 DEF Both
<1> HIDE DEF z
<1>4. Ready(z) /\ z.r.mode = x.r.mode /\ z.r.fed = x.r.fed
  BY <1>1, <1>2, <1>3 DEF Ready, Quiet, InFTP, SameLoad, SameData, Relays, Clean
<1>5. /\ "PORT" \in Sent /\ state \in States /\ <<state, "PORT">> \in Commands
      /\ "PORT" \notin Transfers /\ (state \in EarlyStates => state = "SENT_PORT")
  BY DEF Sent, States, Commands, Transfers, EarlyStates
<1>6. AllSound(HTFTP_send_cmd(z, "PORT", state), g)
  BY <1>4, <1>5, SendSound
<1>7. AllSound(Error(x), g)
  BY <1>1, ErrorSound
<1> QED
  BY <1>6, <1>7 DEF Listens, AllSound, z

\* HTFTP_get_data_con.
LEMMA DataConSound ==
    ASSUME NEW x, Ready(x), NEW g \in GopherInfo, x.r.mode = "proxy" => ~x.r.fed
    PROVE  AllSound(HTFTP_get_data_con(x), g) /\ AllSound(HTFTP_send_cmd(x, "PASV", "SENT_PASV"), g)
<1>1. /\ {"TYPE", "PASV"} \subseteq Sent /\ {"SENT_TYPE", "SENT_PASV"} \subseteq States
      /\ <<"SENT_TYPE", "TYPE">> \in Commands /\ <<"SENT_PASV", "PASV">> \in Commands
      /\ {"TYPE", "PASV"} \cap Transfers = {}
  BY DEF Sent, States, Commands, Transfers
<1>2. AllSound(HTFTP_send_cmd(x, "TYPE", "SENT_TYPE"), g)
  BY <1>1, SendSound
<1>3. AllSound(HTFTP_send_cmd(x, "PASV", "SENT_PASV"), g)
  BY <1>1, SendSound
<1> QED
  BY <1>2, <1>3 DEF HTFTP_get_data_con

\* The data connection that PASV has offered is made, or a port of ours is offered.
LEMMA ActiveSound ==
    ASSUME NEW x, Ready(x), NEW g \in GopherInfo, x.r.mode = "proxy" => ~x.r.fed
    PROVE  AllSound(NEED_ACTIVE(x), g) /\ AllSound(NEED_PASSIVE(x), g)
<1>1. x \in Both /\ x.r \in Request /\ x.f \in Connection /\ InFTP(x) /\ x.f.owed = <<>>
  BY DEF Ready, Quiet, InFTP, Both
<1>2. AllSound(NEED_PASSIVE(x), g)
  BY ListensSound DEF NEED_PASSIVE
<1>3. ASSUME NEW c \in HTDoConnect(x.r, "data")
      PROVE  AllSound(IF c.ok THEN Asks([x EXCEPT !.r = c.r], 0)
                      ELSE NEED_PASSIVE([x EXCEPT !.r = HTErrorFree(c.r)]), g)
  <2>1. /\ SameLoad(x.r, c.r) /\ SameData(x.r, c.r) /\ c.ok \in BOOLEAN
        /\ c.r.socks \subseteq x.r.socks \cup {"data"}
    BY <1>1, Connected
  <2>2. ASSUME NEW q \in Request, SameLoad(x.r, q), SameData(x.r, q),
               q.socks \subseteq x.r.socks \cup {"data"}
        PROVE  LET z == [x EXCEPT !.r = q] IN
               Ready(z) /\ z.r.mode = x.r.mode /\ z.r.fed = x.r.fed
    <3> DEFINE z == [x EXCEPT !.r = q]
    <3>1. z \in Both /\ z.r = q /\ z.f = x.f
      BY <1>1 DEF Both
    <3> HIDE DEF z
    <3>2. Ready(z) /\ z.r.mode = x.r.mode /\ z.r.fed = x.r.fed
      BY <1>1, <2>2, <3>1 DEF Ready, Quiet, InFTP, SameLoad, SameData, Relays, Clean
    <3> QED
      BY <3>2 DEF z
  <2>3. CASE c.ok
    <3> DEFINE z == [x EXCEPT !.r = c.r]
    <3>1. c.r \in Request
      BY <2>1 DEF SameLoad
    <3>2. Ready(z) /\ z.r.mode = x.r.mode /\ z.r.fed = x.r.fed
      BY <2>1, <2>2, <3>1
    <3> HIDE DEF z
    <3>3. AllSound(Asks(z, 0), g)
      BY <3>2, AsksSound DEF Ready
    <3> QED
      BY <2>3, <3>3 DEF z
  <2>4. CASE ~c.ok
    <3> DEFINE q == HTErrorFree(c.r)
               z == [x EXCEPT !.r = q]
    <3>1. c.r \in Request
      BY <2>1 DEF SameLoad
    <3>2. SameLoad(x.r, q) /\ SameData(x.r, q) /\ q.socks = c.r.socks /\ q \in Request
      BY <2>1, <3>1 DEF HTErrorFree, Request, SameLoad, SameData
    <3> HIDE DEF q
    <3>3. Ready(z) /\ z.r.mode = x.r.mode /\ z.r.fed = x.r.fed
      BY <2>1, <2>2, <3>2
    <3> HIDE DEF z
    <3>4. AllSound(NEED_PASSIVE(z), g)
      BY <3>3, ListensSound DEF NEED_PASSIVE
    <3> QED
      BY <2>4, <3>4 DEF z, q
  <2> QED
    BY <2>1, <2>3, <2>4
<1> QED
  BY <1>2, <1>3 DEF NEED_ACTIVE, AllSound

\* A step of the dialogue that changes locals only.
SameRequest(x, z) == z \in Both /\ z.r = x.r /\ z.f.owed = x.f.owed /\ z.f.retry = x.f.retry

\* What EXCEPT makes of a step when only locals change.
LEMMA LocalsChanged ==
    ASSUME NEW x \in Both, NEW h \in Connection, h.owed = x.f.owed, h.retry = x.f.retry
    PROVE  LET z == [x EXCEPT !.f = h] IN SameRequest(x, z) /\ z.f = h
BY DEF Both, SameRequest

\* Such a step keeps what holds in the dialogue.
LEMMA SameReady ==
    ASSUME NEW x, InFTP(x), NEW z, SameRequest(x, z)
    PROVE  InFTP(z) /\ (Quiet(x) => Quiet(z)) /\ (Ready(x) => Ready(z))
BY DEF SameRequest, Ready, Quiet, InFTP, Clean

\* HTFTP_login's commands.
LEMMA LoginSound ==
    ASSUME NEW x, Ready(x), NEW g \in GopherInfo, x.r.mode = "proxy" => ~x.r.fed
    PROVE  /\ AllSound(NEED_PASSWD(x), g) /\ AllSound(NEED_ACCOUNT(x), g)
           /\ AllSound(NEED_USER_INFO(x), g)
           /\ AllSound(HTFTP_send_cmd(x, "USER", "SENT_UID"), g)
<1>1. x \in Both /\ x.f \in Connection /\ InFTP(x) /\ x.f.owed = <<>>
  BY DEF Ready, Quiet, InFTP, Both
<1>2. /\ {"USER", "PASS", "ACCT"} \subseteq Sent
      /\ {"SENT_UID", "SENT_PASSWD", "SENT_ACCOUNT"} \subseteq States
      /\ <<"SENT_UID", "USER">> \in Commands /\ <<"SENT_PASSWD", "PASS">> \in Commands
      /\ <<"SENT_ACCOUNT", "ACCT">> \in Commands /\ {"USER", "PASS", "ACCT"} \cap Transfers = {}
  BY DEF Sent, States, Commands, Transfers
<1>4. AllSound(NEED_PASSWD(x), g)
  <2> DEFINE h == [x.f EXCEPT !.passwd = TRUE]
             z == [x EXCEPT !.f = h]
  <2>1. h \in Connection /\ h.owed = x.f.owed /\ h.retry = x.f.retry
    BY <1>1 DEF Connection
  <2> HIDE DEF h
  <2>2. SameRequest(x, z)
    BY <1>1, <2>1, LocalsChanged
  <2>3. Ready(z) /\ z.r = x.r
    BY <1>1, <2>2, SameReady DEF SameRequest
  <2> HIDE DEF z
  <2>4. AllSound(HTFTP_send_cmd(z, "PASS", "SENT_PASSWD"), g)
    BY <1>2, <2>3, SendSound
  <2>5. AllSound(Error(x), g)
    BY <1>1, ErrorSound
  <2> QED
    BY <2>4, <2>5 DEF NEED_PASSWD, AllSound, z, h
<1>5. AllSound(NEED_USER_INFO(x), g)
  <2> DEFINE h == [x.f EXCEPT !.passwd = TRUE, !.asked = FALSE]
             z == [x EXCEPT !.f = h]
  <2>1. h \in Connection /\ h.owed = x.f.owed /\ h.retry = x.f.retry
    BY <1>1 DEF Connection
  <2> HIDE DEF h
  <2>2. SameRequest(x, z)
    BY <1>1, <2>1, LocalsChanged
  <2>3. Ready(z) /\ z.r = x.r
    BY <1>1, <2>2, SameReady DEF SameRequest
  <2>4. z = [x EXCEPT !.f.passwd = TRUE, !.f.asked = FALSE]
    BY <1>1 DEF Both, h
  <2> HIDE DEF z
  <2>5. AllSound(HTFTP_send_cmd(z, "USER", "SENT_UID"), g)
    BY <1>2, <2>3, SendSound
  <2> QED
    BY <2>4, <2>5 DEF NEED_USER_INFO
<1>6. AllSound(NEED_ACCOUNT(x), g)
  BY <1>2, SendSound DEF NEED_ACCOUNT
<1>7. AllSound(HTFTP_send_cmd(x, "USER", "SENT_UID"), g)
  BY <1>2, SendSound
<1> QED
  BY <1>4, <1>5, <1>6, <1>7

\* A second data connection, to a port of ours.
LEMMA SwitchSound ==
    ASSUME NEW x, Ready(x), NEW g \in GopherInfo
    PROVE  AllSound(HTFTP_switch_to_port(x), g)
<1> DEFINE q == Shut(x.r, {"data"})
           z == [x EXCEPT !.r = q]
<1>1. x \in Both /\ x.r \in Request /\ x.f \in Connection /\ InFTP(x) /\ x.f.owed = <<>>
  BY DEF Ready, Quiet, InFTP, Both
<1>2. SameLoad(x.r, q) /\ SameData(x.r, q) /\ q.socks \subseteq x.r.socks /\ q \in Request
  BY <1>1, ShutSocks DEF SameLoad
<1> HIDE DEF q
<1>3. z \in Both /\ z.r = q /\ z.f = x.f
  BY <1>1, <1>2 DEF Both
<1> HIDE DEF z
<1>4. Ready(z)
  BY <1>1, <1>2, <1>3 DEF Ready, Quiet, InFTP, SameLoad, SameData, Relays, Clean
<1>5. AllSound(Listens(z, "SWITCH_TO_PORT"), g)
  BY <1>4, ListensSound
<1>6. AllSound(Error(x), g)
  BY <1>1, ErrorSound
<1> QED
  BY <1>5, <1>6 DEF HTFTP_switch_to_port, z, q

\* HTFTP_get_response reads the reply that the client waits for; behind the one that
\* announces a transfer may be the one at its end.
LEMMA ReplyRead ==
    ASSUME LInv, req.pc = "ftp"
    PROVE  /\ Read \in Both /\ Read.r = req /\ InFTP(Read)
           /\ Read.f.state = ftp.state /\ Read.f.retry = ftp.retry
           /\ Read.f.handle_ctrl = ftp.handle_ctrl
           /\ ftp.state # "SENT_QUIT" /\ (ftp.state \in {"SENT_LIST", "SENT_RETR"} => Response \notin Started)
                 => Read.f.owed = <<>>
           /\ ftp.state \in {"SENT_LIST", "SENT_RETR"} =>
                 /\ Len(Read.f.owed) <= 1
                 /\ Read.f.owed # <<>> => Read.f.owed[1].to \in Transfers
<1>1. /\ req \in Request /\ ftp \in Connection /\ Relays(req) /\ FewSocks(req, ftp)
      /\ InStep(ftp) /\ (req.mode = "proxy" => FTPData(req, ftp))
  BY DEF LInv, Sound, Dialogue, ProxyData
<1>2. ftp.owed \in Seq([to : Sent, code : Nat])
  BY <1>1 DEF Connection
<1> DEFINE h == IF ftp.owed = <<>> THEN [ftp EXCEPT !.lost = TRUE] ELSE [ftp EXCEPT !.owed = Tail(@)]
<1>3. /\ h \in Connection /\ h.state = ftp.state /\ h.retry = ftp.retry
      /\ h.handle_ctrl = ftp.handle_ctrl
      /\ h.owed = IF ftp.owed = <<>> THEN <<>> ELSE Tail(ftp.owed)
  <2>1. CASE ftp.owed = <<>>
    BY <1>1, <2>1 DEF Connection
  <2>2. CASE ftp.owed # <<>>
    <3>1. Tail(ftp.owed) \in Seq([to : Sent, code : Nat])
      BY <1>2, <2>2
    <3> QED
      BY <1>1, <2>2, <3>1 DEF Connection
  <2> QED
    BY <2>1, <2>2
<1> HIDE DEF h
<1>4. Read = [r |-> req, f |-> h]
  BY DEF Read, h
<1>5. Read \in Both /\ Read.r = req /\ Read.f = h
  BY <1>1, <1>3, <1>4 DEF Both
<1>6. InFTP(Read)
  BY <1>1, <1>3, <1>5 DEF InFTP, FTPData, Clean, FewSocks, SocksAt, HTTPAt
<1>7. ASSUME ftp.owed # <<>>, Len(ftp.owed) <= 1
      PROVE  h.owed = <<>>
  BY <1>2, <1>3, <1>7
<1>8. ASSUME ftp.owed # <<>>, Len(ftp.owed) = 2
      PROVE  Len(h.owed) = 1 /\ h.owed[1] = ftp.owed[2]
  BY <1>2, <1>3, <1>8
<1>9. ftp.state \in {"SENT_LIST", "SENT_RETR"} => Double(ftp)
  BY <1>1 DEF InStep
<1>10. ftp.state \notin {"SENT_LIST", "SENT_RETR", "SENT_QUIT"} => Len(ftp.owed) <= 1
  BY <1>1 DEF InStep, Single
<1>11. Response = IF ftp.owed = <<>> THEN 0 ELSE ftp.owed[1].code
  BY <1>2 DEF Response
<1>12. ftp.state \in {"SENT_LIST", "SENT_RETR"} =>
          \/ Len(ftp.owed) <= 1
          \/ Len(ftp.owed) = 2 /\ ftp.owed[1].code \in Started /\ ftp.owed[2].to \in Transfers
  BY <1>9 DEF Double, Single
<1>13. ftp.state # "SENT_QUIT" /\ (ftp.state \in {"SENT_LIST", "SENT_RETR"} => Response \notin Started)
         => h.owed = <<>>
  BY <1>3, <1>7, <1>10, <1>11, <1>12
<1>14. ftp.state \in {"SENT_LIST", "SENT_RETR"} =>
         Len(h.owed) <= 1 /\ (h.owed # <<>> => h.owed[1].to \in Transfers)
  <2>1. CASE h.owed = <<>>
    BY <2>1
  <2>2. ASSUME ftp.owed # <<>>, Len(ftp.owed) = 2, ftp.owed[2].to \in Transfers
        PROVE  Len(h.owed) <= 1 /\ h.owed[1].to \in Transfers
    <3>1. Len(h.owed) = 1 /\ h.owed[1] = ftp.owed[2]
      BY <1>8, <2>2
    <3>2. h.owed[1].to \in Transfers
      BY <2>2, <3>1
    <3>3. Len(h.owed) <= 1
      BY <3>1
    <3> QED
      BY <3>2, <3>3
  <2> QED
    BY <1>3, <1>7, <1>12, <2>1, <2>2
<1> QED
  BY <1>3, <1>5, <1>6, <1>13, <1>14

\* A step that takes one of sound outcomes is sound.
LEMMA BecomesSound ==
    ASSUME NEW X, AllSound(X, gopher), Becomes(X)
    PROVE  Sound(req', ftp', gopher)
BY DEF AllSound, Becomes

\* After a reply was read, in the places where one is waited for.
LEMMA ReplyReady ==
    ASSUME LInv, req.pc = "ftp", ftp.state # "SENT_QUIT",
           ftp.state \in {"SENT_LIST", "SENT_RETR"} => Response \notin Started
    PROVE  /\ InFTP(Read) /\ Quiet(Read) /\ (ftp.state # "GOT_DATA" => Ready(Read))
           /\ ftp.state \in EarlyStates => (Read.r.mode = "proxy" => ~Read.r.fed)
           /\ Read.r = req /\ Read.f.state = ftp.state /\ gopher \in GopherInfo
           /\ AllSound(Error(Read), gopher)
<1>1. req.mode = "proxy" => FTPData(req, ftp)
  BY DEF LInv, Sound, ProxyData
<1>2. gopher \in GopherInfo
  BY DEF LInv, Sound
<1>3. /\ Read.r = req /\ InFTP(Read) /\ Read.f.owed = <<>>
      /\ Read.f.state = ftp.state /\ Read.f.retry = ftp.retry
  BY ReplyRead
<1>4. AllSound(Error(Read), gopher)
  BY <1>2, <1>3, ErrorSound
<1> QED
  BY <1>1, <1>2, <1>3, <1>4 DEF FTPData, Quiet, Ready

\* HTFTP_init_con: nothing was sent, and no socket is open.
LEMMA InitConSound ==
    ASSUME LInv, HTFTP_init_con
    PROVE  Sound(req', ftp', gopher)
<1>1. /\ req \in Request /\ ftp \in Connection /\ gopher \in GopherInfo /\ req.pc = "ftp"
      /\ ftp.state = "FTP_BEGIN" /\ Relays(req) /\ req.socks = {} /\ ftp.owed = <<>>
      /\ req.mode = "proxy" => ~req.fed /\ Clean(req, ftp)
  BY DEF HTFTP_init_con, Waits, LInv, Sound, FewSocks, Dialogue, InStep, ProxyData, FTPData, EarlyStates
<1>2. PICK c \in HTDoConnect(req, "ctrl") :
          LET x == [r |-> c.r, f |-> ftp]
          IN  IF c.ok THEN Becomes(Expects(x, "connect", "GREETING"))
              ELSE req' = Failed(c.r) /\ UNCHANGED ftp
  BY DEF HTFTP_init_con
<1>3. /\ SameLoad(req, c.r) /\ SameData(req, c.r) /\ c.ok \in BOOLEAN /\ c.r \in Request
      /\ c.ok => c.r.socks = {"ctrl"}
      /\ ~c.ok => c.r.socks = {}
  BY <1>1, Connected DEF SameLoad
<1>4. CASE c.ok
  <2> DEFINE x == [r |-> c.r, f |-> ftp]
  <2>1. x \in Both /\ x.r = c.r /\ x.f = ftp
    BY <1>1, <1>3 DEF Both
  <2>2. Becomes(Expects(x, "connect", "GREETING"))
    BY <1>2, <1>4
  <2> HIDE DEF x
  <2>3. Ready(x)
    BY <1>1, <1>3, <1>4, <2>1 DEF Ready, Quiet, InFTP, SameLoad, SameData, Relays, Clean
  <2>4. /\ "connect" \in Sent \ Transfers /\ "GREETING" \in States
        /\ <<"GREETING", "connect">> \in Commands
    BY DEF Sent, States, Commands, Transfers
  <2>5. x.r.mode = "proxy" => ~x.r.fed
    BY <1>1, <1>3, <2>1 DEF SameLoad, SameData
  <2>6. AllSound(Expects(x, "connect", "GREETING"), gopher)
    BY <1>1, <2>3, <2>4, <2>5, ExpectsSound
  <2> QED
    BY <2>2, <2>6, BecomesSound
<1>5. CASE ~c.ok
  <2>1. Relays(c.r) /\ (c.r.mode = "proxy" => Clean(c.r, ftp))
    BY <1>1, <1>3 DEF SameLoad, SameData, Relays, Clean
  <2>2. Sound(Failed(c.r), ftp, gopher)
    BY <1>1, <1>3, <1>5, <2>1, FailedSound
  <2> QED
    BY <1>2, <1>5, <2>2
<1> QED
  BY <1>3, <1>4, <1>5

\* HTFTP_login: a name, a password, an account.
LEMMA LoginStepSound ==
    ASSUME LInv, HTFTP_login
    PROVE  Sound(req', ftp', gopher)
<1>1. req.pc = "ftp" /\ ftp.state \in {"GREETING", "SENT_UID", "SENT_PASSWD", "SENT_ACCOUNT"}
  BY DEF HTFTP_login, Waits
<1>2. /\ Ready(Read) /\ (Read.r.mode = "proxy" => ~Read.r.fed)
      /\ gopher \in GopherInfo /\ AllSound(Error(Read), gopher)
  BY <1>1, ReplyReady DEF EarlyStates
<1>3. /\ AllSound(NEED_PASSWD(Read), gopher) /\ AllSound(NEED_ACCOUNT(Read), gopher)
      /\ AllSound(NEED_USER_INFO(Read), gopher)
      /\ AllSound(HTFTP_send_cmd(Read, "USER", "SENT_UID"), gopher)
  BY <1>2, LoginSound
<1>4. AllSound(HTFTP_get_data_con(Read), gopher)
  BY <1>2, DataConSound
<1>5. CASE Becomes(IF Response = 0 THEN Error(Read) ELSE HTFTP_send_cmd(Read, "USER", "SENT_UID"))
  BY <1>2, <1>3, <1>5, BecomesSound
<1>6. ASSUME NEW state,
             Becomes(IF Response \div 100 = 2 THEN HTFTP_get_data_con(Read)
                     ELSE IF Response \div 100 = 3
                          THEN IF state = "SENT_UID" THEN NEED_PASSWD(Read) ELSE NEED_ACCOUNT(Read)
                     ELSE IF Response = 530 /\ ftp.asked THEN NEED_USER_INFO(Read)
                     ELSE Error(Read))
      PROVE  Sound(req', ftp', gopher)
  BY <1>2, <1>3, <1>4, <1>6, BecomesSound
<1>7. CASE Becomes(IF Response \div 100 = 2 THEN HTFTP_get_data_con(Read) ELSE Error(Read))
  BY <1>2, <1>4, <1>7, BecomesSound
<1> QED
  BY <1>5, <1>6, <1>7 DEF HTFTP_login

\* HTFTP_get_data_con: the transfer type, and one of the two kinds of connection.
LEMMA DataConnectionSound ==
    ASSUME LInv, DataConnection
    PROVE  Sound(req', ftp', gopher)
<1>1. req.pc = "ftp" /\ ftp.state \in {"SENT_TYPE", "SENT_PASV", "SENT_PORT"}
  BY DEF DataConnection, Waits
<1>2. /\ Ready(Read) /\ InFTP(Read) /\ (Read.r.mode = "proxy" => ~Read.r.fed)
      /\ gopher \in GopherInfo /\ AllSound(Error(Read), gopher)
  BY <1>1, ReplyReady DEF EarlyStates
<1>3. AllSound(HTFTP_send_cmd(Read, "PASV", "SENT_PASV"), gopher)
  BY <1>2, DataConSound
<1>4. AllSound(NEED_ACTIVE(Read), gopher) /\ AllSound(NEED_PASSIVE(Read), gopher)
  BY <1>2, ActiveSound
<1>5. AllSound(NEED_ACTIVE(Read) \cup Error(Read), gopher)
  BY <1>2, <1>4 DEF AllSound
<1>6. AllSound(Asks([Read EXCEPT !.f.passive = 1], 0), gopher)
  <2> DEFINE h == [Read.f EXCEPT !.passive = 1]
             z == [Read EXCEPT !.f = h]
  <2>1. Read \in Both /\ Read.f \in Connection
    BY <1>2 DEF InFTP, Both
  <2>2. h \in Connection /\ h.owed = Read.f.owed /\ h.retry = Read.f.retry
    BY <2>1 DEF Connection
  <2> HIDE DEF h
  <2>3. SameRequest(Read, z)
    BY <2>1, <2>2, LocalsChanged
  <2> HIDE DEF z
  <2>4. Quiet(z) /\ z.r = Read.r
    BY <1>2, <2>3, SameReady DEF SameRequest, Ready
  <2>5. AllSound(Asks(z, 0), gopher)
    BY <1>2, <2>4, AsksSound
  <2> QED
    BY <2>5 DEF z, h
<1>7. \E X : AllSound(X, gopher) /\ Becomes(X)
  BY <1>2, <1>3, <1>4, <1>5, <1>6, Zenon DEF DataConnection
<1> QED
  BY <1>7, BecomesSound

\* HTFTPServerInfo: the kind of server by SYST or PWD.
LEMMA ServerInfoSound ==
    ASSUME LInv, ServerInfo
    PROVE  Sound(req', ftp', gopher)
<1>1. req.pc = "ftp" /\ ftp.state \in {"SENT_SYST", "SENT_PWD"}
  BY DEF ServerInfo, Waits
<1>2. Ready(Read) /\ InFTP(Read) /\ gopher \in GopherInfo /\ AllSound(Error(Read), gopher)
  BY <1>1, ReplyReady
<1>3. AllSound(HTFTP_send_cmd(Read, "PWD", "SENT_PWD"), gopher)
  BY <1>2, CommandsSound
<1>4. AllSound(HTFTP_get_dir([Read EXCEPT !.f.server = TRUE]), gopher)
  <2> DEFINE h == [Read.f EXCEPT !.server = TRUE]
             z == [Read EXCEPT !.f = h]
  <2>1. Read \in Both /\ Read.f \in Connection
    BY <1>2 DEF InFTP, Both
  <2>2. h \in Connection /\ h.owed = Read.f.owed /\ h.retry = Read.f.retry
    BY <2>1 DEF Connection
  <2> HIDE DEF h
  <2>3. SameRequest(Read, z)
    BY <2>1, <2>2, LocalsChanged
  <2> HIDE DEF z
  <2>4. Ready(z)
    BY <1>2, <2>3, SameReady
  <2>5. AllSound(HTFTP_get_dir(z), gopher)
    BY <1>2, <2>4, CommandsSound
  <2> QED
    BY <2>5 DEF z, h
<1>5. AllSound((IF Response \div 100 = 2 THEN HTFTP_get_dir([Read EXCEPT !.f.server = TRUE])
                ELSE {}) \cup HTFTP_send_cmd(Read, "PWD", "SENT_PWD"), gopher)
  BY <1>3, <1>4 DEF AllSound
<1>6. \E X : AllSound(X, gopher) /\ Becomes(X)
  BY <1>2, <1>4, <1>5, Zenon DEF ServerInfo
<1> QED
  BY <1>6, BecomesSound

\* CWD, at once or a segment at a time.
LEMMA ChangeDirectorySound ==
    ASSUME LInv, ChangeDirectory
    PROVE  Sound(req', ftp', gopher)
<1>1. req.pc = "ftp" /\ ftp.state \in {"SENT_CWD", "SENT_CWDS"}
  BY DEF ChangeDirectory, Waits
<1>2. /\ Ready(Read) /\ Quiet(Read) /\ InFTP(Read) /\ gopher \in GopherInfo
      /\ AllSound(Error(Read), gopher)
  BY <1>1, ReplyReady
<1>3. AllSound(Failure(Read), gopher) /\ AllSound(MULTIPLE_CWD(Read), gopher)
  BY <1>2, FailureSound, CommandsSound
<1>4. ASSUME NEW p \in Int
      PROVE  LET z == [Read EXCEPT !.f.path = p] IN
             /\ AllSound(NeedList(z), gopher) /\ AllSound(HTFTP_get_file(z), gopher)
             /\ AllSound(MULTIPLE_CWD(z), gopher)
  <2> DEFINE h == [Read.f EXCEPT !.path = p]
             z == [Read EXCEPT !.f = h]
  <2>1. Read \in Both /\ Read.f \in Connection
    BY <1>2 DEF InFTP, Both
  <2>2. h \in Connection /\ h.owed = Read.f.owed /\ h.retry = Read.f.retry
    BY <2>1 DEF Connection
  <2> HIDE DEF h
  <2>3. SameRequest(Read, z)
    BY <2>1, <2>2, LocalsChanged
  <2> HIDE DEF z
  <2>4. Ready(z)
    BY <1>2, <2>3, SameReady
  <2>5. /\ AllSound(NeedList(z), gopher) /\ AllSound(HTFTP_get_file(z), gopher)
        /\ AllSound(MULTIPLE_CWD(z), gopher)
    BY <1>2, <2>4, CommandsSound
  <2> QED
    BY <2>5 DEF z, h
<1>5. Read.f.path - 1 \in Int /\ 0 \in Int
  BY <1>2 DEF InFTP, Both, Connection
<1>6. CASE Becomes(IF Response \div 100 = 2 THEN NeedList([Read EXCEPT !.f.path = 0])
                   ELSE IF Response \div 100 = 4 THEN Failure(Read)
                   ELSE MULTIPLE_CWD(Read))
  <2>1. AllSound(NeedList([Read EXCEPT !.f.path = 0]), gopher)
    BY <1>4, <1>5
  <2> QED
    BY <1>3, <1>6, <2>1, BecomesSound
<1> DEFINE in == [Read EXCEPT !.f.path = @ - 1]
<1>7. CASE Becomes(IF Response \div 100 = 2
                   THEN IF in.f.path = 0 THEN NeedList(in)
                        ELSE IF in.f.path = 1 /\ ~in.f.directory THEN HTFTP_get_file(in)
                        ELSE MULTIPLE_CWD(in)
                   ELSE IF Response \div 100 = 4 /\ ftp.directory THEN Failure(Read)
                   ELSE Error(Read))
  <2>1. /\ AllSound(NeedList(in), gopher) /\ AllSound(HTFTP_get_file(in), gopher)
        /\ AllSound(MULTIPLE_CWD(in), gopher)
    BY <1>4, <1>5
  <2> HIDE DEF in
  <2> QED
    BY <1>2, <1>3, <1>7, <2>1, BecomesSound
<1> QED
  BY <1>6, <1>7 DEF ChangeDirectory

\* The dialogue goes on in another place without a command: a reply that is owed is one
\* of the transfer's.
LEMMA MovesSound ==
    ASSUME NEW x, InFTP(x), NEW g \in GopherInfo,
           x.f.state \in {"WAIT_FOR_CONNECTION", "READY_FOR_DATA", "HANDLE_CTRL", "GOT_DATA"},
           Len(x.f.owed) <= 1, x.f.owed # <<>> => x.f.owed[1].to \in Transfers,
           x.r.mode = "proxy" => IF x.f.state = "GOT_DATA" THEN x.r.fed
                                 ELSE x.r.fed => x.f.retry = 1
    PROVE  Sound(x.r, x.f, g)
<1>1. x.f.owed # <<>> => Next1(x.f) \in Commands
  BY DEF Next1, Commands
<1>2. InStep(x.f)
  BY <1>1 DEF InStep, Single
<1>3. x.r.mode = "proxy" => FTPData(x.r, x.f)
  BY DEF InFTP, FTPData, EarlyStates
<1> QED
  BY <1>2, <1>3, DialogueSound

\* LIST or RETR: the only command that may be answered twice.
LEMMA TransferStartsSound ==
    ASSUME LInv, TransferStarts
    PROVE  Sound(req', ftp', gopher)
<1>1. req.pc = "ftp" /\ ftp.state \in {"SENT_LIST", "SENT_RETR"}
  BY DEF TransferStarts, Waits
<1>2. /\ gopher \in GopherInfo /\ ftp \in Connection
      /\ req.mode = "proxy" => (req.fed => ftp.retry = 1)
  BY <1>1 DEF LInv, Sound, ProxyData, FTPData
<1>3. ASSUME Response \in Started, NEW state \in {"WAIT_FOR_CONNECTION", "READY_FOR_DATA"}
      PROVE  AllSound({[Read EXCEPT !.f.state = state]}, gopher)
  <2>1. /\ Read \in Both /\ Read.f \in Connection /\ Read.r = req /\ InFTP(Read)
        /\ Read.f.retry = ftp.retry
        /\ Len(Read.f.owed) <= 1
        /\ Read.f.owed # <<>> => Read.f.owed[1].to \in Transfers
    BY <1>1, ReplyRead DEF Both
  <2> DEFINE h == [Read.f EXCEPT !.state = state]
             z == [Read EXCEPT !.f = h]
  <2>2. h \in Connection /\ h.owed = Read.f.owed /\ h.retry = Read.f.retry /\ h.state = state
    BY <2>1 DEF Connection, States
  <2> HIDE DEF h
  <2>3. SameRequest(Read, z) /\ z.f = h
    BY <2>1, <2>2, LocalsChanged
  <2> HIDE DEF z
  <2>4. InFTP(z) /\ z.r = req
    BY <2>1, <2>3, SameReady DEF SameRequest
  <2>5. Len(z.f.owed) <= 1
    BY <2>1, <2>2, <2>3
  <2>6. Sound(z.r, z.f, gopher)
    BY <1>2, <2>1, <2>2, <2>3, <2>4, <2>5, MovesSound
  <2> QED
    BY <2>6 DEF AllSound, z, h
<1>4. CASE Response \in Started
  <2>1. Response = 150 \/ Response = 125
    BY <1>4 DEF Started
  <2>2. CASE Response = 150
    <3>1. Becomes({[Read EXCEPT !.f.state = "WAIT_FOR_CONNECTION"]})
      BY <2>2 DEF TransferStarts
    <3> QED
      BY <1>3, <1>4, <3>1, BecomesSound
  <2>3. CASE Response = 125
    <3>1. Becomes({[Read EXCEPT !.f.state = "READY_FOR_DATA"]})
      BY <2>3 DEF TransferStarts
    <3> QED
      BY <1>3, <1>4, <3>1, BecomesSound
  <2> QED
    BY <2>1, <2>2, <2>3
<1>5. CASE Response \notin Started
  <2>1. /\ Ready(Read) /\ Quiet(Read) /\ InFTP(Read) /\ AllSound(Error(Read), gopher)
        /\ Read \in Both /\ Read.f \in Connection
    BY <1>1, <1>5, ReplyReady DEF InFTP, Both
  <2>2. AllSound(Failure(Read), gopher)
    BY <1>2, <2>1, FailureSound
  <2>3. AllSound(MULTIPLE_CWD([Read EXCEPT !.f.multiple = TRUE]), gopher)
    <3> DEFINE h == [Read.f EXCEPT !.multiple = TRUE]
               z == [Read EXCEPT !.f = h]
    <3>1. h \in Connection /\ h.owed = Read.f.owed /\ h.retry = Read.f.retry
      BY <2>1 DEF Connection
    <3> HIDE DEF h
    <3>2. SameRequest(Read, z)
      BY <2>1, <3>1, LocalsChanged
    <3> HIDE DEF z
    <3>3. Ready(z)
      BY <2>1, <3>2, SameReady
    <3>4. AllSound(MULTIPLE_CWD(z), gopher)
      BY <1>2, <3>3, CommandsSound
    <3> QED
      BY <3>4 DEF z, h
  <2>4. AllSound(Failure([Read EXCEPT !.f.directory = TRUE]), gopher)
    <3> DEFINE h == [Read.f EXCEPT !.directory = TRUE]
               z == [Read EXCEPT !.f = h]
    <3>1. h \in Connection /\ h.owed = Read.f.owed /\ h.retry = Read.f.retry
      BY <2>1 DEF Connection
    <3> HIDE DEF h
    <3>2. SameRequest(Read, z)
      BY <2>1, <3>1, LocalsChanged
    <3> HIDE DEF z
    <3>3. Quiet(z)
      BY <2>1, <3>2, SameReady
    <3>4. AllSound(Failure(z), gopher)
      BY <1>2, <3>3, FailureSound
    <3> QED
      BY <3>4 DEF z, h
  <2>5. Response # 150 /\ Response # 125
    BY <1>5 DEF Started
  <2>6. Becomes(IF Response \div 100 = 4 THEN Failure(Read)
                ELSE IF ftp.state = "SENT_LIST" THEN Error(Read)
                ELSE IF ~ftp.multiple /\ ftp.path > 1 THEN MULTIPLE_CWD([Read EXCEPT !.f.multiple = TRUE])
                ELSE Failure([Read EXCEPT !.f.directory = TRUE]))
    BY <2>5 DEF TransferStarts
  <2> QED
    BY <2>1, <2>2, <2>3, <2>4, <2>6, BecomesSound
<1> QED
  BY <1>4, <1>5

\* What holds while data are waited for.
LEMMA DataState ==
    ASSUME LInv, req.pc = "ftp",
           ftp.state \in {"WAIT_FOR_CONNECTION", "READY_FOR_DATA", "HANDLE_CTRL", "GOT_DATA"}
    PROVE  LET x == [r |-> req, f |-> ftp] IN
           /\ x \in Both /\ x.r = req /\ x.f = ftp /\ InFTP(x) /\ gopher \in GopherInfo
           /\ Len(ftp.owed) <= 1 /\ (ftp.owed # <<>> => ftp.owed[1].to \in Transfers)
           /\ req.mode = "proxy" => IF ftp.state = "GOT_DATA" THEN req.fed
                                    ELSE req.fed => ftp.retry = 1
<1>1. /\ req \in Request /\ ftp \in Connection /\ Relays(req) /\ FewSocks(req, ftp)
      /\ InStep(ftp) /\ (req.mode = "proxy" => FTPData(req, ftp)) /\ gopher \in GopherInfo
  BY DEF LInv, Sound, Dialogue, ProxyData
<1> DEFINE x == [r |-> req, f |-> ftp]
<1>2. x \in Both /\ x.r = req /\ x.f = ftp
  BY <1>1 DEF Both
<1> HIDE DEF x
<1>3. InFTP(x)
  BY <1>1, <1>2 DEF InFTP, FTPData, FewSocks, SocksAt, HTTPAt
<1>4. Len(ftp.owed) <= 1 /\ (ftp.owed # <<>> => <<ftp.state, ftp.owed[1].to>> \in Commands)
  BY <1>1 DEF InStep, Single, Next1
<1>5. ftp.owed # <<>> => ftp.owed[1].to \in Transfers
  BY <1>4 DEF Commands
<1>6. req.mode = "proxy" => IF ftp.state = "GOT_DATA" THEN req.fed ELSE req.fed => ftp.retry = 1
  BY <1>1 DEF FTPData
<1> QED
  BY <1>1, <1>2, <1>3, <1>4, <1>5, <1>6 DEF x

\* HTFTP_look_for_data: data or a reply come first.
LEMMA LookForDataSound ==
    ASSUME LInv, HTFTP_look_for_data
    PROVE  Sound(req', ftp', gopher)
<1> DEFINE x == [r |-> req, f |-> ftp]
<1>1. req.pc = "ftp" /\ ftp.state = "WAIT_FOR_CONNECTION"
  BY DEF HTFTP_look_for_data, Waits
<1>2. /\ x \in Both /\ x.r = req /\ x.f = ftp /\ InFTP(x) /\ gopher \in GopherInfo
      /\ Len(ftp.owed) <= 1 /\ (ftp.owed # <<>> => ftp.owed[1].to \in Transfers)
      /\ req.mode = "proxy" => (req.fed => ftp.retry = 1)
  BY <1>1, DataState
<1> HIDE DEF x
<1>3. ASSUME NEW state \in {"READY_FOR_DATA", "HANDLE_CTRL"}, ftp' = [ftp EXCEPT !.state = state],
             UNCHANGED req
      PROVE  Sound(req', ftp', gopher)
  <2> DEFINE h == [ftp EXCEPT !.state = state]
             z == [x EXCEPT !.f = h]
  <2>1. h \in Connection /\ h.owed = x.f.owed /\ h.retry = x.f.retry /\ h.state = state
    BY <1>2 DEF Both, Connection, States
  <2>2. h = ftp'
    BY <1>3
  <2> HIDE DEF h
  <2>3. SameRequest(x, z) /\ z.f = h
    BY <1>2, <2>1, LocalsChanged
  <2> HIDE DEF z
  <2>4. InFTP(z) /\ z.r = req
    BY <1>2, <2>3, SameReady DEF SameRequest
  <2>5. Sound(z.r, z.f, gopher)
    BY <1>2, <2>1, <2>3, <2>4, MovesSound
  <2> QED
    BY <1>3, <2>2, <2>3, <2>4, <2>5
<1>4. CASE Becomes(Error(x))
  <2>1. AllSound(Error(x), gopher)
    BY <1>2, ErrorSound
  <2> QED
    BY <1>4, <2>1, BecomesSound
<1> QED
  BY <1>3, <1>4 DEF HTFTP_look_for_data, x

\* The reply came first: the transfer is over, or was refused.
LEMMA HandleCtrlSound ==
    ASSUME LInv, HANDLE_CTRL
    PROVE  Sound(req', ftp', gopher)
<1>1. req.pc = "ftp" /\ ftp.state = "HANDLE_CTRL"
  BY DEF HANDLE_CTRL, Waits
<1>2. /\ Ready(Read) /\ InFTP(Read) /\ gopher \in GopherInfo /\ Read \in Both
      /\ Read.f \in Connection
  BY <1>1, ReplyReady DEF InFTP, Both
<1> DEFINE h == [Read.f EXCEPT !.handle_ctrl = TRUE]
           x == [Read EXCEPT !.f = h]
<1>3. h \in Connection /\ h.owed = Read.f.owed /\ h.retry = Read.f.retry
  BY <1>2 DEF Connection
<1>4. Becomes(IF Response \div 100 = 2 THEN {[x EXCEPT !.f.state = "READY_FOR_DATA"]}
              ELSE IF Response = 425 THEN HTFTP_switch_to_port(x)
              ELSE IF Response \div 100 = 4 THEN Failure(x)
              ELSE Error(x))
  BY DEF HANDLE_CTRL
<1> HIDE DEF h
<1>5. SameRequest(Read, x) /\ x.f = h
  BY <1>2, <1>3, LocalsChanged
<1> HIDE DEF x
<1>6. Ready(x) /\ Quiet(x) /\ InFTP(x) /\ x \in Both
  BY <1>2, <1>5, SameReady DEF Ready, SameRequest
<1>7. /\ AllSound(HTFTP_switch_to_port(x), gopher) /\ AllSound(Failure(x), gopher)
      /\ AllSound(Error(x), gopher)
  BY <1>2, <1>6, SwitchSound, FailureSound, ErrorSound
<1>8. AllSound({[x EXCEPT !.f.state = "READY_FOR_DATA"]}, gopher)
  <2> DEFINE k == [x.f EXCEPT !.state = "READY_FOR_DATA"]
             z == [x EXCEPT !.f = k]
  <2>1. k \in Connection /\ k.owed = x.f.owed /\ k.retry = x.f.retry /\ k.state = "READY_FOR_DATA"
    BY <1>3, <1>5 DEF Connection, States
  <2> HIDE DEF k
  <2>2. SameRequest(x, z) /\ z.f = k
    BY <1>6, <2>1, LocalsChanged
  <2> HIDE DEF z
  <2>3. Ready(z) /\ InFTP(z) /\ z.f.owed = <<>>
    BY <1>6, <2>2, SameReady DEF Ready, Quiet
  <2>4. z.r.mode = "proxy" => (z.r.fed => z.f.retry = 1)
    BY <2>3 DEF Ready
  <2>5. Len(z.f.owed) <= 1
    BY <2>3
  <2>6. Sound(z.r, z.f, gopher)
    BY <1>2, <2>1, <2>2, <2>3, <2>4, <2>5, MovesSound
  <2> QED
    BY <2>6 DEF AllSound, z, k
<1> QED
  BY <1>4, <1>7, <1>8, BecomesSound

\* After a refusal the same command is sent again.
LEMMA SwitchToPortSound ==
    ASSUME LInv, SwitchToPort
    PROVE  Sound(req', ftp', gopher)
<1>1. req.pc = "ftp" /\ ftp.state = "SWITCH_TO_PORT"
  BY DEF SwitchToPort, Waits
<1>2. /\ Ready(Read) /\ InFTP(Read) /\ gopher \in GopherInfo /\ Read \in Both
      /\ Read.f \in Connection /\ AllSound(Error(Read), gopher)
  BY <1>1, ReplyReady DEF InFTP, Both
<1> DEFINE h == [Read.f EXCEPT !.passive = 1]
           x == [Read EXCEPT !.f = h]
<1>3. h \in Connection /\ h.owed = Read.f.owed /\ h.retry = Read.f.retry
  BY <1>2 DEF Connection
<1>4. Becomes(IF Response \div 100 # 2 THEN Error(Read)
              ELSE IF ftp.directory THEN NeedList(x)
              ELSE HTFTP_get_file(x))
  BY DEF SwitchToPort
<1> HIDE DEF h
<1>5. SameRequest(Read, x)
  BY <1>2, <1>3, LocalsChanged
<1> HIDE DEF x
<1>6. Ready(x)
  BY <1>2, <1>5, SameReady
<1>7. AllSound(NeedList(x), gopher) /\ AllSound(HTFTP_get_file(x), gopher)
  BY <1>2, <1>6, CommandsSound
<1> QED
  BY <1>2, <1>4, <1>7, BecomesSound

\* HTDoAccept accepts, after a warning perhaps, or fails.
LEMMA Accepted ==
    ASSUME NEW r \in Request, NEW a \in HTDoAccept(r)
    PROVE  SameLoad(r, a.r) /\ SameData(r, a.r) /\ a.r.socks = r.socks /\ a.ok \in BOOLEAN
<1> DEFINE q == HTErrorAdd(r, "WARNING")
<1>1. SameLoad(r, q) /\ SameData(r, q) /\ q.socks = r.socks /\ q \in Request
  BY AddedError DEF Severities, SameLoad
<1>2. CASE a = [ok |-> TRUE, r |-> r]
  BY <1>2 DEF SameLoad, SameData
<1>3. CASE a = [ok |-> TRUE, r |-> q]
  BY <1>1, <1>3
<1>4. CASE a = [ok |-> FALSE, r |-> HTErrorAdd(q, "FATAL")]
  <2> HIDE DEF q
  <2> DEFINE p == HTErrorAdd(q, "FATAL")
  <2>1. SameLoad(q, p) /\ SameData(q, p) /\ p.socks = q.socks
    BY <1>1, AddedError DEF Severities
  <2>2. a.r = p /\ a.ok = FALSE
    BY <1>4
  <2> HIDE DEF p
  <2> QED
    BY <1>1, <2>1, <2>2 DEF SameLoad, SameData
<1> QED
  BY <1>2, <1>3, <1>4 DEF HTDoAccept

\* A listing is shown, or was not read.
LEMMA Browsed ==
    ASSUME NEW r \in Request, NEW d \in HTFTPBrowseDirectory(r)
    PROVE  /\ SameLoad(r, d.r) /\ d.r.socks = r.socks /\ d.ok \in BOOLEAN
           /\ d.ok => d.r.error_block /\ d.r.fed
           /\ ~d.ok => SameData(r, d.r)
<1>1. CASE d = [ok |-> TRUE, r |-> Delivered(r)]
  <2>1. d.ok = TRUE /\ d.r = Delivered(r)
    BY <1>1
  <2> QED
    BY <2>1, DeliveredRequest
<1>2. CASE d = [ok |-> FALSE, r |-> r]
  BY <1>2 DEF SameLoad, SameData
<1> QED
  BY <1>1, <1>2 DEF HTFTPBrowseDirectory

\* The data are read and delivered, or not: both connections are still open.
LEMMA ReadyForDataSound ==
    ASSUME LInv, READY_FOR_DATA
    PROVE  Sound(req', ftp', gopher)
<1> DEFINE x0 == [r |-> req, f |-> ftp]
<1>1. req.pc = "ftp" /\ ftp.state = "READY_FOR_DATA"
  BY DEF READY_FOR_DATA, Waits
<1>2. /\ x0 \in Both /\ x0.r = req /\ x0.f = ftp /\ InFTP(x0) /\ gopher \in GopherInfo
      /\ Len(ftp.owed) <= 1 /\ (ftp.owed # <<>> => ftp.owed[1].to \in Transfers)
      /\ req.mode = "proxy" => (req.fed => ftp.retry = 1)
  BY <1>1, DataState
<1> HIDE DEF x0
<1>3. req \in Request /\ ftp \in Connection
  BY <1>2 DEF Both
<1> DEFINE Accepts == IF ftp.passive = 1 THEN HTDoAccept(req) ELSE {[ok |-> TRUE, r |-> req]}
           h(a) == [ftp EXCEPT !.passive = IF @ = 1 /\ a.ok THEN 2 ELSE @]
           Data(a) == IF ftp.directory THEN HTFTPBrowseDirectory(a.r) ELSE HTParseSocket(a.r)
           x(a) == [r |-> a.r, f |-> h(a)]
           y(a, d) == [x(a) EXCEPT !.r = d.r]
<1>4. PICK a \in Accepts :
          IF ~a.ok THEN Becomes(Error(x(a)))
          ELSE \E d \in Data(a) :
                  Becomes(IF ~d.ok THEN Error(y(a, d))
                          ELSE IF ftp.handle_ctrl THEN GotData(y(a, d))
                          ELSE {[y(a, d) EXCEPT !.f.state = "GOT_DATA"]})
  BY DEF READY_FOR_DATA
<1>5. SameLoad(req, a.r) /\ SameData(req, a.r) /\ a.r.socks = req.socks /\ a.ok \in BOOLEAN
  <2>1. CASE a \in HTDoAccept(req)
    BY <1>3, <2>1, Accepted
  <2>2. CASE a = [ok |-> TRUE, r |-> req]
    BY <1>3, <2>2 DEF SameLoad, SameData
  <2> QED
    BY <2>1, <2>2
<1>6. /\ h(a) \in Connection /\ h(a).owed = ftp.owed /\ h(a).retry = ftp.retry
      /\ h(a).handle_ctrl = ftp.handle_ctrl
  BY <1>3 DEF Connection
<1>7. ASSUME NEW q, SameLoad(req, q), q.socks = req.socks,
             req.mode = "proxy" => Clean(q, ftp)
      PROVE  LET z == [r |-> q, f |-> h(a)] IN
             z \in Both /\ InFTP(z) /\ z.r = q /\ z.f = h(a)
  <2> DEFINE z == [r |-> q, f |-> h(a)]
  <2> HIDE DEF h
  <2>1. z \in Both /\ z.r = q /\ z.f = h(a)
    BY <1>6, <1>7 DEF Both, SameLoad
  <2> HIDE DEF z
  <2>2. InFTP(z)
    BY <1>2, <1>6, <1>7, <2>1 DEF InFTP, SameLoad, Relays, Clean
  <2> QED
    BY <2>1, <2>2 DEF z
<1>8. req.mode = "proxy" => Clean(req, ftp)
  BY <1>2 DEF InFTP
<1>9. CASE ~a.ok
  <2>1. req.mode = "proxy" => Clean(a.r, ftp)
    BY <1>5, <1>8 DEF Clean, SameLoad, SameData
  <2>2. InFTP(x(a))
    BY <1>5, <1>7, <2>1
  <2> HIDE DEF x
  <2>3. AllSound(Error(x(a)), gopher)
    BY <1>2, <2>2, ErrorSound
  <2> QED
    BY <1>4, <1>9, <2>3, BecomesSound
<1>10. CASE a.ok
  <2>1. PICK d \in Data(a) :
            Becomes(IF ~d.ok THEN Error(y(a, d))
                    ELSE IF ftp.handle_ctrl THEN GotData(y(a, d))
                    ELSE {[y(a, d) EXCEPT !.f.state = "GOT_DATA"]})
    BY <1>4, <1>10
  <2>2. /\ SameLoad(a.r, d.r) /\ d.r.socks = a.r.socks /\ d.ok \in BOOLEAN
        /\ d.ok => d.r.error_block /\ d.r.fed
        /\ ~d.ok => /\ d.r.fed = a.r.fed /\ d.r.ended = a.r.ended
                    /\ d.r.error_block => a.r.error_block
    <3>1. a.r \in Request
      BY <1>5 DEF SameLoad
    <3>2. CASE d \in HTFTPBrowseDirectory(a.r)
      BY <3>1, <3>2, Browsed DEF SameData
    <3>3. CASE d \in HTParseSocket(a.r)
      BY <3>1, <3>3, ParsedSocket
    <3> QED
      BY <3>2, <3>3
  <2>3. SameLoad(req, d.r) /\ d.r.socks = req.socks
    BY <1>5, <2>2 DEF SameLoad
  <2>4. d.r.error_block \in BOOLEAN /\ d.r.fed \in BOOLEAN /\ d.r.told \in BOOLEAN
        /\ req.fed \in BOOLEAN
    BY <1>3, <2>3 DEF SameLoad, Request
  <2>5. req.mode = "proxy" => Clean(d.r, ftp)
    <3>1. CASE d.ok
      BY <1>8, <2>2, <2>3, <3>1 DEF Clean, SameLoad
    <3>2. CASE ~d.ok
      BY <1>2, <1>5, <1>8, <2>2, <2>3, <2>4, <3>2 DEF Clean, SameLoad, SameData
    <3> QED
      BY <3>1, <3>2
  <2> DEFINE z == y(a, d)
  <2>6. z = [r |-> d.r, f |-> h(a)]
    OBVIOUS
  <2>7. z \in Both /\ InFTP(z) /\ z.r = d.r /\ z.f = h(a)
    BY <1>7, <2>3, <2>5, <2>6
  <2>8. Becomes(IF ~d.ok THEN Error(z)
                ELSE IF ftp.handle_ctrl THEN GotData(z)
                ELSE {[z EXCEPT !.f.state = "GOT_DATA"]})
    BY <2>1
  <2> HIDE DEF z, h, x, y
  <2>9. CASE ~d.ok
    <3>1. AllSound(Error(z), gopher)
      BY <1>2, <2>7, ErrorSound
    <3> QED
      BY <2>8, <2>9, <3>1, BecomesSound
  <2>10. CASE d.ok /\ ftp.handle_ctrl
    <3>1. AllSound(GotData(z), gopher)
      BY <1>2, <1>6, <2>2, <2>7, <2>10, GotDataSound
    <3> QED
      BY <2>8, <2>10, <3>1, BecomesSound
  <2>11. CASE d.ok /\ ~ftp.handle_ctrl
    <3> DEFINE k == [z.f EXCEPT !.state = "GOT_DATA"]
               w == [z EXCEPT !.f = k]
    <3>1. k \in Connection /\ k.owed = z.f.owed /\ k.retry = z.f.retry /\ k.state = "GOT_DATA"
      BY <1>6, <2>7 DEF Connection, States
    <3> HIDE DEF k
    <3>2. SameRequest(z, w) /\ w.f = k
      BY <2>7, <3>1, LocalsChanged
    <3> HIDE DEF w
    <3>3. InFTP(w) /\ w.r = d.r
      BY <2>7, <3>2, SameReady DEF SameRequest
    <3>4. Len(w.f.owed) <= 1 /\ (w.f.owed # <<>> => w.f.owed[1].to \in Transfers)
      BY <1>2, <1>6, <2>7, <3>1, <3>2
    <3>5. Sound(w.r, w.f, gopher)
      BY <1>2, <2>2, <2>11, <3>1, <3>2, <3>3, <3>4, MovesSound
    <3>6. AllSound({w}, gopher)
      BY <3>5 DEF AllSound
    <3>7. Becomes({w})
      BY <2>8, <2>11 DEF w, k
    <3> QED
      BY <3>6, <3>7, BecomesSound
  <2> QED
    BY <2>2, <2>8, <2>9, <2>10, <2>11
<1> QED
  BY <1>5, <1>9, <1>10

\* The reply at the end of the transfer; a failure there repeats it.
LEMMA GotDataStepSound ==
    ASSUME LInv, GOT_DATA
    PROVE  Sound(req', ftp', gopher)
<1>1. req.pc = "ftp" /\ ftp.state = "GOT_DATA"
  BY DEF GOT_DATA, Waits
<1>2. /\ Quiet(Read) /\ InFTP(Read) /\ gopher \in GopherInfo /\ AllSound(Error(Read), gopher)
      /\ Read.r = req
  BY <1>1, ReplyReady
<1>3. req.mode = "proxy" => req.fed
  BY <1>1, DataState
<1>4. AllSound(GotData(Read), gopher)
  BY <1>2, <1>3, GotDataSound DEF Quiet
<1>5. AllSound(Failure(Read), gopher)
  BY <1>2, FailureSound
<1>6. Becomes(IF Response \div 100 = 2 THEN GotData(Read)
              ELSE IF Response \div 100 = 4 THEN Failure(Read)
              ELSE Error(Read))
  BY DEF GOT_DATA
<1> QED
  BY <1>2, <1>4, <1>5, <1>6, BecomesSound

\* HTFTP_logout: the reply to QUIT, and the control connection is closed.
LEMMA LogoutSound ==
    ASSUME LInv, HTFTP_logout
    PROVE  Sound(req', ftp', gopher)
<1>1. req.pc = "ftp" /\ ftp.state = "SENT_QUIT"
  BY DEF HTFTP_logout, Waits
<1>2. /\ req.socks \subseteq {"ctrl"} /\ gopher \in GopherInfo
      /\ req.mode = "proxy" => req.fed
  BY <1>1 DEF LInv, Sound, FewSocks, ProxyData, FTPData
<1>3. /\ Read \in Both /\ Read.r = req /\ InFTP(Read) /\ Read.f \in Connection /\ req \in Request
  BY <1>1, ReplyRead DEF Both
<1>4. AllSound(Error(Read), gopher)
  BY <1>2, <1>3, ErrorSound
<1>5. AllSound({[Read EXCEPT !.r = Returned(Shut(@, {"ctrl"}), "LOADED")]}, gopher)
  <2> DEFINE q == Shut(req, {"ctrl"})
             p == [q EXCEPT !.ret = "LOADED"]
  <2>1. SameLoad(req, q) /\ SameData(req, q) /\ q.socks = {} /\ q \in Request
    BY <1>2, <1>3, ShutSocks DEF SameLoad
  <2> HIDE DEF q
  <2>2. "LOADED" \in Results
    BY DEF Results
  <2>3. p.told = q.told /\ p.ret = "LOADED" /\ p.fed = q.fed
    BY <2>1 DEF Request
  <2> HIDE DEF p
  <2>4. req.mode = "proxy" => Due(p, Read.f, gopher)
    BY <1>2, <1>3, <2>1, <2>3 DEF Due, InFTP, Clean, Explained, SameLoad, SameData
  <2>5. Returns(q, "LOADED", Read.f, gopher)
    BY <1>3, <2>1, <2>4 DEF Returns, p, InFTP, Relays, SameLoad
  <2>6. Sound(Returned(q, "LOADED"), Read.f, gopher)
    BY <1>2, <1>3, <2>1, <2>2, <2>5, ReturnedSound
  <2> DEFINE z == [Read EXCEPT !.r = Returned(q, "LOADED")]
  <2>7. z.r = Returned(q, "LOADED") /\ z.f = Read.f
    BY <1>3 DEF Both
  <2> HIDE DEF z
  <2>8. AllSound({z}, gopher)
    BY <2>6, <2>7 DEF AllSound
  <2> QED
    BY <1>3, <2>8 DEF z, q
<1>6. Becomes(IF Response \div 100 # 2 THEN Error(Read)
              ELSE {[Read EXCEPT !.r = Returned(Shut(@, {"ctrl"}), "LOADED")]})
  BY DEF HTFTP_logout
<1> QED
  BY <1>4, <1>5, <1>6, BecomesSound

\* All steps of HTLoadFTP are sound.
LEMMA FTPSound ==
    ASSUME LInv, FTPStep
    PROVE  LInv'
<1>1. Sound(req', ftp', gopher)
  BY InitConSound, LoginStepSound, DataConnectionSound, ServerInfoSound, ChangeDirectorySound,
     TransferStartsSound, LookForDataSound, HandleCtrlSound, SwitchToPortSound, ReadyForDataSound,
     GotDataStepSound, LogoutSound DEF FTPStep, FTPNext
<1> QED
  BY <1>1 DEF LInv, FTPStep

-----------------------------------------------------------------------------
(* The loads                                                               *)

\* A load begins with nothing open, told or fed.
LEMMA LoadsInitSound == LoadsInit => LInv
<1> SUFFICES ASSUME LoadsInit PROVE LInv
  OBVIOUS
<1>1. PICK m \in Modes, a \in Address :
          req = NewRequest(m, a) /\ (m # "client" => ~a.memory /\ ~a.cached)
  BY DEF LoadsInit, LoadInit
<1>2. "document" \in Place /\ "ERROR" \in Results /\ <<>> \in Seq({"redirect", "auth"})
  BY DEF Place, Results
<1>3. /\ req \in Request /\ req.pc = "document" /\ req.mode = m /\ req.address = a
      /\ req.frames = <<>> /\ req.socks = {} /\ Untouched(req)
  BY <1>1, <1>2 DEF NewRequest, Request, Untouched
<1>4. ftp \in Connection /\ ftp.state = "FTP_BEGIN" /\ ftp.owed = <<>>
  <2>1. ftp \in [state : {"FTP_BEGIN"}, owed : {<<>>}, lost : {FALSE}, asked : {TRUE},
                 passwd : BOOLEAN, datatype : BOOLEAN, directory : BOOLEAN,
                 path : 0 .. MaxSegments, passive : {0}, server : {FALSE},
                 retry : {0}, multiple : {FALSE}, handle_ctrl : {FALSE}]
    BY DEF LoadsInit, FTPInit
  <2>2. ftp.owed = <<>> /\ ftp.state = "FTP_BEGIN" /\ "FTP_BEGIN" \in States
    BY <2>1 DEF States
  <2>3. ftp.owed \in Seq([to : Sent, code : Nat])
    BY <2>2
  <2>4. ftp.path \in Int /\ ftp.passive \in 0 .. 2 /\ ftp.retry \in 0 .. 1
    BY <2>1 DEF MaxSegments
  <2> QED
    BY <2>1, <2>2, <2>3, <2>4 DEF Connection
<1>5. gopher \in GopherInfo /\ ~gopher.target /\ ~gopher.files
  BY DEF LoadsInit, GopherInit, GopherInfo
<1>6. Relays(req)
  BY <1>1, <1>3 DEF Relays
<1>7. /\ Spoken(req) /\ FewSocks(req, ftp) /\ Fresh(req, ftp, gopher) /\ Dialogue(req, ftp)
      /\ ProxyData(req, ftp, gopher)
  BY <1>3, <1>4, <1>5 DEF Spoken, FewSocks, Fresh, Dialogue, ProxyData, MenuAt, NewsAt
<1> QED
  BY <1>3, <1>4, <1>5, <1>6, <1>7 DEF LInv, Sound

\* One step per protocol module; what HTTCP.c does beneath them changes nothing of a load.
LEMMA LoadsNextSound == LInv /\ [LoadsNext]_<<loadVars, hostVars>> => LInv'
<1> SUFFICES ASSUME LInv, [LoadsNext]_<<loadVars, hostVars>> PROVE LInv'
  OBVIOUS
<1>1. CASE LoadStep \/ HTTPStep \/ FTPStep \/ GopherStep \/ NewsStep \/ FileStep
  BY <1>1, LoadSound, HTTPSound, FTPSound, GopherSound, NewsSound, FileSound
<1>2. CASE UNCHANGED loadVars
  BY <1>2 DEF loadVars, LInv
<1> QED
  BY <1>1, <1>2 DEF LoadsNext, Over

\* The inductive invariant of the loads.
THEOREM LoadsInductive == LoadsSpec => []LInv
  BY LoadsInitSound, LoadsNextSound, PTL DEF LoadsSpec

\* However a load goes, with whatever servers, addresses, proxies and gateways: its sockets
\* are closed at the end, but for that of an HTTP server that a browser forgets.
THEOREM LoadSocketsClosed == LoadsSpec => []SocketsClosed
<1>1. LInv => SocketsClosed
  BY DEF LInv, Sound, FewSocks, SocksAt, SocketsClosed, HTTPAt, MenuAt, BackAt
<1> QED
  BY <1>1, LoadsInductive, PTL

\* The FTP client reads the reply to the command it waits for, also when a transfer is
\* announced and its end reported, tried again, or refused on the data connection.
THEOREM RepliesInStep == LoadsSpec => []FTPInStep
<1>1. LInv => FTPInStep
  <2> SUFFICES ASSUME LInv, req.pc = "ftp", ftp.owed # <<>>
               PROVE  IsAwaited(Head(ftp.owed).to)
    BY DEF FTPInStep
  <2>1. ftp \in Connection /\ InStep(ftp)
    BY DEF LInv, Sound, Dialogue
  <2>2. Head(ftp.owed) = ftp.owed[1]
    BY <2>1 DEF Connection
  <2>3. \/ Next1(ftp) \in Commands
        \/ ftp.state = "SENT_QUIT" /\ ftp.handle_ctrl /\ ftp.owed[1].to \in Transfers
    BY <2>1 DEF InStep, Single, Double
  <2> QED
    BY <2>2, <2>3 DEF IsAwaited, Next1
<1> QED
  BY <1>1, LoadsInductive, PTL

\* The client of a proxy gets the document or one message with a reason, for all
\* protocols but news.
THEOREM ProxyClientAnswered == LoadsSpec => []ClientAnswered
<1>1. LInv => ClientAnswered
  <2> SUFFICES ASSUME LInv, Proxied PROVE ClientServed /\ FailureExplained
    BY DEF ClientAnswered, ClientServed, FailureExplained
  <2>1. req.protocol # "news" => Served(req, ftp, gopher)
    BY DEF LInv, Sound, ProxyData, Proxied
  <2>2. ClientServed
    BY <2>1 DEF Served, ClientServed, PhoneBook
  <2>3. FailureExplained
    BY <2>1 DEF Served, Explained, FailureExplained
  <2> QED
    BY <2>2, <2>3
<1> QED
  BY <1>1, LoadsInductive, PTL

\* Beneath the loads HTTCP.c works as it does alone: what is proved of it holds of them.
THEOREM LoadsKeepContract == LoadsSpec => ConnectKept /\ []HostCacheBounded
<1>1. LoadsInit => HostInit
  BY DEF LoadsInit
<1>2. [LoadsNext]_<<loadVars, hostVars>> => [HostNext]_hostVars
  BY DEF LoadsNext, Over
<1>3. LoadsSpec => HostSpec
  BY <1>1, <1>2, PTL DEF LoadsSpec, HostSpec
<1> QED
  BY <1>3, ConnectImplements, HostCacheStaysBounded, PTL

=============================================================================
