----------------------------- MODULE HostCache -----------------------------
(***************************************************************************)
(* Library/Implementation/HTTCP.c: HTDoConnect and the cache of hosts that *)
(* it resolves names with.  For a host with several addresses the cache    *)
(* keeps a weight per address, the smoothed time that connecting took; a   *)
(* connection is tried with the address of the lowest weight, and tried    *)
(* again, as often as there are addresses, when it fails.                  *)
(*                                                                         *)
(* A step is one lookup and connect().  Weights are in tenths of a second  *)
(* where the code has floating point numbers.                              *)
(***************************************************************************)
EXTENDS Naturals, Sequences, SequencesExt, Connecting

CONSTANTS
    Host,                \* names of hosts
    Homes,               \* their numbers of addresses, 0 for what has no name
    HTConCacheSize,      \* the code's bound of the cache
    Times,               \* seconds that a connect() may take
    MaxConnects          \* bound: connections asked for

ASSUME HostsAssumption ==
    /\ Host # {}
    /\ Homes \in [Host -> Nat]
    /\ HTConCacheSize \in Nat \ {0}
    /\ Times \subseteq Nat

TCP_DELAY == 600         \* seconds counted for a host that cannot be reached
TCP_PENALTY == 1200      \* and for any other failure

VARIABLES
    hostcache,           \* list of .hostname, .hits, .offset and .weight, the newest first
    HTCacheSize,
    net                  \* the HTNetInfo and HTDoConnect's locals: .pc, .host, .port (the
                         \* URL has one), .addressCount, .errs, .socks; .asked, connections
                         \* so far; .tried, the addresses that were tried for this one

hostVars == <<hostcache, HTCacheSize, net>>

NewNet(pc, host, port, asked) ==
    [pc |-> pc, host |-> host, port |-> port, addressCount |-> 0, errs |-> {},
     socks |-> {}, asked |-> asked, tried |-> {}]

HostInit ==
    /\ hostcache = <<>>
    /\ HTCacheSize = 0
    /\ net = NewNet("idle", CHOOSE h \in Host : TRUE, FALSE, 0)

-----------------------------------------------------------------------------
(* The cache                                                               *)

Found(cache, host) == {i \in DOMAIN cache : cache[i].hostname = host}

\* HTTCPCacheRemoveElement.  HTCacheSize is not changed.
HTTCPCacheRemoveElement(cache, i) == RemoveAt(cache, i)

\* HTTCPCacheRemoveHost is called with the host of the URL, its port included.
HTTCPCacheRemoveHost(cache, host, port) ==
    IF port \/ Found(cache, host) = {} THEN cache
    ELSE HTTCPCacheRemoveElement(cache, CHOOSE i \in Found(cache, host) : TRUE)

\* The element with the fewest hits, the last (oldest) of those.
HTTCPCacheGarbage(cache) ==
    IF cache = <<>> THEN cache
    ELSE HTTCPCacheRemoveElement(cache, CHOOSE i \in DOMAIN cache :
            \A j \in DOMAIN cache : \/ cache[i].hits < cache[j].hits
                                    \/ cache[i].hits = cache[j].hits /\ i >= j)

HTTCPCacheAddElement(cache, host) ==
    <<[hostname |-> host, hits |-> 0, offset |-> 1,
       weight |-> [a \in 1 .. Homes[host] |-> 0]]>> \o cache

\* The weight of the address that was used moves towards the time it took, the
\* others' decay.
Reweighed(element, deltatime) ==
    [a \in DOMAIN element.weight |->
        IF a = element.offset THEN (element.weight[a] * 7165 + 28350 * deltatime) \div 10000
        ELSE (element.weight[a] * 9) \div 10]

HTTCPAddrWeights(cache, host, deltatime) ==
    [i \in DOMAIN cache |->
        IF cache[i].hostname # host THEN cache[i]
        ELSE [cache[i] EXCEPT !.weight = Reweighed(cache[i], deltatime)]]

\* HTGetHostByName with use_cur = NO: the cache afterwards.
Lowest(weight) == CHOOSE a \in DOMAIN weight :
    \A b \in DOMAIN weight : weight[a] < weight[b] \/ (weight[a] = weight[b] /\ a <= b)

\* Mutant: nothing is thrown out.
HTGetHostByName_NoGarbage(cache, size, host) ==
    IF Found(cache, host) # {}
    THEN [i \in DOMAIN cache |->
             IF cache[i].hostname # host THEN cache[i]
             ELSE [cache[i] EXCEPT !.hits = @ + 1, !.offset = Lowest(cache[i].weight)]]
    ELSE HTTCPCacheAddElement(cache, host)

HTGetHostByName(cache, size, host) ==
    IF Found(cache, host) # {}
    THEN [i \in DOMAIN cache |->
             IF cache[i].hostname # host THEN cache[i]
             ELSE [cache[i] EXCEPT !.hits = @ + 1, !.offset = Lowest(cache[i].weight)]]
    ELSE HTTCPCacheAddElement(IF size >= HTConCacheSize THEN HTTCPCacheGarbage(cache)
                              ELSE cache, host)

-----------------------------------------------------------------------------
(* HTDoConnect                                                             *)

Ask ==
    /\ net.pc = "idle"
    /\ net.asked < MaxConnects
    /\ \E h \in Host, port \in BOOLEAN : net' = NewNet("asked", h, port, net.asked + 1)
    /\ UNCHANGED <<hostcache, HTCacheSize>>

\* The host has no address, or there is no socket.
NoSocket ==
    /\ net.pc = "asked"
    /\ net' = [HTErrorAdd(net, "FATAL") EXCEPT !.pc = "failed"]
    /\ \/ Homes[net.host] = 0 /\ UNCHANGED <<hostcache, HTCacheSize>>
       \/ /\ Homes[net.host] > 0
          /\ hostcache' = HTGetHostByName(hostcache, HTCacheSize, net.host)
          /\ HTCacheSize' = IF Found(hostcache, net.host) # {} THEN HTCacheSize
                            ELSE HTCacheSize + 1

\* Mutant: the socket of the last address stays open.
GivenUp_Open(n) == [Opened(HTErrorAdd(n, "NON_FATAL"), "net") EXCEPT !.pc = "failed", !.addressCount = 0]

\* All rounds have failed.
GivenUp(n) == [HTErrorAdd(n, "NON_FATAL") EXCEPT !.pc = "failed", !.addressCount = 0]

\* One round of the loop: a connect() that succeeds, or fails with a delay.
Try(succeeds, seconds) ==
    LET homes == Homes[net.host]
        cache == HTGetHostByName(hostcache, HTCacheSize, net.host)
        used == cache[CHOOSE i \in Found(cache, net.host) : TRUE].offset
        now == [net EXCEPT !.tried = @ \cup {used}]
    IN  /\ net.pc = "asked" /\ homes > 0
        /\ HTCacheSize' = IF Found(hostcache, net.host) # {} THEN HTCacheSize
                          ELSE HTCacheSize + 1
        /\ hostcache' = IF homes > 1 THEN HTTCPAddrWeights(cache, net.host, seconds)
                        ELSE IF succeeds THEN cache
                        ELSE HTTCPCacheRemoveHost(cache, net.host, net.port)
        /\ net' =
             IF succeeds THEN [Opened(now, "net") EXCEPT !.pc = "ok", !.addressCount = 0]
             ELSE IF homes = 1 THEN [HTErrorAdd(now, "FATAL") EXCEPT !.pc = "failed"]
             ELSE IF net.addressCount < homes - 1
             THEN [HTErrorAdd(now, "NON_FATAL") EXCEPT !.addressCount = @ + 1]
             ELSE GivenUp(now)

Connects == \E t \in Times : Try(TRUE, t)
Refused == \E t \in Times, d \in {TCP_DELAY, TCP_PENALTY} : Try(FALSE, t + d)

\* The caller is done with the connection.
Close ==
    /\ net.pc \in {"ok", "failed"}
    /\ net' = NewNet("idle", net.host, FALSE, net.asked)
    /\ UNCHANGED <<hostcache, HTCacheSize>>

HostNext == Ask \/ NoSocket \/ Connects \/ Refused \/ Close

HostSpec == HostInit /\ [][HostNext]_hostVars

-----------------------------------------------------------------------------
(* Properties                                                              *)

\* The cache of hosts does not grow over its bound although HTCacheSize counts
\* the elements that were added only, and holds no host twice (a second
\* element would never be found again).
HostCacheBounded ==
    /\ Len(hostcache) <= HTConCacheSize
    /\ \A i, j \in DOMAIN hostcache :
          hostcache[i].hostname = hostcache[j].hostname => i = j

\* Refinement: HTDoConnect with all its rounds is the one step of the contract
\* that the protocol modules rely on; errors of earlier rounds become visible
\* with the result.
Contract ==
    INSTANCE ConnectContract WITH
        conn <- [pc |-> net.pc, socks |-> net.socks,
                 errs |-> IF net.pc = "asked" THEN {} ELSE net.errs]
ConnectKept == Contract!ContractSpec

=============================================================================
