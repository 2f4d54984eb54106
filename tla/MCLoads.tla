------------------------------- MODULE MCLoads -------------------------------
(***************************************************************************)
(* Module Loads for TLC.  A behaviour is one load, or connections that are *)
(* asked of HTTCP.c; the two halves share no variable.                     *)
(***************************************************************************)
EXTENDS Loads

Addresses ==
    [access : {"http", "ftp", "gopher", "news", "file", "telnet", "wais", "mailto"},
     memory : {FALSE}, cached : {FALSE}]
    \cup [access : {"http"}, memory : BOOLEAN, cached : BOOLEAN]

Direct == [override |-> FALSE, proxy |-> "none", gateway |-> "none", forbidden |-> FALSE]
Routes ==
    {Direct, [Direct EXCEPT !.forbidden = TRUE], [Direct EXCEPT !.gateway = "http"],
     [Direct EXCEPT !.proxy = "http", !.gateway = "gopher"],
     [Direct EXCEPT !.override = TRUE, !.proxy = "http"]}

\* Hosts with two addresses, with one, and without.
Hosts == {"multi", "home", "other", "unknown"}
Addrs == [h \in Hosts |-> IF h = "multi" THEN 2 ELSE IF h = "unknown" THEN 0 ELSE 1]

\* A protocol module that the address does not need is given one state (a
\* redirection may lead to it nevertheless).
Modules ==
    /\ HTTPInit /\ FTPInit /\ GopherInit /\ NewsInit
    /\ req.mode # "proxy" => http.content = 0
    /\ req.address.access # "http" => ~http.setup
    /\ req.address.access # "ftp" => ~ftp.passwd /\ ftp.datatype /\ ftp.path = 1
    /\ req.address.access # "gopher" => gopher.type = "GOPHER_MENU" /\ ~gopher.query
    /\ req.address.access # "news" => news.wanted = "group" /\ ~news.s
    /\ news.s => req.mode = "client"
    /\ ftp.passwd => ftp.path = 1 /\ ftp.directory

NoLoad ==
    [NewRequest("client", [access |-> "mailto", memory |-> FALSE, cached |-> FALSE])
        EXCEPT !.pc = "done"]

Init ==
    /\ hostcache = <<>> /\ HTCacheSize = 0
    /\ \/ LoadInit /\ net = NewNet("idle", "home", FALSE, MaxConnects)
       \/ req = NoLoad /\ net = NewNet("idle", "home", FALSE, 0)
    /\ Modules

Spec == Init /\ [][LoadsNext]_<<loadVars, hostVars>> /\ Fairness

=============================================================================
