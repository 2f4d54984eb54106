------------------------------ MODULE Loading ------------------------------
(***************************************************************************)
(* Library/Implementation/HTAccess.c: how a document is loaded.            *)
(* HTLoadDocument looks for the document in memory and in the cache of a   *)
(* browser, finds the protocol module for its address (get_physical),      *)
(* calls it, and reports its errors.  The protocol modules (Clients,       *)
(* FTPClient) start at req.pc = their name and end at "loaded".            *)
(*                                                                         *)
(* What they share is here too, as operators on the request: the error     *)
(* stack (HTError.c), the stack of streams (HTStreamStack) and its end, and *)
(* the message to the client (HTErrorMsg of HTDaemon.c).  That close()     *)
(* fails is modelled only where the code decides by it.                    *)
(***************************************************************************)
EXTENDS Naturals, Sequences, Connecting

CONSTANTS
    Address,         \* addresses: records of .access, the scheme, .memory and .cached
    Route            \* what rules and environment say of an address, see get_physical

VARIABLE req         \* the HTRequest, and the globals that go with it:
    \* .pc           place in the library
    \* .mode         "proxy": HTImProxy; "server": HTImServer alone; "client": a browser
    \* .address      the address of request->anchor
    \* .protocol     the protocol of request->anchor: what serves the address
    \* .using_proxy  the request goes to a proxy
    \* .frames       the calls that this load is part of: "redirect", "auth", innermost first
    \* .redirections
    \* .ret          what the protocol module returned
    \* .errs         severities on the error stack
    \* .error_block  the stream has been used
    \* .fed, .told   data of a document, an error message have gone to the output stream
    \* .ended        how often the output stream was freed
    \* .socks        sockets (and files) that are open

Modes == {"proxy", "server", "client"}
Results == {"LOADED", "NO_DATA", "ERROR", "NO_ACCESS", "NO_STATUS"}   \* NO_STATUS: 0

\* The protocols that HTAccessInit registers.
protocols == {"ftp", "news", "gopher", "http", "file", "telnet", "tn3270", "rlogin"}

NewRequest(mode, address) ==
    [pc |-> "document", mode |-> mode, address |-> address, protocol |-> "none", using_proxy |-> FALSE,
     frames |-> <<>>, redirections |-> 0, ret |-> "ERROR", errs |-> {},
     error_block |-> FALSE, fed |-> FALSE, told |-> FALSE, ended |-> 0, socks |-> {}]

LoadInit ==
    \E m \in Modes, a \in Address :
        /\ m = "server" => a.access = "file"
        /\ m = "proxy" => a.access # "file"
        /\ m # "client" => ~a.memory /\ ~a.cached
        /\ req = NewRequest(m, a)

-----------------------------------------------------------------------------
(* Operators on a request r                                                *)

Goes(r, pc) == [r EXCEPT !.pc = pc]
HTErrorFree(r) == [r EXCEPT !.errs = {}]
Shut(r, S) == [r EXCEPT !.socks = @ \ S]

\* HTStreamStack puts up a stream for the client, or has no converter for it.
StreamUp(r) == [r EXCEPT !.error_block = TRUE]

\* Mutant: the stream is marked as used before a converter is found.
NoStream_Blocked(r) == HTErrorAdd([r EXCEPT !.error_block = TRUE], "FATAL")

NoStream(r) == HTErrorAdd([r EXCEPT !.error_block = FALSE], "FATAL")

\* A stream is fed; it is freed, and the output stream with it.
Fed(r) == [r EXCEPT !.fed = TRUE]
Freed(r) == [r EXCEPT !.ended = @ + 1]
Delivered(r) == Freed(Fed(StreamUp(r)))

\* HTParseSocket and HTParseFile do nothing when there are errors already.
HTParseSocket(r) ==
    IF r.errs # {} THEN {[ok |-> FALSE, r |-> r]}
    ELSE {[ok |-> TRUE, r |-> Delivered(r)], [ok |-> FALSE, r |-> NoStream(r)]}
HTParseFile(r) == HTParseSocket(r)

\* The protocol module returns v, to HTAA_retryWithAuth or to HTLoad.
Returned(r, v) ==
    [r EXCEPT !.ret = v,
              !.pc = IF r.frames # <<>> /\ Head(r.frames) = "auth"
                     THEN "retried" ELSE "loaded"]

Failed(r) == Returned(HTErrorAdd(r, "FATAL"), "ERROR")

\* The daemon's HTErrorMsg: the messages, unless the stream was used for a
\* document; the stream is freed in either case.
HTErrorMsg(r) ==
    IF r.mode = "client" THEN r
    ELSE Freed([r EXCEPT !.told = (@ \/ ~r.error_block)])

-----------------------------------------------------------------------------
(* HTAccess.c                                                              *)

\* override_proxy(), proxies and gateways: the protocol that serves the address.
get_physical(access, route) ==
    IF route.override THEN access
    ELSE IF route.proxy # "none" THEN route.proxy
    ELSE IF route.gateway # "none" THEN route.gateway
    ELSE IF access = "wais" THEN "http"    \* DEFAULT_WAIS_GATEWAY
    ELSE access

\* HTLoad: a load that a redirection asks for keeps the error stack.
HTLoad(r, route) ==
    LET fresh == IF r.frames # <<>> THEN r
                 ELSE [HTErrorFree(r) EXCEPT !.error_block = FALSE]
        access == get_physical(r.address.access, route)
    IN  IF r.mode = "client" /\ route.forbidden THEN Failed(fresh)
        ELSE IF access \notin protocols THEN Returned(fresh, "NO_ACCESS")
        ELSE [fresh EXCEPT !.pc = access, !.protocol = access,
                           !.using_proxy = ~route.override /\ route.proxy # "none"]

\* HTLoadDocument up to the call of the protocol module: the document is in
\* memory, or in a cache file that can be converted and opened, or is loaded.
\* (A stream put up for a file that then is missing is neither fed nor freed.)
\* For a server's own files no proxy or gateway is named.
HTLoadDocument ==
    /\ req.pc = "document"
    /\ \/ /\ req.address.memory
          /\ req' = [req EXCEPT !.ret = "LOADED", !.pc = "answered"]
       \/ /\ ~req.address.memory /\ req.address.cached
          /\ req' = [Delivered(req) EXCEPT !.ret = "LOADED", !.pc = "answered"]
       \/ /\ ~req.address.memory
          /\ \E route \in Route, r \in {req} \cup
                (IF req.address.cached THEN {StreamUp(req), NoStream(req)} ELSE {}) :
                /\ req.mode = "server" => route.proxy = "none" /\ route.gateway = "none"
                /\ req' = HTLoad(r, route)

\* The end of HTLoadDocument: messages.  A proxy says nothing of a success, and
\* of a request that had no data.
Report ==
    /\ req.pc = "loaded"
    /\ LET message == IF req.mode = "proxy" THEN req.ret \notin {"LOADED", "NO_DATA"}
                      ELSE req.errs # {}
       IN  req' = Goes(IF message THEN HTErrorMsg(req) ELSE req, "answered")

\* HTLoadDocument returns: to the application, or to the HTLoadHTTP that was
\* redirected, which returns to its own HTLoadDocument or retry.
Answer ==
    /\ req.pc = "answered"
    /\ req' = IF req.frames = <<>> THEN Goes(req, "done")
              ELSE Returned([req EXCEPT !.frames = Tail(@)],
                            IF req.ret = "LOADED" THEN "LOADED" ELSE "ERROR")

LoadNext == HTLoadDocument \/ Report \/ Answer

=============================================================================
