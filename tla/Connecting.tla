----------------------------- MODULE Connecting -----------------------------
(***************************************************************************)
(* The contract of HTDoConnect (Library/Implementation/HTTCP.c), on which  *)
(* the protocol modules rely: r has the error stack .errs (HTError.c) and  *)
(* the open sockets .socks.  Module HostCache is shown to keep it.         *)
(***************************************************************************)

Severities == {"FATAL", "NON_FATAL", "WARNING", "INFO"}

HTErrorAdd(r, severity) == [r EXCEPT !.errs = @ \cup {severity}]
Opened(r, s) == [r EXCEPT !.socks = @ \cup {s}]

\* A socket s is connected, at once or after other addresses of a multi-homed
\* host have failed; or none is left open and there is an error, which is not
\* fatal when all addresses of a multi-homed host have failed.
HTDoConnect(r, s) ==
    {[ok |-> TRUE, r |-> Opened(r, s)],
     [ok |-> TRUE, r |-> Opened(HTErrorAdd(r, "NON_FATAL"), s)]}
    \cup {[ok |-> FALSE, r |-> e] :
             e \in {HTErrorAdd(r, "FATAL"), HTErrorAdd(r, "NON_FATAL"),
                    HTErrorAdd(HTErrorAdd(r, "NON_FATAL"), "FATAL")}}

=============================================================================
