-------------------------------- MODULE Loads ---------------------------------
(***************************************************************************)
(* The library's loads as one system: HTAccess.c with the protocol modules *)
(* that it calls, and HTTCP.c beneath them; the loader of local files      *)
(* (HTFile.c) is here too.  The protocol modules see of HTTCP.c the        *)
(* contract of module Connecting only; HostCache, which works beside them  *)
(* here, is shown to keep it (ConnectKept).                                *)
(***************************************************************************)
EXTENDS Clients, FTPClient, HostCache

-----------------------------------------------------------------------------
(* Library/Implementation/HTFile.c and HTTelnet.c: a file or a directory   *)
(* of the local file system is loaded, and what cannot be found there is   *)
(* looked for by FTP on the host that the address names; an interactive    *)
(* session is given a program of its own.                                  *)

\* HTBrowseDirectory: the directory may not be browsed or read, or is shown.
HTBrowseDirectory(r) ==
    {Returned(HTErrorAdd(r, "FATAL"), "ERROR"), Returned(Delivered(r), "LOADED")}

\* What cannot be opened is asked of the host in the address, if it is another
\* one (a server has replaced the address by a path).
TriesFTP(r) ==
    {Returned(r, "ERROR")}
    \cup (IF r.mode = "client" THEN {Goes(HTErrorAdd(r, "FATAL"), "ftp")} ELSE {})

\* HTLoadFile: with HTSecure no local file is opened; one with MULTI_SUFFIX that
\* HTMulti does not find fails without an error.
HTLoadFile ==
    /\ req.pc = "file"
    /\ \/ req.mode = "client" /\ req' \in TriesFTP(req)
       \/ req' = Returned(req, "ERROR")
       \/ req' \in HTBrowseDirectory(req)
       \/ \E d \in HTParseFile(req) : req' = Returned(d.r, IF d.ok THEN "LOADED" ELSE "ERROR")
       \/ req' \in TriesFTP(HTErrorAdd(req, "FATAL"))

\* HTLoadTelnet with remote_session: a session has no output stream.
HTLoadTelnet ==
    /\ req.pc \in {"telnet", "tn3270", "rlogin"}
    /\ req' = Returned(req, IF req.mode # "client" THEN "NO_ACCESS" ELSE "NO_DATA")

FileNext == HTLoadFile \/ HTLoadTelnet

-----------------------------------------------------------------------------
(* The loads.                                                              *)

loadVars == <<req, http, ftp, gopher, news>>

LoadsInit == LoadInit /\ HTTPInit /\ FTPInit /\ GopherInit /\ NewsInit /\ HostInit

LoadStep == LoadNext /\ UNCHANGED <<http, ftp, gopher, news>>
HTTPStep == HTTPNext /\ UNCHANGED <<ftp, gopher, news>>
FTPStep == FTPNext /\ UNCHANGED <<http, gopher, news>>
GopherStep == GopherNext /\ UNCHANGED <<http, ftp, news>>
NewsStep == NewsNext /\ UNCHANGED <<http, ftp, gopher>>
FileStep == FileNext /\ UNCHANGED <<http, ftp, gopher, news>>

Ended == req.pc \in {"done", "crashed"}
Over == Ended /\ net.pc = "idle" /\ UNCHANGED <<loadVars, hostVars>>

LoadsNext ==
    \/ /\ LoadStep \/ HTTPStep \/ FTPStep \/ GopherStep \/ NewsStep \/ FileStep
       /\ UNCHANGED hostVars
    \/ HostNext /\ UNCHANGED loadVars
    \/ Over

LoadsSpec == LoadsInit /\ [][LoadsNext]_<<loadVars, hostVars>>

\* Every read and every connection attempt ends, by the peer or by a timeout (the
\* daemon's, or TCP's), and a server of menus ends its answer some time.
Fairness ==
    /\ WF_loadVars(LoadStep) /\ WF_loadVars(HTTPStep) /\ WF_loadVars(FTPStep)
    /\ WF_loadVars(GopherStep /\ req'.pc # req.pc)
    /\ WF_loadVars(NewsStep) /\ WF_loadVars(FileStep)

-----------------------------------------------------------------------------
(* Properties                                                              *)

Proxied == req.pc = "done" /\ req.mode = "proxy"

\* The client of a proxy is never left without an answer, and never gets an error
\* message behind a document: one of the two arrives.  Three exceptions are the
\* code's: an FTP transfer that is tried again after its data went out, a phone
\* book that answers with its last line first, and news, where the stream is put
\* up too early for any message.
ClientServed ==
    Proxied => \/ req.fed /\ (req.told => ftp.retry = 1)
               \/ req.told /\ ~req.fed /\ req.ended = 1
               \/ /\ req.protocol = "gopher" /\ gopher.type = "GOPHER_CSO"
                  /\ req.ret = "LOADED"
               \/ req.protocol = "news"

\* A load that fails for a proxy's client leaves something to tell it: an error
\* that is more than a warning.  (News without a news host has none, nor has a local
\* file, which a proxy would load for a gateway with such a URL only.)
FailureExplained ==
    Proxied /\ req.ret = "ERROR" /\ req.protocol \notin {"news", "file"} =>
        req.errs \cap {"FATAL", "NON_FATAL"} # {}

\* Both: a proxy's client gets the document or a message with a reason.
ClientAnswered == ClientServed /\ FailureExplained

\* However a load goes, failures, retries and redirections included, its sockets
\* are closed at the end; but a browser forgets that of an HTTP server whose
\* status line it cannot parse (HTTP.c:620).
SocketsClosed ==
    req.pc = "done" => /\ req.socks \subseteq {"http"}
                       /\ req.mode = "proxy" => req.socks = {}

\* Every load comes to an end: the dialogues with servers, their retries, the
\* redirections and the prompts for passwords cannot go on for ever.
LoadEnds == <>Ended

=============================================================================
