------------------------------- MODULE Request ------------------------------
(***************************************************************************)
(* One request in a child of the daemon: HTHandle() in HTDaemon.c, with    *)
(* the access authorisation (Access), the answers of HTLoadError, and the  *)
(* call of a script, HTCallScript() and HTLoadScriptResult() in            *)
(* HTScript.c, beside the script process, the client and the alarm clock.  *)
(*                                                                         *)
(* Bodies are counted in blocks; a pipe holds PipeSize of them.  The relay *)
(* to a remote server is one step here: ProxyCache has its parts.          *)
(***************************************************************************)
EXTENDS Access, Naturals

CONSTANTS
    Requests,      \* [method, arg, cred, content_length, http1, ims]
    ArgPath,       \* ArgPath[a]: path of the URL a, unescaped and simplified
    Dotted,        \* URLs whose path still leaves the top directory
    WithKeywords,  \* URLs with a query part
    Rule,          \* the rules of the configuration file
    Remote,        \* translated URLs of other servers
    NoHead,        \* those of protocols that have no HEAD (ftp, gopher)
    Files,         \* Files[p]: the name of the file that HTMulti finds for p, or None
    ErrorUrls,     \* error numbers that have an error page
    Disabled,      \* sc.disabled: methods
    SearchScript,  \* rc.search_script, or None
    MethodScript,  \* rc.put_script, rc.post_script, rc.delete_script, or None
    Nph,           \* scripts whose name starts with nph-
    Moves,         \* local URLs to which scripts redirect
    DoSetuid,      \* sc.do_setuid
    SystemUsers,   \* names that getpwnam knows
    NoConnect,     \* cc.cache_no_connect
    PipeSize,      \* blocks that a pipe holds
    MaxOutput,     \* bound of the model: blocks that a script writes
    MaxHops        \* 10 in the code

\* Paths are not null pointers, and stay paths.
ASSUME PathAssumption ==
    /\ None \notin Path
    /\ \A p \in Path : ScriptName[p] # None
    /\ \A r \in Requests : r.arg # None => ArgPath[r.arg] \in Path
    /\ Welcome \subseteq Path
    /\ \A p \in DOMAIN Files : Files[p] \in Path \cup {None}

ASSUME RuleAssumption ==
    /\ Rule \in Seq({Rule[i] : i \in DOMAIN Rule})
    /\ \A i \in DOMAIN Rule : \A p \in Path : Mapped(Rule[i], p) \in Path

\* No set-up has documents served as root, nor do the names of users: the code
\* leaves that to the administrator.
ASSUME IdsAssumption ==
    /\ "root" \notin SystemUsers
    /\ \A i \in DOMAIN Rule : Rule[i].setup # None => Rule[i].setup.ids # "root"

ASSUME RequestsAssumption ==
    \A r \in Requests : DOMAIN r = {"method", "arg", "cred", "content_length", "http1", "ims"}

VARIABLES
    pc,       \* where HTHandle is
    req,      \* the HTRequest
    env,      \* the server environment: global variables
    uid,      \* getuid()
    hops,     \* redir_hops
    status,   \* status: "unset" until it is assigned
    err,      \* number and message of the HTLoadError in progress, and what follows
    timer,    \* what SIGALRM does; "lost": set_signals ignores it
    ignore,   \* ignore_sigpipes
    client,   \* "ok", "stalled" (neither sends nor reads) or "gone"
    body,     \* blocks of the request's body that the client still has
    script,   \* the script process and its pipes
    sent,     \* the replies that have been sent: code, what for, with a body or not
    logged    \* lines HTLog_access has written

vars == <<pc, req, env, uid, hops, status, err, timer, ignore, client, body, script, sent, logged>>

Timers == {"input", "output", "script", "cleanup"}

NoScript == [state |-> "none", says |-> None, open |-> FALSE, in |-> 0, out |-> 0,
             left |-> 0, remain |-> 0, held |-> FALSE, headers |-> FALSE]

\* reset_server_env; HTIds and the uid come from the parent.
Env0 == [HTReqArg |-> None, HTReqArgPath |-> None, HTReqTranslated |-> None,
         HTReqScript |-> None, HTScriptPathInfo |-> None, HTScriptPathTrans |-> None,
         HTLocation |-> None, HTReason |-> "OK", HTReasonLine |-> None,
         HTUser |-> None, HTProt |-> None, HTDefProt |-> None, HTIds |-> None,
         status_code |-> 0]

\* What is left from an earlier URL: HTReason, HTReasonLine, HTUser, HTProt,
\* HTDefProt, HTIds and the status code.
compute_server_env(e, arg) ==
    [e EXCEPT !.HTReqArg = arg,
              !.HTReqArgPath = IF arg = None THEN None ELSE ArgPath[arg],
              !.HTReqTranslated = None, !.HTReqScript = None,
              !.HTScriptPathInfo = None, !.HTScriptPathTrans = None, !.HTLocation = None,
              !.HTReason = IF arg \in Dotted THEN "DOTDOT" ELSE @]

Init ==
    /\ pc = "parse"
    /\ req \in Requests
    /\ env = Env0
    /\ uid = "root"
    /\ hops = 0
    /\ status = "unset"
    /\ err = None
    /\ timer = "input"
    /\ ignore = FALSE
    /\ client = "ok"
    /\ body = req.content_length
    /\ script = NoScript
    /\ sent = <<>>
    /\ logged = 0

-----------------------------------------------------------------------------
(* The client and the alarm clock.                                         *)

ClientChanges ==
    /\ pc # "exit"
    /\ client # "gone"
    /\ client' \in {"ok", "stalled", "gone"} \ {client}
    /\ UNCHANGED <<pc, req, env, uid, hops, status, err, timer, ignore, body, script, sent, logged>>

\* input_timed_out and its fellows: nothing is logged, a script is killed.
\* CleanUp is the end of HTHandle in any case.
TimedOut ==
    /\ pc # "exit"
    /\ timer \in Timers
    /\ pc' = "exit"
    /\ timer' = "off"
    /\ script' = IF timer = "script" THEN [script EXCEPT !.state = "exited"] ELSE script
    /\ UNCHANGED <<req, env, uid, hops, status, err, ignore, client, body, sent, logged>>

\* sig_pipe when the signal is not ignored: the child is gone, unlogged.
Die == pc' = "exit" /\ timer' = "off" /\ UNCHANGED <<env, status, err, script, sent>>

-----------------------------------------------------------------------------
(* Answers.                                                                *)

Reply(code, why, withBody) == [code |-> code, why |-> why, body |-> withBody]

\* HTReplyHeaders, when the client speaks HTTP1.
HTReplyHeaders(e) ==
    IF ~req.http1
    THEN e
    ELSE [e EXCEPT !.status_code = IF @ = 0 THEN 500 ELSE @,
                   !.HTReasonLine = IF @ = None THEN "Internal error" ELSE @]

Send(e, withBody) ==
    sent' = Append(sent, Reply(e.status_code, e.HTReasonLine, withBody))

Error(num, why, next) == err' = [num |-> num, why |-> why, next |-> next] /\ pc' = "error"

\* HTLoadError.  An error page is sent with the code and the message that are
\* there already.  The second answer goes to a stream that has been freed:
\* it may be sent, or the child crashes.
HTLoadError ==
    /\ pc = "error"
    /\ client = "ok"
    /\ LET e == HTReplyHeaders(IF err.num \in ErrorUrls THEN env
                               ELSE [env EXCEPT !.status_code = err.num,
                                                !.HTReasonLine = err.why]) IN
       env' = e /\ sent' = Append(sent, Reply(e.status_code, err.why, req.method # "HEAD"))
    /\ \/ pc' = err.next
       \/ sent # <<>> /\ pc' = "exit"
    /\ err' = None
    /\ UNCHANGED <<req, uid, hops, status, timer, ignore, client, body, script, logged>>

\* The answer meets a closed connection.
ErrorToNobody ==
    /\ pc \in {"error", "redirect", "load"}
    /\ client = "gone"
    /\ Die
    /\ UNCHANGED <<req, uid, hops, ignore, client, body, logged>>

-----------------------------------------------------------------------------
(* HTHandle.                                                               *)

\* HTParseRequest, and the checks before the first translation.
ParseRequest ==
    /\ pc = "parse"
    /\ client = "ok"
    /\ timer' = "off"
    /\ env' = compute_server_env(env, req.arg)
    /\ IF req.method = "INVALID" \/ (req.arg = None /\ req.method \notin Disabled)
       THEN Error(400, "Invalid request", "cleanup")
       ELSE IF req.method \in Disabled
       THEN Error(403, "Method disabled", "cleanup")
       ELSE pc' = "authorise" /\ UNCHANGED err
    /\ UNCHANGED <<req, uid, hops, status, ignore, client, body, script, sent, logged>>

\* HTParseRequest returns NULL: nobody is answered.
ParseFails ==
    /\ pc = "parse"
    /\ client = "gone"
    /\ timer' = "off"
    /\ pc' = "cleanup"
    /\ UNCHANGED <<req, env, uid, hops, status, err, ignore, client, body, script, sent, logged>>

Authorise_(files, e) ==
    HTAA_checkAuthorization(Remote, Rule, files, e, req.method, req.cred)

CheckAuthorization ==
    /\ pc = "authorise"
    /\ env' = Authorise_(Files, env)
    /\ IF env'.status_code \in {200, 301, 302}
       THEN pc' = "setuid" /\ UNCHANGED err
       ELSE Error(env'.status_code, env'.HTReasonLine, "cleanup")
    /\ UNCHANGED <<req, uid, hops, status, timer, ignore, client, body, script, sent, logged>>

NewUid ==
    IF DoSetuid /\ env.HTUser \in SystemUsers THEN env.HTUser
    ELSE IF env.HTIds # None THEN env.HTIds ELSE "nobody"

SetUid ==
    /\ pc = "setuid"
    /\ uid' = IF uid = "root" THEN NewUid ELSE uid
    /\ pc' = "serve"
    /\ UNCHANGED <<req, env, hops, status, err, timer, ignore, client, body, script, sent, logged>>

\* "Handle command": the branches.
Gateway == env.HTReason = "OK_GATEWAY"
Redirected == env.HTReason \in {"OK_REDIRECT", "OK_MOVED"}
HasKeywords == env.HTReqArg \in WithKeywords
Local == ~Gateway /\ ~Redirected /\ env.HTReqScript = None

CacheAsked ==
    /\ req.cred = None /\ ~HasKeywords
    /\ \/ req.method = "GET"
       \/ req.method = "HEAD" /\ env.HTReqTranslated \in NoHead

ServeGateway ==
    /\ pc = "serve"
    /\ Gateway
    /\ timer' = "output"
    /\ \/ pc' = "relay" /\ ignore' \in (IF CacheAsked THEN BOOLEAN ELSE {FALSE}) /\ UNCHANGED err
       \/ CacheAsked /\ NoConnect /\ ignore' = TRUE /\ Error(404, "not in cache", "finish")
    /\ UNCHANGED <<req, env, uid, hops, status, client, body, script, sent, logged>>

\* HTLoadToStream, or a copy from the cache.
Relay ==
    /\ pc = "relay"
    /\ client = "ok"
    /\ status' = "HT_LOADED"
    /\ timer' = "off"
    /\ sent' = Append(sent, Reply(200, "remote", req.method # "HEAD"))
    /\ pc' = "finish"
    /\ UNCHANGED <<req, env, uid, hops, err, ignore, client, body, script, logged>>

RelayToNobody ==
    /\ pc = "relay"
    /\ client = "gone"
    /\ IF ignore
       THEN \* the copy for the cache is fetched to its end, without a timer
            /\ \/ timer' = "lost" /\ timer # "lost" /\ UNCHANGED <<pc, status>>
               \/ timer = "lost" /\ timer' = "off" /\ pc' = "finish" /\ status' = "HT_LOADED"
            /\ UNCHANGED <<env, err, script, sent>>
       ELSE Die
    /\ UNCHANGED <<req, uid, hops, ignore, client, body, logged>>

\* Mutant: no alarm is set.
ServeRedirection_NoTimer ==
    /\ pc = "serve"
    /\ Redirected
    /\ pc' = "redirect"
    /\ UNCHANGED <<req, env, uid, hops, status, err, timer, ignore, client, body, script, sent, logged>>

ServeRedirection ==
    /\ pc = "serve"
    /\ Redirected
    /\ timer' = "output"
    /\ pc' = "redirect"
    /\ UNCHANGED <<req, env, uid, hops, status, err, ignore, client, body, script, sent, logged>>

HTLoadRedirection ==
    /\ pc = "redirect"
    /\ client = "ok"
    /\ env' = HTReplyHeaders(env)
    /\ Send(env', req.method # "HEAD")
    /\ status' = "HT_LOADED"
    /\ timer' = "off"
    /\ pc' = "finish"
    /\ UNCHANGED <<req, uid, hops, err, ignore, client, body, script, logged>>

ServeScript ==
    /\ pc = "serve"
    /\ ~Gateway /\ ~Redirected
    /\ env.HTReqScript # None
    /\ pc' = "call"
    /\ UNCHANGED <<req, env, uid, hops, status, err, timer, ignore, client, body, script, sent, logged>>

ServeSearch ==
    /\ pc = "serve"
    /\ Local /\ HasKeywords
    /\ IF SearchScript # None
       THEN /\ env' = [env EXCEPT !.HTReqScript = SearchScript,
                                  !.HTScriptPathInfo = env.HTReqArgPath,
                                  !.HTScriptPathTrans = env.HTReqTranslated]
            /\ pc' = "call"
            /\ UNCHANGED <<status, err>>
       ELSE /\ Error(501, "no searches", "finish")
            /\ status' = "HT_LOADED"
            /\ UNCHANGED env
    /\ UNCHANGED <<req, uid, hops, timer, ignore, client, body, script, sent, logged>>

ServeDocument ==
    /\ pc = "serve"
    /\ Local /\ ~HasKeywords
    /\ req.method \in {"GET", "HEAD"}
    /\ timer' = "output"
    /\ pc' = "load"
    /\ UNCHANGED <<req, env, uid, hops, status, err, ignore, client, body, script, sent, logged>>

\* HTRetrieve, or HTLoadHead.
Load ==
    /\ pc = "load"
    /\ client = "ok"
    /\ \E modified \in (IF req.ims /\ req.method = "GET" THEN BOOLEAN ELSE {TRUE}) :
         LET e == IF modified THEN env
                  ELSE [env EXCEPT !.status_code = 304, !.HTReasonLine = "Not modified"] IN
         /\ env' = HTReplyHeaders(e)
         /\ Send(env', modified /\ req.method = "GET")
    /\ status' = "HT_LOADED"
    /\ timer' = "off"
    /\ pc' = "finish"
    /\ UNCHANGED <<req, uid, hops, err, ignore, client, body, script, logged>>

\* PUT, POST and DELETE.  Without a script, and for other methods, status is
\* not assigned.
ServeByMethod ==
    /\ pc = "serve"
    /\ Local /\ ~HasKeywords
    /\ req.method \notin {"GET", "HEAD"}
    /\ timer' = "output"
    /\ IF req.method \in DOMAIN MethodScript
       THEN IF MethodScript[req.method] # None
            THEN /\ env' = [env EXCEPT !.HTReqScript = MethodScript[req.method],
                                       !.HTScriptPathInfo = env.HTReqArgPath,
                                       !.HTScriptPathTrans = env.HTReqTranslated]
                 /\ pc' = "call"
                 /\ UNCHANGED err
            ELSE Error(500, "not configured", "finish") /\ UNCHANGED env
       ELSE Error(501, "not implemented", "finish") /\ UNCHANGED env
    /\ UNCHANGED <<req, uid, hops, status, ignore, client, body, script, sent, logged>>

-----------------------------------------------------------------------------
(* HTCallScript.                                                           *)

IsNph == env.HTReqScript \in Nph

\* Not executable, or no pipe or process for it.
CallFails ==
    /\ pc = "call"
    /\ Error(500, "Bad script request", "finish")
    /\ status' = "HT_LOADED"
    /\ UNCHANGED <<req, env, uid, hops, timer, ignore, client, body, script, sent, logged>>

\* A body or a content type: the latter is known, too, of the document that
\* is searched.
HasInput == req.content_length > 0 \/ env.HTReqScript = SearchScript

NphStatus ==
    IF IsNph
    THEN status' = "HT_LOADED" /\ env' = [env EXCEPT !.status_code = 0]
    ELSE UNCHANGED <<status, env>>

AfterBody == IF IsNph THEN "wait" ELSE "output"

Fork ==
    /\ pc = "call"
    /\ \E says \in {"document", "elsewhere"} \cup Moves :
         script' = [NoScript EXCEPT !.state = "running", !.says = says, !.left = MaxOutput,
                                    !.open = TRUE, !.remain = req.content_length]
    /\ timer' = "script"
    /\ IF HasInput
       THEN pc' = "body" /\ ignore' = TRUE /\ UNCHANGED <<status, env>>
       ELSE pc' = AfterBody /\ NphStatus /\ UNCHANGED ignore
    /\ UNCHANGED <<req, uid, hops, err, client, body, sent, logged>>

Listens == script.state = "running" /\ script.open

\* The loop that gives the body to the script: getBlock waits for the client,
\* write for room in the pipe.
GetBlock ==
    /\ pc = "body"
    /\ script.remain > 0 /\ ~script.held
    /\ client = "ok"
    /\ body > 0
    /\ body' = body - 1
    /\ script' = [script EXCEPT !.held = TRUE]
    /\ UNCHANGED <<pc, req, env, uid, hops, status, err, timer, ignore, client, sent, logged>>

GiveBlock ==
    /\ pc = "body"
    /\ script.held
    /\ Listens
    /\ script.in < PipeSize
    /\ script' = [script EXCEPT !.in = @ + 1, !.remain = @ - 1, !.held = FALSE]
    /\ UNCHANGED <<pc, req, env, uid, hops, status, err, timer, ignore, client, body, sent, logged>>

\* write fails: sig_pipe, whose set_signals ignores the alarm, and the end of
\* the loop.
BlockRefused ==
    /\ pc = "body"
    /\ script.held
    /\ ~Listens
    /\ timer' = "lost"
    /\ script' = [script EXCEPT !.remain = 0, !.held = FALSE]
    /\ UNCHANGED <<pc, req, env, uid, hops, status, err, ignore, client, body, sent, logged>>

\* After the loop: the line end for scripts that wait for it.
BodyGiven ==
    /\ pc = "body"
    /\ ~script.held
    /\ script.remain = 0 \/ client = "gone"
    /\ Listens => script.in < PipeSize
    /\ timer' = IF Listens THEN timer ELSE "lost"
    /\ ignore' = FALSE
    /\ pc' = AfterBody
    /\ NphStatus
    /\ UNCHANGED <<req, uid, hops, err, client, body, script, sent, logged>>

\* The script: reads its input, closes it, writes, ends.  It holds the other
\* ends of its pipes itself: no end of file on its input, no SIGPIPE on its
\* output.  The model ends with the child.
ScriptReads ==
    /\ pc # "exit"
    /\ Listens
    /\ script.in > 0
    /\ script' = [script EXCEPT !.in = @ - 1]
    /\ UNCHANGED <<pc, req, env, uid, hops, status, err, timer, ignore, client, body, sent, logged>>

ScriptCloses ==
    /\ pc # "exit"
    /\ Listens
    /\ req.content_length > 0
    /\ script' = [script EXCEPT !.open = FALSE]
    /\ UNCHANGED <<pc, req, env, uid, hops, status, err, timer, ignore, client, body, sent, logged>>

ScriptWrites ==
    /\ pc # "exit"
    /\ script.state = "running"
    /\ script.left > 0
    /\ IF IsNph
       THEN /\ client = "ok"
            /\ script' = [script EXCEPT !.left = @ - 1, !.headers = TRUE]
            /\ sent' = IF script.headers THEN sent
                       ELSE Append(sent, Reply(0, "by the script", TRUE))
       ELSE /\ script.out < PipeSize
            /\ script' = [script EXCEPT !.left = @ - 1, !.out = @ + 1]
            /\ UNCHANGED sent
    /\ UNCHANGED <<pc, req, env, uid, hops, status, err, timer, ignore, client, body, logged>>

ScriptExits ==
    /\ pc # "exit"
    /\ script.state = "running"
    /\ script' = [script EXCEPT !.state = "exited"]
    /\ UNCHANGED <<pc, req, env, uid, hops, status, err, timer, ignore, client, body, sent, logged>>

\* HTLoadScriptResult: the first block has the headers.
\* Mutant: the answer is begun before the Location field is looked at.
ReadLocal_Answer ==
    /\ pc = "output"
    /\ script.out > 0 /\ ~script.headers
    /\ script.says \in Moves
    /\ env' = [env EXCEPT !.HTLocation = script.says]
    /\ sent' = Append(sent, Reply(env.status_code, env.HTReasonLine, FALSE))
    /\ status' = "HT_REDIRECTION_ON_FLY"
    /\ pc' = "wait"
    /\ UNCHANGED <<req, uid, hops, err, timer, ignore, client, body, script, logged>>

ReadLocal ==
    /\ pc = "output"
    /\ script.out > 0 /\ ~script.headers
    /\ script.says \in Moves
    /\ env' = [env EXCEPT !.HTLocation = script.says]
    /\ status' = "HT_REDIRECTION_ON_FLY"
    /\ pc' = "wait"
    /\ script' = [script EXCEPT !.out = @ - 1]
    /\ UNCHANGED <<req, uid, hops, err, timer, ignore, client, body, sent, logged>>

ReadElsewhere ==
    /\ pc = "output"
    /\ script.out > 0 /\ ~script.headers
    /\ script.says = "elsewhere"
    /\ client = "ok"
    /\ env' = HTReplyHeaders([env EXCEPT !.status_code = 302, !.HTReasonLine = "Found"])
    /\ Send(env', req.method # "HEAD")
    /\ status' = "HT_LOADED"
    /\ pc' = "wait"
    /\ script' = [script EXCEPT !.out = @ - 1]
    /\ UNCHANGED <<req, uid, hops, err, timer, ignore, client, body, logged>>

\* A document: HTContentCounter keeps an HTTP1 reply back until its end.
ReadDocument ==
    /\ pc = "output"
    /\ script.out > 0
    /\ script.headers \/ script.says = "document"
    /\ req.http1 \/ client = "ok"
    /\ script' = [script EXCEPT !.out = @ - 1, !.headers = TRUE]
    /\ sent' = IF req.http1 \/ script.headers THEN sent
               ELSE Append(sent, Reply(env.status_code, env.HTReasonLine, req.method # "HEAD"))
    /\ UNCHANGED <<pc, req, env, uid, hops, status, err, timer, ignore, client, body, logged>>

EndOfOutput ==
    /\ pc = "output"
    /\ script.out = 0
    /\ script.state = "exited"
    /\ IF script.headers /\ req.http1
       THEN client = "ok" /\ env' = HTReplyHeaders(env) /\ Send(env', req.method # "HEAD")
       ELSE UNCHANGED <<env, sent>>
    /\ status' = "HT_LOADED"
    /\ pc' = "wait"
    /\ UNCHANGED <<req, uid, hops, err, timer, ignore, client, body, script, logged>>

OutputToNobody ==
    /\ pc = "output"
    /\ client = "gone"
    /\ \/ script.out > 0 /\ (script.says = "elsewhere" \/ (script.says = "document" /\ ~req.http1))
       \/ script.out = 0 /\ script.state = "exited" /\ script.headers /\ req.http1
    /\ Die
    /\ UNCHANGED <<req, uid, hops, ignore, client, body, logged>>

\* waitpid, and the end of HTCallScript.
Wait ==
    /\ pc = "wait"
    /\ script.state = "exited"
    /\ script' = NoScript
    /\ timer' = "off"
    /\ pc' = "finish"
    /\ UNCHANGED <<req, env, uid, hops, status, err, ignore, client, body, sent, logged>>

-----------------------------------------------------------------------------
(* After the command.                                                      *)

\* The variable status is read; what it holds when it was not assigned is
\* any value.
StatusRead == IF status = "unset" THEN {"HT_REDIRECTION_ON_FLY", "other"} ELSE {status}

\* Mutant: the hops are not counted.
Finish_NoCount ==
    /\ pc = "finish"
    /\ timer' = "off"
    /\ \E s \in StatusRead :
         IF s # "HT_REDIRECTION_ON_FLY"
         THEN pc' = "cleanup" /\ UNCHANGED <<req, env, hops, err>>
         ELSE /\ pc' = "authorise"
              /\ req' = [req EXCEPT !.method = IF @ \in {"GET", "HEAD"} THEN @ ELSE "GET"]
              /\ env' = compute_server_env(env, env.HTLocation)
              /\ UNCHANGED <<hops, err>>
    /\ UNCHANGED <<uid, status, ignore, client, body, script, sent, logged>>

Finish ==
    /\ pc = "finish"
    /\ timer' = "off"
    /\ \E s \in StatusRead :
         IF s # "HT_REDIRECTION_ON_FLY"
         THEN pc' = "cleanup" /\ UNCHANGED <<req, env, hops, err>>
         ELSE /\ hops' = hops + 1
              /\ IF hops' > MaxHops
                 THEN Error(501, "Too many hops", "cleanup") /\ UNCHANGED <<req, env>>
                 ELSE /\ pc' = "authorise"
                      /\ req' = [req EXCEPT !.method = IF @ \in {"GET", "HEAD"} THEN @ ELSE "GET"]
                      /\ env' = compute_server_env(env, env.HTLocation)
                      /\ UNCHANGED err
    /\ UNCHANGED <<uid, status, ignore, client, body, script, sent, logged>>

\* HTLog_access, and the return to the loop of the daemon.
CleanUp ==
    /\ pc = "cleanup"
    /\ logged' = logged + 1
    /\ timer' = "off"
    /\ pc' = "exit"
    /\ UNCHANGED <<req, env, uid, hops, status, err, ignore, client, body, script, sent>>

-----------------------------------------------------------------------------
Work ==
    \/ ParseRequest \/ ParseFails \/ SetUid
    \/ HTLoadError \/ ErrorToNobody
    \/ ServeGateway \/ Relay \/ RelayToNobody
    \/ ServeRedirection \/ HTLoadRedirection
    \/ ServeScript \/ ServeSearch \/ ServeDocument \/ Load \/ ServeByMethod
    \/ CallFails \/ Fork \/ GetBlock \/ GiveBlock \/ BlockRefused \/ BodyGiven
    \/ ReadLocal \/ ReadElsewhere \/ ReadDocument \/ EndOfOutput \/ OutputToNobody \/ Wait
    \/ Finish \/ CleanUp

Script == ScriptReads \/ ScriptCloses \/ ScriptWrites \/ ScriptExits

Next == CheckAuthorization \/ Work \/ Script \/ ClientChanges \/ TimedOut

Spec == Init /\ [][Next]_vars

\* The child is scheduled and its alarm rings; the client and the script may
\* stop for ever.  Strong fairness: what a client reads now and then is room
\* in the socket's buffer that stays until the child writes.
\* (CheckAuthorization is described by where it leads: it is never blocked, and
\* the model checker need not work out whether the authorisation is enabled.)
Authorises == pc = "authorise" /\ pc' \in {"setuid", "error"}

FairSpec == Spec /\ WF_pc(Authorises) /\ SF_vars(Work) /\ WF_vars(TimedOut)

-----------------------------------------------------------------------------
(* Properties.                                                             *)

Serving == pc \in {"relay", "load", "call", "body", "output", "wait"}

\* Every variable has a value of its kind; after the checks of the request
\* HTReason is one that HTAA_checkAuthorization can leave.
TypeOK ==
    /\ pc \in {"parse", "authorise", "setuid", "serve", "relay", "redirect", "load", "call",
               "body", "output", "wait", "error", "finish", "cleanup", "exit"}
    /\ req \in Requests \cup {[r EXCEPT !.method = "GET"] : r \in Requests}
    /\ env.HTReason \in RuleReasons \cup
         {"DOTDOT", "NOT_ALLOWED", "NO_ACL", "NO_AUTH", "NOT_MEMBER", "IP_MASK", "IP_MASK_PROXY",
          "NO_ENTRY", "SETUP_ERROR", "MULTI_FAILED", "OK_GATEWAY"}
    /\ hops \in 0..MaxHops + 1
    /\ status \in {"unset", "HT_LOADED", "HT_REDIRECTION_ON_FLY"}
    /\ (pc = "error" => err # None)
    /\ timer \in Timers \cup {"off", "lost"}
    /\ client \in {"ok", "stalled", "gone"}
    /\ body \in 0..req.content_length
    /\ script.in \in 0..PipeSize /\ script.out \in 0..PipeSize
    /\ logged \in 0..1

\* What HTAA_checkAuthorization says of the present URL in a process that has
\* seen no other.
Fresh == Authorise_(Files, compute_server_env(Env0, env.HTReqArg))

\* The first URL is served only if its client is admitted; another only if the
\* set-up that protects it admits the client.  (With an access control list a set-up
\* that is in force from an earlier URL is used in place of the default one.)
Opens(fresh) ==
    hops = 0 \/ (fresh.HTProt # None /\ Acl[Checked(fresh)] = None) => fresh.status_code = 200

\* What is served, also after redirections on the fly, is open to the client: no
\* state of an earlier hop opens what a set-up protects.
ProtectionHolds == Serving => Opens(Fresh)

\* What the client is told when a file is there and when it is not.
SameIfRefused(present, missing) ==
    present.status_code # 200 =>
        /\ missing.status_code = present.status_code
        /\ missing.HTReasonLine = present.HTReasonLine

\* HTMulti finds no file of that name, or one under another name.
Without(file) == [Files EXCEPT ![file] = None]
FoundAs(file, name) == [Files EXCEPT ![file] = name]

\* The local file of the URL that is about to be authorised.
LocalFiles == {HTTranslateReq(Rule, env).HTReqTranslated} \cap (DOMAIN Files \ Remote)

\* "Tell that file doesn't exist only if user is authorized": if the file would be
\* refused, the answer is the same when it does not exist - whatever the name that
\* it has with its suffix, if the access control list treats both names alike.
ExistenceHidden ==
    pc = "authorise" =>
        \A file \in LocalFiles : \A name \in {n \in Path \ Welcome : Acl[n] = Acl[file]} :
            SameIfRefused(Authorise_(FoundAs(file, name), env), Authorise_(Without(file), env))

\* The same as the comment has it, whatever the names and the lists, of every file that
\* there is but a directory that is redirected to its welcome page.
ExistenceUntold ==
    pc = "authorise" =>
        \A file \in {f \in LocalFiles : Files[f] \notin Welcome} :
            SameIfRefused(Authorise_(Files, env), Authorise_(Without(file), env))

\* Does the access control list of a local file admit the user to it?
ListAdmits(e, method) ==
    LET file == e.HTReqTranslated IN
    e.HTReason = "OK" /\ e.HTReqScript = None /\ file # None /\ Acl[file] # None =>
        \E i \in DOMAIN Acl[file][method] : Acl[file][method][i][e.HTUser] = "OK"

\* A file is served as the access control list has it for the name of the file itself,
\* whatever the name that it was asked for.
ListHolds == pc = "serve" => ListAdmits(env, req.method)

\* Nothing is served as root, and the first URL is served under the ids of
\* its own set-up, unless under those of the authenticated user.
ServedAs ==
    Serving =>
        /\ uid # "root"
        /\ hops = 0 /\ env.HTProt # None /\ env.HTProt.ids # None =>
              uid \in {env.HTProt.ids, env.HTUser}

\* PUT and DELETE reach their script only when a set-up allows them.
ChangesNeedPermission ==
    Serving /\ req.method \in {"PUT", "DELETE"} => env.HTProt # None

\* All of it: what is served is what the set-up of its own URL gives away, under
\* the ids it says, and what the list of its directory admits the user to; changes need
\* a set-up; and a refusal does not tell whether the file is there.
AccessRight ==
    ProtectionHolds /\ ServedAs /\ ChangesNeedPermission /\ ExistenceHidden /\ ListHolds

\* A request that is cleaned up has been answered, unless its script was
\* silent or the client has gone; and it has been answered once, unless the
\* first answer came from a branch of HTHandle that does not assign status,
\* which then sends it round again.
AnsweredOnce ==
    /\ pc = "cleanup" /\ sent = <<>> => env.HTReqScript # None \/ client = "gone"
    /\ Len(sent) > 1 => sent[1].why \in {"not in cache", "not configured", "not implemented"}

\* No answer to HEAD has a body, but that of a script that writes to the
\* client itself.
HeadHasNoBody ==
    \A i \in DOMAIN sent : sent[i].body /\ req.method = "HEAD" => sent[i].why = "by the script"

\* Both: one answer, and no more of it than the method asks for.
AnswerRight == AnsweredOnce /\ HeadHasNoBody

\* While the child waits for the client or for a script an alarm is set,
\* unless sig_pipe switched it off.
TimersCover ==
    pc \in {"parse", "load", "redirect", "relay", "body", "output", "wait"} =>
        \/ timer \in Timers
        \/ timer = "lost" /\ (ignore \/ script.state = "exited" \/ ~script.open)

\* A child ends, whatever the client and its script do, unless it sends an
\* error before any alarm is set to a client that does not read, or has lost
\* its alarm.
Ends ==
    \/ <>(pc = "exit")
    \/ <>[](timer = "lost")
    \/ <>[](timer = "off" /\ pc = "error" /\ client = "stalled")

=============================================================================
