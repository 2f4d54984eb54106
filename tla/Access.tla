-------------------------------- MODULE Access --------------------------------
(***************************************************************************)
(* What becomes of a request's path, in two parts: the rule system of the  *)
(* daemon, HTTranslateReq() in Daemon/Implementation/HTConfig.c, with the  *)
(* protection set-ups it puts in force (HTAAProt.c); and, further down,    *)
(* the access authorisation (HTAAServ.c).                                  *)
(*                                                                         *)
(* A path is an element of Path.  A rule is a record [op, pat, eqv,        *)
(* setup]: pat is the set of paths its pattern matches, eqv the function   *)
(* that maps them (NoEqv: no second argument), setup the protection set-up *)
(* it names (None: not given). The environment of a request, global        *)
(* variables in the code, is a record; a field has the name of the         *)
(* variable.                                                               *)
(***************************************************************************)
EXTENDS Naturals, Sequences

CONSTANTS
    None,         \* a null pointer
    NoEqv,        \* a rule without a second argument
    Path,         \* paths
    UserDir,      \* paths that begin with /~
    Bare,         \* those of UserDir that are a user's name and no more
    Home,         \* Home[p]: path p of UserDir under the user's home, or None
    ScriptName,   \* ScriptName[p]: p up to the slash after the first wild
    PathInfo,     \* PathInfo[p]: the rest, or None
    WithSlash     \* WithSlash[a]: request argument a with a slash appended

\* HTAAFailReason, as far as the rules set it.
RuleReasons == {"OK", "BY_RULE", "INVALID_REDIRECT", "INVALID_USER", "OK_REDIRECT", "OK_MOVED"}

\* The first statements of the loop: does the rule match, and what does it
\* make of the path?
Mapped(r, path) == IF r.eqv = NoEqv THEN path ELSE r.eqv[path]

\* Mutant: a set-up that is in force already is kept.
SetProtection_Keep(r, e) ==
    IF r.op = "DefProt"
    THEN [e EXCEPT !.HTDefProt = r.setup]
    ELSE IF e.HTProt = None
    THEN [e EXCEPT !.HTProt = IF r.setup # None THEN r.setup ELSE e.HTDefProt]
    ELSE e

\* HTAA_setDefaultProtection, HTAA_setCurrentProtection, or the set-up of the
\* configuration file.  A Protect rule without a set-up uses the default one.
SetProtection(r, e) ==
    IF r.op = "DefProt"
    THEN [e EXCEPT !.HTDefProt = r.setup]
    ELSE IF r.setup # None
    THEN [e EXCEPT !.HTProt = r.setup, !.HTIds = r.setup.ids]
    ELSE IF e.HTDefProt # None
    THEN [e EXCEPT !.HTProt = e.HTDefProt,
                   !.HTIds = IF e.HTDefProt.ids # None THEN e.HTDefProt.ids ELSE @]
    ELSE [e EXCEPT !.HTProt = None]

Refused(e, why) == [e EXCEPT !.HTReason = why]

\* Redirect and Move.
Redirect(r, e, path) ==
    IF r.eqv = NoEqv
    THEN Refused(e, "INVALID_REDIRECT")
    ELSE [e EXCEPT !.HTReason = IF r.op = "Moved" THEN "OK_MOVED" ELSE "OK_REDIRECT",
                   !.HTLocation = path]

\* The label ok: user directories, and where the result goes.
Passed(e, path, dry) ==
    IF path \in Bare
    THEN [e EXCEPT !.HTReason = "OK_REDIRECT", !.HTLocation = WithSlash[e.HTReqArg]]
    ELSE LET file == IF path \in UserDir THEN Home[path] ELSE path IN
         IF file = None
         THEN [e EXCEPT !.HTReason = "INVALID_USER"]
         ELSE IF dry THEN [e EXCEPT !.HTScriptPathTrans = file]
         ELSE [e EXCEPT !.HTReqTranslated = file]

\* The loop over the rules, one rule: s is [e, path, done].  In a dry run,
\* which translates the rest of a script's path, only Map, Pass and Fail act,
\* but every rule that matches maps the path.
Ignored(r, dry) == dry /\ r.op \notin {"Map", "Pass", "Fail"}

\* The end of the loop: user directories pass, other paths are refused.
AfterRules(e, path, dry) ==
    IF path \in UserDir THEN Passed(e, path, dry)
    ELSE Refused([e EXCEPT !.HTReqTranslated = None], "BY_RULE")

DryRule(s, r) ==
    IF s.done \/ s.path \notin r.pat
    THEN s
    ELSE LET path == Mapped(r, s.path) IN
         IF Ignored(r, TRUE) \/ r.op = "Map"
         THEN [s EXCEPT !.path = path]
         ELSE IF r.op = "Pass"
         THEN [e |-> Passed(s.e, path, TRUE), path |-> path, done |-> TRUE]
         ELSE IF path \in UserDir
         THEN [s EXCEPT !.path = path]
         ELSE [e |-> Refused(s.e, "BY_RULE"), path |-> path, done |-> TRUE]

\* The loop ends at a rule, or behind them all.
Ended(s, dry) == IF s.done THEN s.e ELSE AfterRules(s.e, s.path, dry)

\* Where the loop is after each of the rules.
DryLoop(rules, e) ==
    LET s[i \in 0..Len(rules)] ==
          IF i = 0 THEN [e |-> e, path |-> e.HTScriptPathInfo, done |-> FALSE]
          ELSE DryRule(s[i - 1], rules[i])
    IN  s

TranslatePathInfo(rules, e) == Ended(DryLoop(rules, e)[Len(rules)], TRUE)

\* Exec: the script, and the rest of the path.
Exec(rules, e, path) ==
    LET call == [e EXCEPT !.HTReqScript = ScriptName[path], !.HTScriptPathInfo = PathInfo[path]]
    IN  IF PathInfo[path] = None THEN call ELSE TranslatePathInfo(rules, call)

RealRule(rules, s, r) ==
    IF s.done \/ s.path \notin r.pat
    THEN s
    ELSE LET path == Mapped(r, s.path)
             Done(e) == [e |-> e, path |-> path, done |-> TRUE] IN
         IF r.op \in {"Protect", "DefProt"}
         THEN [s EXCEPT !.e = SetProtection(r, s.e), !.path = path]
         ELSE IF r.op = "Exec" THEN Done(Exec(rules, s.e, path))
         ELSE IF r.op \in {"Redirect", "Moved"} THEN Done(Redirect(r, s.e, path))
         ELSE IF r.op = "Pass" THEN Done(Passed(s.e, path, FALSE))
         ELSE IF r.op = "Map" \/ path \in UserDir THEN [s EXCEPT !.path = path]
         ELSE Done(Refused(s.e, "BY_RULE"))

RealLoop(rules, e) ==
    LET s[i \in 0..Len(rules)] ==
          IF i = 0 THEN [e |-> e, path |-> e.HTReqArgPath, done |-> FALSE]
          ELSE RealRule(rules, s[i - 1], rules[i])
    IN  s

HTTranslateReq(rules, e) == Ended(RealLoop(rules, e)[Len(rules)], FALSE)

-----------------------------------------------------------------------------
(* The access authorisation of the daemon, HTAAServ.c: what                *)
(* HTAA_checkAuthorization() makes of the environment of a request.        *)
(*                                                                         *)
(* A group of users is the verdict it gives each of them: a function from  *)
(* names (None: not authenticated) to reasons; the client's address, the   *)
(* same for the whole request, is in the verdict.  A protection set-up is  *)
(* a record [masks, gen_mask, acl_override, passwd, ids].                  *)

CONSTANTS
    Acl,          \* Acl[p]: None, or the entries for p by method, in order
    Welcome,      \* directories named without their slash that have a welcome page
    AlwaysWelcome \* sc.always_welcome

\* get_mask.
Mask(prot, method) ==
    LET m == IF method = "HEAD" THEN "GET" ELSE method IN
    IF m \in DOMAIN prot.masks THEN prot.masks[m] ELSE prot.gen_mask

\* HTAA_authenticate: the name of the user if the password file of the set-up
\* in force has it with that password; passwd is empty in a set-up that does not
\* accept the client's scheme.
Authenticate(e, cred) ==
    [e EXCEPT !.HTUser = IF cred \in e.HTProt.passwd THEN cred ELSE None]

UseDefault(e) ==
    [e EXCEPT !.HTProt = e.HTDefProt,
              !.HTIds = IF e.HTDefProt = None \/ e.HTDefProt.ids = None
                        THEN @ ELSE e.HTDefProt.ids]

Because(e, why) == [e EXCEPT !.HTReason = why]

Allowed(e, no_acls) == Because(e, IF no_acls THEN "OK_GATEWAY" ELSE "OK")

\* The verdict of a mask on the authenticated user.
Judged(e, mask, no_acls) ==
    IF mask[e.HTUser] = "OK" THEN Allowed(e, no_acls) ELSE Because(e, mask[e.HTUser])

\* No access control list: the mask decides, or its absence.
ByMask(e, method, cred, no_acls) ==
    IF e.HTProt = None
    THEN IF method \in {"PUT", "DELETE"} THEN Because(e, "NOT_ALLOWED") ELSE Allowed(e, no_acls)
    ELSE IF Mask(e.HTProt, method) = None THEN Because(e, "NO_ACL")
    ELSE Judged(Authenticate(e, cred), Mask(e.HTProt, method), no_acls)

\* With a list: the mask, unless the list overrides it, then the entries.
ByEntries(e, mask, entries) ==
    IF mask # None /\ ~e.HTProt.acl_override /\ mask[e.HTUser] # "OK"
    THEN Because(e, mask[e.HTUser])
    ELSE IF entries = <<>> THEN Because(e, "NO_ENTRY")
    ELSE IF \E i \in DOMAIN entries : entries[i][e.HTUser] = "OK" THEN Because(e, "OK")
    ELSE Because(e, "NOT_MEMBER")

ByAcl(e, method, cred, entries) ==
    IF e.HTProt = None THEN Because(e, "SETUP_ERROR")
    ELSE ByEntries(Authenticate(e, cred), Mask(e.HTProt, method), entries)

\* PUT and DELETE, and an access control list, need a set-up: the default one if
\* no other is in force.
NeedsSetup(e, need) == IF need /\ e.HTProt = None THEN UseDefault(e) ELSE e

ByListOrMask(e, this, method, cred, no_acls) ==
    IF this = None THEN Because(e, "BY_RULE")
    ELSE IF no_acls \/ Acl[this] = None THEN ByMask(e, method, cred, no_acls)
    ELSE ByAcl(NeedsSetup(e, TRUE), method, cred, Acl[this][method])

\* check_this.
Checked(e) == IF e.HTReqScript # None THEN e.HTReqScript ELSE e.HTReqTranslated

check_authorization(e, method, cred, no_acls) ==
    ByListOrMask(NeedsSetup([e EXCEPT !.HTUser = None], method \in {"PUT", "DELETE"}),
                 Checked(e), method, cred, no_acls)

\* A local file.  found is the name under which HTMulti finds the file or the
\* directory, None if there is none: that of another file of the same name with a
\* suffix, or that of the welcome page of a directory named with its slash.  PUT,
\* POST and DELETE do not look.
Looks(method) == method \in {"GET", "HEAD"}

\* The request goes on under the name that was found.
Physical(e, found, method) ==
    IF Looks(method) /\ found # None THEN [e EXCEPT !.HTReqTranslated = found] ELSE e

Reported(e, found, method) ==
    IF Looks(method) /\ found = None /\ e.HTReason = "OK" THEN Because(e, "MULTI_FAILED") ELSE e

\* Under the name that was found: a directory is redirected to its welcome page,
\* and anything else is authorised.
AuthoriseFound(e, found, method, cred) ==
    IF Looks(method) /\ found \in Welcome /\ AlwaysWelcome
    THEN [e EXCEPT !.HTReason = "OK_REDIRECT", !.HTLocation = WithSlash[e.HTReqArg]]
    ELSE Reported(check_authorization(e, method, cred, FALSE), found, method)

\* Mutant: the file is authorised under the name in the request.
LocalFile_AsRequested(e, found, method, cred) ==
    [AuthoriseFound(e, found, method, cred)
        EXCEPT !.HTReqTranslated = Physical(e, found, method).HTReqTranslated]

LocalFile(e, found, method, cred) ==
    AuthoriseFound(Physical(e, found, method), found, method, cred)

\* Does HTTranslateReq return YES, with something to authorise?
Translated(e) ==
    /\ e.HTReqScript # None \/ e.HTReqTranslated # None
    /\ e.HTReason \notin {"INVALID_REDIRECT", "OK_REDIRECT", "OK_MOVED"}

\* The switch at the end of HTAA_checkAuthorization.
StatusOf(reason) ==
    IF reason \in {"OK", "OK_GATEWAY"} THEN 200
    ELSE IF reason = "OK_MOVED" THEN 301
    ELSE IF reason = "OK_REDIRECT" THEN 302
    ELSE IF reason \in {"NO_AUTH", "NOT_MEMBER"} THEN 401
    ELSE IF reason \in {"NOT_FOUND", "MULTI_FAILED"} THEN 404
    ELSE 403

\* The status code, and, in HTAA_statusMessage, the message for a reason: once.
Answered(e, code) ==
    [e EXCEPT !.status_code = code,
              !.HTReasonLine = IF @ = None THEN e.HTReason ELSE @]

ForProxy(e) == IF e.HTReason = "IP_MASK" THEN Because(e, "IP_MASK_PROXY") ELSE e

\* e is translated.  Remote is the set of translations that have an access
\* scheme: URLs of other servers.
Authorise(remote, files, e, method, cred) ==
    IF ~Translated(e) THEN e
    ELSE IF e.HTReqScript # None THEN check_authorization(e, method, cred, FALSE)
    ELSE IF e.HTReqTranslated \in remote THEN ForProxy(check_authorization(e, method, cred, TRUE))
    ELSE LocalFile(e, files[e.HTReqTranslated], method, cred)

Concluded(e) == Answered(e, StatusOf(e.HTReason))

HTAA_checkAuthorization(remote, rules, files, e, method, cred) ==
    IF e.HTReqArg = None \/ e.HTReason # "OK"
    THEN Answered(e, 403)
    ELSE Concluded(Authorise(remote, files, HTTranslateReq(rules, e), method, cred))

=============================================================================
