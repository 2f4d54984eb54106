----------------------------- MODULE MCRequest -----------------------------
(***************************************************************************)
(* The server before and behind its configuration: a behaviour is about    *)
(* one request of a server with two set-ups, one of them the default, two  *)
(* scripts, a gateway and a redirection; or about configuration files of a *)
(* few lines on one topic, read at the start and on SIGHUP.                *)
(***************************************************************************)
EXTENDS Request, Configuration

CONSTANTS Null, Identity

VARIABLE subject

Args == {"doc", "secret", "lost", "acl", "cgi", "members", "away", "dir", "remote", "dots",
         "find", "upload", "none", "guests", "page", "home/"}

\* The paths: those of the requests, the target of a redirection, and what HTMulti finds
\* for a page and for a directory.
Paths == Args \cup {"elsewhere", "page.html", "home/welcome"}

AllMethods == {"GET", "HEAD", "POST", "PUT", "DELETE"}

Admits(users) ==
    [u \in {Null, "ann", "bob"} |->
        IF u = Null THEN "NO_AUTH" ELSE IF u \in users THEN "OK" ELSE "NOT_MEMBER"]

Members == [masks |-> [GET |-> Admits({"ann"})], gen_mask |-> Null, acl_override |-> FALSE,
            passwd |-> {"ann", "bob"}, ids |-> "members"]

Guests == [Members EXCEPT !.masks = [GET |-> Admits({"ann", "bob"})], !.ids = "guests"]

Default == [masks |-> [GET |-> Admits({"ann", "bob"}), PUT |-> Admits({"bob"})],
            gen_mask |-> Null, acl_override |-> TRUE, passwd |-> {"bob"}, ids |-> Null]

R(op, pat, eqv, setup) == [op |-> op, pat |-> pat, eqv |-> eqv, setup |-> setup]

MCRule ==
    << R("DefProt", {"acl", "page", "home/", "upload"}, Identity, Default),
       R("Protect", {"secret", "lost", "members"}, Identity, Members),
       R("Protect", {"guests"}, Identity, Guests),
       R("Protect", {"upload"}, Identity, Null),
       R("Exec", {"cgi", "members", "guests"}, Identity, Null),
       R("Redirect", {"away"}, [p \in Paths |-> "elsewhere"], Null),
       R("Map", {"find"}, [p \in Paths |-> "doc"], Null),
       R("Pass", {"doc", "secret", "lost", "acl", "page", "home/", "dir", "remote", "upload"},
         Identity, Null) >>

MCFiles == [p \in Args |-> IF p = "lost" THEN Null ELSE IF p = "page" THEN "page.html"
                          ELSE IF p = "home/" THEN "home/welcome" ELSE p]

\* Bob may have the page under the name without suffix only, and the home page but
\* not its directory.
MCAcl == [p \in Paths \cup {Null, "finder", "putter", "nph-poster"} |->
            IF p \in {"acl", "page", "home/welcome"}
            THEN [m \in AllMethods |-> <<Admits({}), Admits({"bob"})>>]
            ELSE IF p \in {"page.html", "home/"} THEN [m \in AllMethods |-> <<>>]
            ELSE Null]

Rq(method, arg, cred, length) ==
    [method |-> method, arg |-> arg, cred |-> cred, content_length |-> length,
     http1 |-> TRUE, ims |-> FALSE]

MCRequests ==
    {Rq("GET", a, c, 0) : a \in {"secret", "lost", "acl", "page", "home/", "members", "guests"},
                       c \in {Null, "ann", "bob"}}
    \cup {Rq(m, a, Null, 0) : m \in {"GET", "HEAD"},
                              a \in {"doc", "cgi", "away", "dir", "remote", "dots", "find", "none"}}
    \cup {Rq("POST", a, Null, 2) : a \in {"cgi", "doc"}}
    \cup {Rq("PUT", a, c, 1) : a \in {"upload", "doc", "acl"}, c \in {Null, "bob"}}
    \cup {Rq("DELETE", "upload", "bob", 0), Rq("LINK", "doc", Null, 0),
          Rq("GET", Null, Null, 0), Rq("INVALID", "doc", Null, 0)}
    \cup {[Rq("GET", a, Null, 0) EXCEPT !.http1 = FALSE, !.ims = (a = "doc")] : a \in {"doc", "cgi"}}

MCArgPath == [a \in Args |-> a]
MCSlash == [a \in Args \cup {Null} |-> "doc"]
MCHome == [p \in Paths |-> Null]
MCScriptName == [p \in Paths |-> p]
MCPathInfo == [p \in Paths |-> IF p = "members" THEN "doc" ELSE Null]
MCMethodScript == [PUT |-> "putter", POST |-> "nph-poster", DELETE |-> Null]

-----------------------------------------------------------------------------
(* Configuration files.                                                    *)

L(d, a) == [d |-> d, a |-> a, c |-> FALSE]
Commented(l) == [l EXCEPT !.c = TRUE]

RuleLines ==
    {L("map", <<"t1", "t2">>), L("protection", <<"staff", "{", "S1">>),
     L("protection", <<"staff", "{", "S2">>), L("protect", <<"t1", "staff">>),
     L("protect", <<"t2", "{", "S3">>), L("defprot", <<"t1">>), L("serverroot", <<"root">>),
     L("addicon", <<"url", "ALT", "t1">>)}

TimeLines ==
    {L("cacheclean", <<"t1", "2", "days">>), L("cacheclean", <<"2", "days">>),
     L("cacheclean", <<"days">>), L("cacheclean", <<"t2", "t1">>),
     Commented(L("cacheclean", <<"t2", "1:2">>)), L("cachelocktimeout", <<"t1">>),
     L("inputtimeout", <<"1:2">>), L("cachelastmodifiedfactor", <<"t1", "2">>)}

CacheLines ==
    {L("cacheroot", <<"root">>), L("cacheroot", <<"bin">>), L("caching", <<"off">>),
     L("caching", <<"on">>), L("port", <<"2">>), L("port", <<"80">>), L("port", <<"t1">>),
     Commented(L("cachesize", <<"2">>))}

ListingLines ==
    {L("dirshowminlength", <<n>>) : n \in {"30", "80"}}
    \cup {L("dirshowmaxlength", <<n>>) : n \in {"5", "30"}}
    \cup {L("dirshowicons", <<"off">>), L("serverroot", <<"root">>), L("enable", <<"PUT">>),
          L("welcome", <<"t1">>)}

\* Each directive alone.
AllLines ==
    {L(d, a) : d \in DOMAIN Directive \cup {"nonsense"},
               a \in {<<"on">>, <<"2", "G">>, <<"2", "days">>, <<"t1", "t2", "t1">>}}

MCLine == {RuleLines, TimeLines, CacheLines, ListingLines} \cup {{l} : l \in AllLines}

T(k, n) == [k |-> k, n |-> n]
MCTokens ==
    [w \in {"t1", "t2", "root", "bin", "url", "ALT", "on", "off", "no", "PUT", "GET",
             "staff", "{", "S1", "S2", "S3"} |-> <<T("junk", 0)>>]
    @@ ("2" :> <<T("number", 2)>>) @@ ("5" :> <<T("number", 5)>>) @@ ("30" :> <<T("number", 30)>>)
    @@ ("80" :> <<T("number", 80)>>) @@ ("G" :> <<T("letter", 3)>>)
    @@ ("days" :> <<T("unit", 86400)>>)
    @@ ("1:2" :> <<T("number", 1), T("colon", 0), T("number", 2)>>)

Option(r, directory, port) == [r |-> r, directory |-> directory, port |-> port]
MCOptions == {Option(<<"one">>, "", 0), Option(<<"one", "two">>, "", 0), Option(<<>>, "", 8001),
              Option(<<>>, "dir", 0)}

-----------------------------------------------------------------------------

MCInit ==
    /\ subject \in {"request", "configuration"}
    /\ Init /\ ConfigurationInit
    /\ IF subject = "configuration" THEN req.method = "INVALID"
       ELSE readable = {} /\ options = Option(<<>>, "", 8001)

\* The files change and are read behind the end of a first request, whose client
\* stays: no request of the model sees them.  Two files have rules only.
MCNext ==
    /\ UNCHANGED subject
    /\ \/ /\ Next /\ UNCHANGED configurationVars
          /\ subject = "configuration" => client' = "ok"
       \/ /\ subject = "configuration" /\ pc = "exit"
          /\ ConfigurationNext /\ UNCHANGED vars
          /\ Len(options.r) = 2 => \A f \in RuleFile : Range(lines'[f]) \subseteq RuleLines

MCSpec ==
    /\ MCInit /\ [][MCNext]_<<subject, vars, configurationVars>>
    /\ WF_pc(Authorises) /\ SF_vars(Work) /\ WF_vars(TimedOut)

=============================================================================
