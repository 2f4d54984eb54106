---------------------------- MODULE Configuration -----------------------------
(***************************************************************************)
(* The configuration files: HTConfig.c, with the times and sizes of        *)
(* HTSUtils.c, the options of HTDaemon.c and the reload on SIGHUP.         *)
(*                                                                         *)
(* A line is a directive (d, in its standardised spelling), its arguments  *)
(* (a, words; at least one) and whether a comment ends it (c).  The table  *)
(* Directive says what each directive does with which setting; one the     *)
(* table does not have is a bad directive.  A string that is not set is    *)
(* the empty string.  Lines too long for the buffer, the 50 words at most  *)
(* and VMS are left out.                                                   *)
(***************************************************************************)
EXTENDS SequencesExt, FiniteSetsExt, Integers

CONSTANTS
    Tokens,      \* word -> sequence of [k, n]: a number, a unit in seconds, a letter
                 \* (with its power of 1024), a colon, or none of these
    SlashWords,  \* the words with a slash in them
    Method,      \* the names of HTTP methods
    Kilo,        \* 1024 and 1137 and 2^32, in small
    CacheKilo,
    IntSize

ASSUME TokenAssumption == \A w \in DOMAIN Tokens : Tokens[w] \in Seq([k : STRING, n : Nat])

\* Tables, the first before the second.
f ++ g == [x \in DOMAIN f \cup DOMAIN g |-> IF x \in DOMAIN f THEN f[x] ELSE g[x]]
One(x, value) == [y \in {x} |-> value]

-----------------------------------------------------------------------------
(* Words, times and sizes.                                                 *)

Positive == {"yes", "on", "ok", "enable"}
Negative == {"no", "off", "none", "disable"}
Unlimited == {"unlimited", "nolimit"}

Tokenised(words) == FlattenSeq([i \in DOMAIN words |-> Tokens[words[i]]])

Number(s) == IF s # <<>> /\ s[1].k = "number" THEN s[1].n ELSE 0
atoi(word) == Number(Tokens[word])
AfterNumber(s) == IF s # <<>> /\ s[1].k = "number" THEN Tail(s) ELSE s

\* The loop of parse_time: a number with its unit, or hours, minutes and seconds
\* apart by colons; a number alone is in the default unit.  What was read before
\* an error is left in the result.
Colon == <<3600, 60, 1>>

TimeRead(st, def) ==
    LET n == Number(st.s)
        r == AfterNumber(st.s)
        Goes(t, state, s) ==
            [s |-> s, first |-> FALSE, state |-> state, t |-> st.t + t, ok |-> st.ok]
    IN  IF st.s = <<>> THEN st
        ELSE IF r = <<>> /\ st.first THEN Goes(n * def, st.state, <<>>)
        ELSE IF r # <<>> /\ r[1].k = "unit" THEN Goes(n * r[1].n, st.state, Tail(r))
        ELSE IF (r = <<>> \/ r[1].k = "colon") /\ st.state <= 3
        THEN Goes(n * Colon[st.state], st.state + 1, IF r = <<>> THEN r ELSE Tail(r))
        ELSE [st EXCEPT !.s = <<>>, !.ok = FALSE]

\* A round takes a token or more.
ReadTime(s, def) ==
    LET st[i \in 0 .. Len(s)] ==
            IF i = 0 THEN [s |-> s, first |-> TRUE, state |-> 1, t |-> 0, ok |-> TRUE]
            ELSE TimeRead(st[i - 1], def)
    IN  st[Len(s)]

parse_time(s, def) ==
    LET st == ReadTime(s, def) IN [ok |-> s # <<>> /\ st.ok, t |-> st.t]

\* What make_time_spec prints, as tokens: a number with its unit, or a clock.
Timed(n, unit) == <<[k |-> "number", n |-> n], [k |-> "unit", n |-> unit]>>
Clock(h, m) == <<[k |-> "number", n |-> h], [k |-> "colon", n |-> 0], [k |-> "number", n |-> m]>>
Seconds(s) == <<[k |-> "colon", n |-> 0], [k |-> "number", n |-> s]>>

WithinDay(hours, mins, secs) ==
    IF hours > 0
    THEN IF secs > 0 THEN Clock(hours, mins) \o Seconds(secs)
         ELSE IF mins > 0 THEN Clock(hours, mins) ELSE Timed(hours, 3600)
    ELSE IF secs = 0 THEN Timed(mins, 60)
         ELSE IF mins = 0 THEN Timed(secs, 1) ELSE Clock(0, mins) \o Seconds(secs)

make_time_spec(time) ==
    LET days == time \div 86400
        rest == WithinDay((time % 86400) \div 3600, (time % 3600) \div 60, time % 60)
    IN  IF days = 0 THEN rest
        ELSE IF time % 86400 = 0 THEN Timed(days, 86400) ELSE Timed(days, 86400) \o rest

\* An int keeps the low half of a long: the sign may change.
Truncated(n) == ((n + IntSize \div 2) % IntSize) - IntSize \div 2

Quotient(n, d) == IF n < 0 THEN -((-n) \div d) ELSE n \div d

\* def is the power of a number without a letter.  An unknown letter is none.
parse_bytes(s, def) ==
    LET r == AfterNumber(s)
        power == IF r = <<>> THEN def ELSE IF r[1].k = "letter" THEN r[1].n ELSE 0
    IN  Truncated(Number(s) * Kilo^power)

-----------------------------------------------------------------------------
(* The settings before any file.  A list is an HTList, newest first.       *)

Unset(fields) == [f \in fields |-> ""]
No(fields) == [f \in fields |-> FALSE]
EmptyLists(fields) == [f \in fields |-> <<>>]

Strings == {"meta_dir", "meta_suffix", "server_root", "cache_root", "proxy_log_name", "user_id",
            "group_id", "parent_uid", "parent_gid", "access_log_name", "cache_log_name",
            "error_log_name", "log_file_date_ext", "put_script", "post_script", "delete_script",
            "search_script", "user_dir", "hostname", "pid_file", "icon_path", "server_type"}

Lists == {"no_log", "no_caching", "cache_only", "welcome_names", "hrefs", "icons",
          "named_prots", "rule_files", "rules", "cache_clean", "cache_unused", "cache_exp",
          "cache_refresh_interval", "cache_lm_factors"}

\* Those that are set.
Defaults ==
    [input_timeout |-> 120, output_timeout |-> 1200, script_timeout |-> 300,
     do_accept_hack |-> TRUE, new_logfile_format |-> TRUE, do_dns_lookup |-> TRUE,
     always_welcome |-> TRUE, do_exp_check |-> TRUE, max_content_len_buf |-> 50 * Kilo,
     disabled |-> {"PUT", "DELETE", "CHECKIN", "CHECKOUT", "SHOWMETHOD", "LINK", "UNLINK"},
     cache_clean_def |-> 21 * 86400, cache_unused_def |-> 14 * 86400, cache_exp_def |-> 0,
     cache_max_k |-> 5 * Kilo, cache_limit_1 |-> 100, cache_limit_2 |-> 4000,
     cache_time_margin |-> 120, cache_lock_timeout |-> 1200,
     gc_daily_gc |-> 3 * 3600, gc_mem_usage_control |-> 500, port |-> 0,
     security_level |-> "normal", cache_max_f |-> 0]

HTDefaultConfig ==
    Defaults ++ Unset(Strings) ++ EmptyLists(Lists)
    ++ No({"do_rfc931", "do_linger", "do_setuid", "use_gmt", "gc_disabled", "keep_expired",
           "cache_no_connect", "caching_explicitly_off", "icons_inited", "reloading"})

\* The globals of the library that directives change.
Library ==
    [HTDirShowMask |-> {"ICON", "SIZE", "DATE"}, HTDirShowBrackets |-> TRUE, HTPeekTitles |-> TRUE,
     HTDirDescriptions |-> TRUE, HTDirShowBytes |-> FALSE, HTDirMinFileLength |-> 15,
     HTDirMaxFileLength |-> 22, HTDirMaxDescrLength |-> 25, HTDirInfo |-> "top",
     HTDirReadme |-> "top", HTDirAccess |-> "ok", HTSuffixCaseSense |-> FALSE,
     HTRuleCaseSense |-> TRUE, icon_blank |-> <<>>, icon_unknown |-> <<>>, icon_parent |-> <<>>,
     icon_dir |-> <<>>, suffixes |-> <<>>, error_urls |-> <<>>, environment |-> <<>>]

-----------------------------------------------------------------------------
(* The directives, in the order of the chain of comparisons: how each      *)
(* treats its arguments (see Effect) and the setting it changes.           *)

Each(how, of) == [d \in DOMAIN of |-> [how |-> how, of |-> of[d]]]
All(how, directives) == [d \in directives |-> [how |-> how, of |-> d]]

SuffixDirectives ==
    All("suffix", {"addtype", "addencoding", "addlanguage"}) ++ All("href", {"diraddhref"})

ListingDirectives ==
    Each("word", [metadir |-> "meta_dir", metasuffix |-> "meta_suffix"])
    ++ Each("list", [nolog |-> "no_log"])
    ++ Each("choice", [ftpdirinfo |-> "HTDirInfo"])
    ++ Each("show", [dircasesense |-> "CASE"])
    ++ All("error url", {"errorurl"})

dir_show_config ==
    Each("show", [dirshowicons |-> "ICON", dirshowdate |-> "DATE", dirshowsize |-> "SIZE",
                  dirshowhidden |-> "HID", dirshowowner |-> "OWNER", dirshowgroup |-> "GROUP",
                  dirshowmode |-> "MODE", dirshowcase |-> "CASE"])
    ++ Each("yes", [dirshowbrackets |-> "HTDirShowBrackets", dirshowbytes |-> "HTDirShowBytes",
                    dirshowdescription |-> "HTDirDescriptions",
                    dirshowhtmltitles |-> "HTPeekTitles"])
    ++ All("length", {"dirshowmaxdescriptionlength", "dirshowminlength", "dirshowmaxlength"})

IconDirectives ==
    All("icon", {"addicontostd", "addicon"}) ++ All("icon path", {"iconpath"})
    ++ Each("one icon", [addblankicon |-> "icon_blank", addunknownicon |-> "icon_unknown",
                         addparenticon |-> "icon_parent", adddiricon |-> "icon_dir"])

ServerDirectives ==
    Each("word", [serverroot |-> "server_root"])
    ++ Each("choice", [securitylevel |-> "security_level"])
    ++ All("method", {"disable", "enable"})
    ++ Each("yes", [identitycheck |-> "do_rfc931", dnslookup |-> "do_dns_lookup",
                    accepthack |-> "do_accept_hack", linger |-> "do_linger"])
    ++ Each("bytes", [maxcontentlengthbuf |-> "max_content_len_buf"])

CacheDirectives ==
    All("caching", {"cacheroot", "caching"})
    ++ Each("list", [nocaching |-> "no_caching", cacheonly |-> "cache_only"])
    ++ All("gc", {"gcdailygc", "gcmemusage"})
    ++ Each("no", [gc |-> "gc_disabled"])
    ++ All("cache size", {"cachesize", "cachefiles"})
    ++ Each("kilobytes", [cachelimit1 |-> "cache_limit_1", cachelimit2 |-> "cache_limit_2"])

CacheTimeDirectives ==
    Each("templates", [cacheclean |-> "cache_clean", cacheunused |-> "cache_unused",
                       cachedefaultexpiry |-> "cache_exp",
                       cacherefreshinterval |-> "cache_refresh_interval"])
    ++ Each("time", [cachelocktimeout |-> "cache_lock_timeout",
                     cachetimemargin |-> "cache_time_margin"])
    ++ All("factor", {"cachelastmodifiedfactor"})
    ++ Each("yes", [keepexpired |-> "keep_expired", cacheexpirycheck |-> "do_exp_check",
                    cachenoconnect |-> "cache_no_connect"])

\* Every other name with "proxy" in it is one of these or in error, UseProxy too.
ProxyDirectives ==
    Each("word", [proxyaccesslog |-> "proxy_log_name"])
    ++ Each("environment", [httpproxy |-> "http_proxy", gopherproxy |-> "gopher_proxy",
                            ftpproxy |-> "ftp_proxy", waisproxy |-> "wais_proxy",
                            newsproxy |-> "news_proxy", noproxy |-> "no_proxy",
                            useproxy |-> ""])

SystemDirectives ==
    Each("yes", [suffixcasesense |-> "HTSuffixCaseSense", rulecasesense |-> "HTRuleCaseSense",
                 setuid |-> "do_setuid"])
    ++ Each("timeout", [inputtimeout |-> "input_timeout", outputtimeout |-> "output_timeout",
                        scripttimeout |-> "script_timeout"])
    ++ Each("choice", [diraccess |-> "HTDirAccess", dirreadme |-> "HTDirReadme"])
    ++ Each("word", [userid |-> "user_id", groupid |-> "group_id",
                     parentuserid |-> "parent_uid", parentgroupid |-> "parent_gid"])

LogDirectives ==
    Each("word", [accesslog |-> "access_log_name", logfile |-> "access_log_name",
                  cacheaccesslog |-> "cache_log_name", errorlog |-> "error_log_name",
                  logfiledateext |-> "log_file_date_ext"])
    ++ Each("choice", [logformat |-> "new_logfile_format", logtime |-> "use_gmt"])

ScriptDirectives ==
    Each("word", [putscript |-> "put_script", postscript |-> "post_script",
                  deletescript |-> "delete_script", userdir |-> "user_dir",
                  search |-> "search_script", hostname |-> "hostname", pidfile |-> "pid_file"])
    ++ Each("yes", [alwayswelcome |-> "always_welcome"])
    ++ All("welcome", {"welcome"}) ++ All("htbin", {"htbin"})
    ++ Each("choice", [servertype |-> "server_type"])
    ++ All("port", {"port"})

RuleDirectives ==
    All("protection", {"protection"})
    ++ Each("rule", [map |-> "Map", pass |-> "Pass", fail |-> "Fail", exec |-> "Exec",
                     redirect |-> "Redirect", move |-> "Move"])
    ++ Each("protect", [defprot |-> "DefProt", protect |-> "Protect"])

Directive ==
    ((SuffixDirectives ++ ListingDirectives ++ dir_show_config)
     ++ (IconDirectives ++ ServerDirectives ++ CacheDirectives))
    ++ ((CacheTimeDirectives ++ ProxyDirectives ++ SystemDirectives)
        ++ (LogDirectives ++ ScriptDirectives ++ RuleDirectives))

\* The words a setting may be given; another is reported and changes nothing.
To(words, value) == [w \in words |-> value]

WordsFor ==
    [HTDirInfo |-> To(Negative, "none") ++ [top |-> "top", bottom |-> "bottom"],
     security_level |-> [high |-> "high", normal |-> "normal"],
     HTDirAccess |-> [selective |-> "selective"] ++ To(Positive, "ok") ++ To(Negative, "forbid"),
     HTDirReadme |-> [bottom |-> "bottom", top |-> "top"] ++ To(Negative, "none"),
     new_logfile_format |-> [new |-> TRUE, common |-> TRUE, old |-> FALSE],
     use_gmt |-> [gmt |-> TRUE, localtime |-> FALSE],
     server_type |-> [standalone |-> "standalone", inetd |-> "inetd"]]

-----------------------------------------------------------------------------
(* What a line does to the configuration c.  The vector has the arguments; *)
(* params is the line itself behind the directive, its comment included.   *)

Comment == <<[k |-> "junk", n |-> 0]>>
Params(l) == Tokenised(l.a) \o IF l.c THEN Comment ELSE <<>>

Set(c, field, value) == [c EXCEPT ![field] = value]
SetIf(c, condition, field, value) == IF condition THEN Set(c, field, value) ELSE c

\* A suffix that is there already has its other attributes kept.
HTSetSuffix(c, l) ==
    LET old == IF l.a[1] \in DOMAIN c.suffixes THEN c.suffixes[l.a[1]]
               ELSE [rep |-> "", encoding |-> "", language |-> ""]
        new == CASE l.d = "addtype" -> [old EXCEPT !.rep = l.a[2],
                                          !.encoding = IF Len(l.a) > 2 THEN l.a[3] ELSE "binary"]
                 [] l.d = "addencoding" -> [old EXCEPT !.encoding = l.a[2]]
                 [] l.d = "addlanguage" -> [old EXCEPT !.language = l.a[2]]
    IN  SetIf(c, Len(l.a) \in 2..(IF l.d = "addtype" THEN 4 ELSE 3),
              "suffixes", One(l.a[1], new) ++ c.suffixes)

\* One entry for each of the suffixes behind the URL.
HTAddHref(c, l) ==
    [c EXCEPT !.hrefs = Reverse([i \in 1..Len(l.a) - 1 |-> <<l.a[1], l.a[i + 1]>>]) \o @]

HTAddIcon(c, l) ==
    LET n == IF l.d = "addicon" THEN Set(c, "icons_inited", TRUE) ELSE c IN
    SetIf(n, Len(l.a) >= 3, "icons",
          Reverse([i \in 1..Len(l.a) - 2 |-> <<l.a[1], l.a[2], l.a[i + 2]>>]) \o c.icons)

\* Add*Icon.  A blank icon needs no text.
OneIcon(c, l, of) ==
    LET n == Set(c, "icons_inited", TRUE)
        alt == IF Len(l.a) = 2 THEN l.a[2] ELSE "" IN
    SetIf(n, IF of = "icon_blank" THEN Len(l.a) <= 3 ELSE Len(l.a) = 2, of, <<l.a[1], alt>>)

\* The shortest and the longest name move together.
Lengths(c, l) ==
    LET n == atoi(l.a[1]) IN
    CASE l.d = "dirshowmaxdescriptionlength" -> SetIf(c, n > 0, "HTDirMaxDescrLength", n)
      [] l.d = "dirshowminlength" ->
            IF n <= 2 THEN c
            ELSE [c EXCEPT !.HTDirMinFileLength = n,
                           !.HTDirMaxFileLength = IF n > @ THEN n ELSE @]
      [] l.d = "dirshowmaxlength" ->
            IF n <= 2 THEN c
            ELSE [c EXCEPT !.HTDirMaxFileLength = n,
                           !.HTDirMinFileLength = IF n < @ THEN n ELSE @]

Methods(c, l) ==
    IF l.a[1] \notin Method THEN c
    ELSE [c EXCEPT !.disabled = IF l.d = "disable" THEN @ \cup {l.a[1]} ELSE @ \ {l.a[1]}]

Caching(c, l) ==
    IF l.d = "cacheroot" THEN SetIf(c, ~c.caching_explicitly_off, "cache_root", l.a[1])
    ELSE [c EXCEPT !.caching_explicitly_off = l.a[1] \in Negative,
                   !.cache_root = IF l.a[1] \in Negative THEN "" ELSE @]

Collection(c, l) ==
    LET t == parse_time(Params(l), 3600) IN
    IF l.d = "gcmemusage"
    THEN Set(c, "gc_mem_usage_control", IF atoi(l.a[1]) < 20 THEN 100 ELSE atoi(l.a[1]))
    ELSE Set(c, "gc_daily_gc", IF l.a[1] \in Negative THEN 0
                               ELSE IF t.ok THEN t.t ELSE 3 * 3600)

CacheSize(c, l) ==
    IF l.d = "cachesize"
    THEN Set(c, "cache_max_k", IF l.a[1] \in Unlimited THEN 0
                               ELSE Quotient(parse_bytes(Params(l), 2), CacheKilo))
    ELSE Set(c, "cache_max_f", IF l.a[1] \in Unlimited THEN 0 ELSE atoi(l.a[1]))

\* parse_pt appends a template; a time it cannot read costs the list.
parse_pt(list, l) ==
    LET t == parse_time(Tokenised(Tail(l.a)) \o IF l.c THEN Comment ELSE <<>>, 86400) IN
    IF t.ok THEN Append(list, [pat |-> l.a[1], time |-> t.t]) ELSE <<>>

DefaultOf == [cache_clean |-> "cache_clean_def", cache_unused |-> "cache_unused_def",
              cache_exp |-> "cache_exp_def"]

\* One argument alone is a time for everything, right or wrong.
Templates(c, l, of) ==
    IF Len(l.a) = 1 /\ of \in DOMAIN DefaultOf
    THEN Set(c, DefaultOf[of], parse_time(Params(l), 86400).t)
    ELSE Set(c, of, parse_pt(c[of], l))

\* In tenths; a factor it cannot read is 0.
Factor(c, l) ==
    LET pat == IF Len(l.a) = 2 THEN l.a[1] ELSE "*"
        factor == Last(l.a) IN
    IF Len(l.a) > 2 THEN c
    ELSE [c EXCEPT !.cache_lm_factors =
             Append(@, [pat |-> pat, factor |-> IF factor \in Negative THEN -1
                                                ELSE 10 * atoi(factor)])]

HTAddNamedProtection(c, l) ==
    IF Len(l.a) < 3 \/ l.a[2] # "{" THEN c
    ELSE [c EXCEPT !.named_prots = <<[prot_name |-> l.a[1], prot |-> l.a[3]]>> \o @]

\* Mutant: the oldest definition of a name.
HTGetNamedProtection_Oldest(c, name) ==
    LET found == {i \in DOMAIN c.named_prots : c.named_prots[i].prot_name = name}
    IN  IF found = {} THEN "" ELSE c.named_prots[Max(found)].prot

\* The newest definition of a name; none, if it has not been read yet.
HTGetNamedProtection(c, name) ==
    LET found == {i \in DOMAIN c.named_prots : c.named_prots[i].prot_name = name}
    IN  IF found = {} THEN "" ELSE c.named_prots[Min(found)].prot

NewRule(op, pat, eqv) == [op |-> op, pat |-> pat, eqv |-> eqv, prot |-> "", file |-> "", ids |-> ""]

HTAppendRule(c, rule) == [c EXCEPT !.rules = Append(@, rule)]

\* Protect and DefProt: a set-up in braces, in a file, or by name.  A rule whose
\* name is not known stays, without a set-up.  The ids of a rule without a
\* second argument are what an earlier line left in the vector.
ProtRule(c, l, op) ==
    LET r == NewRule(op, l.a[1], "")
        ids == IF Len(l.a) = 1 THEN "stale" ELSE IF Len(l.a) = 2 THEN "" ELSE l.a[3]
    IN  IF Len(l.a) = 1 THEN [r EXCEPT !.ids = ids]
        ELSE IF l.a[2] = "{" THEN [r EXCEPT !.prot = l.a[3]]
        ELSE IF l.a[2] \in SlashWords THEN [r EXCEPT !.file = l.a[2], !.ids = ids]
        ELSE [r EXCEPT !.prot = HTGetNamedProtection(c, l.a[2]), !.ids = ids]

Effect(c, l) ==
    LET e == Directive[l.d]
        word == l.a[1]
        t == parse_time(Params(l), 1) IN
    CASE e.how = "word" -> Set(c, e.of, word)
      [] e.how = "yes" -> Set(c, e.of, word \in Positive)
      [] e.how = "no" -> Set(c, e.of, word \in Negative)
      [] e.how = "choice" -> IF word \in DOMAIN WordsFor[e.of]
                             THEN Set(c, e.of, WordsFor[e.of][word]) ELSE c
      [] e.how = "show" -> Set(c, "HTDirShowMask", IF word \in Positive
                               THEN c.HTDirShowMask \cup {e.of} ELSE c.HTDirShowMask \ {e.of})
      [] e.how = "list" -> Set(c, e.of, Reverse(l.a) \o c[e.of])
      [] e.how = "welcome" -> Set(c, "welcome_names", <<word>> \o c.welcome_names)
      [] e.how = "bytes" -> Set(c, e.of, parse_bytes(Params(l), 1))
      [] e.how = "kilobytes" -> Set(c, e.of, Quotient(parse_bytes(Params(l), 1), Kilo))
      [] e.how = "time" -> Set(c, e.of, t.t)
      [] e.how = "timeout" -> SetIf(c, t.ok, e.of, t.t)
      [] e.how = "environment" -> SetIf(c, e.of # "", "environment", One(e.of, word) ++ c.environment)
      [] e.how = "error url" -> SetIf(c, Len(l.a) > 1, "error_urls",
                                      One(word, l.a[2]) ++ c.error_urls)
      [] e.how = "port" -> SetIf(c, c.port = 0, "port", atoi(word))
      [] e.how = "suffix" -> HTSetSuffix(c, l)
      [] e.how = "href" -> HTAddHref(c, l)
      [] e.how = "icon" -> HTAddIcon(c, l)
      [] e.how = "icon path" -> SetIf(c, Len(l.a) <= 2, "icon_path", word)
      [] e.how = "one icon" -> OneIcon(c, l, e.of)
      [] e.how = "length" -> Lengths(c, l)
      [] e.how = "method" -> Methods(c, l)
      [] e.how = "caching" -> Caching(c, l)
      [] e.how = "gc" -> Collection(c, l)
      [] e.how = "cache size" -> CacheSize(c, l)
      [] e.how = "templates" -> Templates(c, l, e.of)
      [] e.how = "factor" -> Factor(c, l)
      [] e.how = "htbin" -> HTAppendRule(c, NewRule("Exec", "htbin", word))
      [] e.how = "protection" -> HTAddNamedProtection(c, l)
      [] e.how = "rule" -> HTAppendRule(c, NewRule(e.of, word, IF Len(l.a) > 1 THEN l.a[2] ELSE ""))
      [] e.how = "protect" -> HTAppendRule(c, ProtRule(c, l, e.of))

\* A line with a directive that is not known is reported.
Parse(c, l) == IF l.d \in DOMAIN Directive THEN Effect(c, l) ELSE c

\* The first template for a URL decides; a URL is one that pat stands for.
get_pt(list, pat) ==
    LET found == {i \in DOMAIN list : list[i].pat = pat} IN
    IF found = {} THEN {} ELSE {list[Min(found)]}

-----------------------------------------------------------------------------
(* The files, the server's start and its reloads.                          *)

CONSTANTS
    RuleFile,        \* the names of configuration files
    RULE_FILE,       \* the one that is read by default
    Options,         \* command lines: [r, directory, port]
    DEFAULT_EXPORT,  \* the directory that is exported without any of them
    Line,            \* the lines a file of a behaviour may have: a set of sets
    MaxLines,        \* the bound of the lines of all files
    MaxEdits,        \* of the changes to them while the server runs
    MaxReloads       \* of its reloads

ASSUME OptionsAssumption ==
    Options \subseteq [r : Seq(RuleFile), directory : STRING, port : Nat] /\ RULE_FILE \in RuleFile

\* A directive without arguments is reported, before any other is looked for.
ASSUME LineAssumption ==
    \A l \in UNION Line : /\ l \in [d : STRING, a : Seq(DOMAIN Tokens), c : BOOLEAN]
                          /\ l.a # <<>>

VARIABLES
    lines,     \* file -> its lines
    readable,  \* the files that can be opened
    conf,      \* sc, rc, cc and the library's globals
    read,      \* the lines read so far, each with the number of the load
    loads,     \* the loads so far: the start is the first
    exported,  \* the directory the start exported, or none
    options,   \* the command line of this server
    edits

configurationVars == <<lines, readable, conf, read, loads, exported, options, edits>>

Known == HTDefaultConfig ++ Library

ConfigurationInit ==
    /\ lines = [f \in RuleFile |-> <<>>]
    /\ readable \in {RuleFile, {}}
    /\ conf = Known /\ read = <<>> /\ loads = 0 /\ edits = 0 /\ exported = ""
    /\ options \in Options

\* A file is remembered before it is opened.
Remember(c, f) == IF c.reloading THEN c ELSE [c EXCEPT !.rule_files = <<f>> \o @]

\* The lines of an open file, one after the other.
ReadLines(c, ls) ==
    LET after[i \in 0 .. Len(ls)] == IF i = 0 THEN c ELSE Parse(after[i - 1], ls[i])
    IN  after[Len(ls)]

HTLoadConfig(c, f) ==
    IF f \in readable THEN ReadLines(Remember(c, f), lines[f]) ELSE Remember(c, f)

LoadAll(c, files) ==
    LET after[i \in 0 .. Len(files)] ==
            IF i = 0 THEN c ELSE HTLoadConfig(after[i - 1], files[i])
    IN  after[Len(files)]

\* icon_init: the icons of the server itself, by name and by URL.
IconRules(c) ==
    IF c.icon_path # "" THEN <<>>
    ELSE <<NewRule("Pass", "icon URL", c.server_root), NewRule("Pass", "icons", c.server_root)>>

InitIcons(c) ==
    IF c.server_root # "" /\ ~c.icons_inited /\ "ICON" \in c.HTDirShowMask
    THEN [c EXCEPT !.rules = IconRules(c) \o @] ELSE c

\* The command line: the files after -r, or the default file; the directory
\* counts only without them.
Export(directory) == NewRule("Pass", "/*", directory)

ToExport ==
    IF options.r # <<>> THEN ""
    ELSE IF options.directory = "" /\ RULE_FILE \notin readable THEN DEFAULT_EXPORT
    ELSE options.directory

FilesAtStart ==
    IF options.r # <<>> THEN options.r ELSE IF options.directory = "" THEN <<RULE_FILE>> ELSE <<>>

Started(c) ==
    LET l == LoadAll(Set(c, "port", options.port), FilesAtStart)
    IN  InitIcons(IF ToExport = "" THEN l ELSE HTAppendRule(l, Export(ToExport)))

\* HTServerInit on SIGHUP.
clear_rules(c) == Set(c, "rules", <<>>)

\* Mutant: the rules read before are kept.
reload_config_Keep(c) == LoadAll(Set(c, "reloading", TRUE), c.rule_files)

reload_config(c) == LoadAll(Set(clear_rules(c), "reloading", TRUE), c.rule_files)
Reloaded(c) == InitIcons(reload_config(c))

\* What a load reads, for the properties.
LinesOf(f, load) ==
    IF f \in readable THEN [i \in DOMAIN lines[f] |-> [line |-> lines[f][i], load |-> load]] ELSE <<>>
LinesRead(r, files, load) ==
    LET upTo[i \in 0 .. Len(files)] ==
            IF i = 0 THEN r ELSE upTo[i - 1] \o LinesOf(files[i], load)
    IN  upTo[Len(files)]

LinesInAll == FoldSet(LAMBDA g, n : n + Len(lines[g]), 0, RuleFile)

WriteLine(f, l) ==
    /\ loads = 0 /\ f \in Range(FilesAtStart)
    /\ LinesInAll < MaxLines
    /\ lines' = [lines EXCEPT ![f] = Append(@, l)]
    /\ UNCHANGED <<readable, conf, read, loads, exported, options, edits>>

\* A file of the command line that cannot be read ends the program.
Start ==
    /\ loads = 0
    /\ Range(options.r) \subseteq readable
    /\ conf' = Started(conf)
    /\ read' = LinesRead(<<>>, FilesAtStart, 1)
    /\ loads' = 1
    /\ exported' = ToExport
    /\ UNCHANGED <<lines, readable, options, edits>>

\* The administrator drops the last line of a file, or the file.
Edit(f) ==
    /\ loads \in 1..MaxReloads /\ edits < MaxEdits
    /\ f \in Range(conf.rule_files)
    /\ \/ /\ lines[f] # <<>>
          /\ lines' = [lines EXCEPT ![f] = Front(@)]
          /\ UNCHANGED readable
       \/ /\ readable' = readable \ {f} /\ readable' # readable
          /\ UNCHANGED lines
    /\ edits' = edits + 1
    /\ UNCHANGED <<conf, read, loads, exported, options>>

sig_hup ==
    /\ loads \in 1..MaxReloads
    /\ conf' = Reloaded(conf)
    /\ read' = LinesRead(read, conf.rule_files, loads + 1)
    /\ loads' = loads + 1
    /\ UNCHANGED <<lines, readable, exported, options, edits>>

\* The lines that go with those there are.
Topics == {topic \in Line : \A f \in RuleFile : Range(lines[f]) \subseteq topic}

ConfigurationNext ==
    \/ \E f \in RuleFile, topic \in Topics : \E l \in topic : WriteLine(f, l)
    \/ Start
    \/ \E f \in RuleFile : Edit(f)
    \/ sig_hup

ConfigurationSpec == ConfigurationInit /\ [][ConfigurationNext]_configurationVars

-----------------------------------------------------------------------------
(* Properties.                                                             *)

\* The members of S up to n.
InOrder(S, n) ==
    LET upTo[i \in 0 .. n] ==
            IF i = 0 THEN <<>> ELSE IF i \in S THEN Append(upTo[i - 1], i) ELSE upTo[i - 1]
    IN  upTo[n]

\* Of the lines r: those with such a directive.
Of(r, directives) == {i \in DOMAIN r : r[i].line.d \in directives}
RuleWords == {"map", "pass", "fail", "exec", "redirect", "move", "htbin", "protect", "defprot"}

\* The set-up that a Protect line finds is the one of the newest definition of
\* its name among all the lines read before it, those of earlier loads included.
Defines(l, name) == l.d = "protection" /\ Len(l.a) >= 3 /\ l.a[2] = "{" /\ l.a[1] = name

SetupAt(r, i) ==
    LET l == r[i].line
        before == {j \in DOMAIN r : j < i /\ Defines(r[j].line, l.a[2])}
    IN  IF l.d \notin {"protect", "defprot"} \/ Len(l.a) = 1 THEN ""
        ELSE IF l.a[2] = "{" THEN l.a[3]
        ELSE IF l.a[2] \in SlashWords \/ before = {} THEN "" ELSE r[Max(before)].line.a[3]

\* The rules of a load, as read: pattern and set-up.
RulesRead(r, load) ==
    LET these == InOrder({i \in Of(r, RuleWords) : r[i].load = load}, Len(r)) IN
    [i \in DOMAIN these |-> [pat |-> IF r[these[i]].line.d = "htbin" THEN "htbin"
                                     ELSE r[these[i]].line.a[1],
                             prot |-> SetupAt(r, these[i])]]

\* The rules in force are the rules of the last load, in the order of its lines,
\* behind the server's own icons and before the exported directory, which is
\* gone after a reload.
RulesAsRead ==
    LET last == RulesRead(read, loads)
        own == Len(conf.rules) - Len(last) - IF loads = 1 /\ exported # "" THEN 1 ELSE 0 IN
    loads > 0 =>
        /\ own \in {0, 2}
        /\ \A i \in 1..own : conf.rules[i].op = "Pass" /\ conf.rules[i].eqv = conf.server_root
        /\ \A i \in DOMAIN last : /\ conf.rules[own + i].prot = last[i].prot
                                  /\ conf.rules[own + i].pat = last[i].pat

\* The first template that matches decides, of those behind the last line whose
\* time could not be read; templates of earlier loads count, too.
IsTemplate(l) == Len(l.a) > 1
TimeOf(l) == parse_time(Tokenised(Tail(l.a)) \o IF l.c THEN Comment ELSE <<>>, 86400)

TemplatesRead(r) ==
    LET given == {i \in Of(r, {"cacheclean"}) : IsTemplate(r[i].line)}
        bad == {i \in given : ~TimeOf(r[i].line).ok}
        kept == InOrder({i \in given : \A j \in bad : j < i}, Len(r))
    IN  [i \in DOMAIN kept |-> [pat |-> r[kept[i]].line.a[1], time |-> TimeOf(r[kept[i]].line).t]]

TemplatesAsRead == conf.cache_clean = TemplatesRead(read)

\* There is a cache just if a root was named while caching was not off, and
\* caching has not been turned off behind it.
Off(r) == {i \in Of(r, {"caching"}) : r[i].line.a[1] \in Negative}
OffAt(r, i) == \E j \in Off(r) : j < i /\ \A k \in Of(r, {"caching"}) \ Off(r) : k < j \/ k > i
Roots(r) == {i \in Of(r, {"cacheroot"}) : ~OffAt(r, i) /\ \A j \in Off(r) : j < i}
RootRead(r) == IF Roots(r) = {} THEN "" ELSE r[Max(Roots(r))].line.a[1]

CacheAsRead == conf.cache_root = RootRead(read)

\* The port of the command line, or the first one in the files.
Ports(r) == {i \in Of(r, {"port"}) : atoi(r[i].line.a[1]) # 0}
PortRead(r) == IF options.port # 0 \/ Ports(r) = {} THEN options.port
               ELSE atoi(r[Min(Ports(r))].line.a[1])

PortAsRead == loads > 0 => conf.port = PortRead(read)

\* However they are set, the shortest length is not above the longest.
LengthsInOrder == conf.HTDirMinFileLength <= conf.HTDirMaxFileLength

\* What a request can see of the configuration: the rules, the settings, the
\* members of the lists, and what the first matching template says.
Seen(c) ==
    [settings |-> [f \in DOMAIN c \ (Lists \cup {"reloading"}) |-> c[f]],
     members |-> [f \in Lists |-> Range(c[f])],
     rules |-> c.rules,
     times |-> [f \in {"cache_clean", "cache_unused", "cache_exp", "cache_refresh_interval",
                        "cache_lm_factors"} |->
                   [pat \in {c[f][i].pat : i \in DOMAIN c[f]} |-> get_pt(c[f], pat)]]]

UsedEarly ==
    \E i \in Of(read, {"protect", "defprot"}), j \in Of(read, {"protection"}) :
        i < j /\ Len(read[i].line.a) > 1 /\ read[i].line.a[2] = read[j].line.a[1]

\* Reading the same file again changes nothing that can be seen, unless a set-up
\* was used before its definition.
ReloadChangesNothing ==
    loads = 1 /\ edits = 0 /\ Len(FilesAtStart) = 1 /\ exported = "" /\ ~UsedEarly
        => Seen(Reloaded(conf)) = Seen(conf)

\* A time that is printed is read back.
Times == {s * 7 + m * 60 + h * 3600 + d * 86400 : s, m, h, d \in 0..2}
TimesRoundTrip == \A t \in Times : parse_time(make_time_spec(t), 1) = [ok |-> TRUE, t |-> t]

\* The configuration is that of the files as they were read, by however many
\* loads, and times go through the log and back.
ConfigurationRight ==
    /\ RulesAsRead /\ TemplatesAsRead /\ CacheAsRead /\ PortAsRead /\ LengthsInOrder
    /\ loads = 0 /\ read = <<>> /\ lines = [f \in RuleFile |-> <<>>] => TimesRoundTrip

=============================================================================
