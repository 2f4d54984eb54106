---------------------------- MODULE DaemonProofs ----------------------------
(***************************************************************************)
(* Proofs about the parent process.  Daemon: types, and one garbage        *)
(* collection at a time.  Configuration: what a line of a file changes,    *)
(* line by line, file by file and load by load; and times, as printed and  *)
(* as read.                                                                *)
(***************************************************************************)
EXTENDS Daemon, Configuration, WellFoundedInduction, TLAPS

-----------------------------------------------------------------------------
(* The table of the directives.                                            *)

\* The settings that are changed in ways of their own.
Own == Lists \cup {"port", "cache_root", "caching_explicitly_off", "HTDirMinFileLength",
                   "HTDirMaxFileLength", "reloading", "HTDirShowMask", "disabled", "environment",
                   "error_urls", "suffixes"}

\* How a directive may treat its arguments: one setting gets one value, ...
Plain == {"word", "yes", "no", "choice", "bytes", "kilobytes", "time", "timeout", "one icon"}

\* ... or in a way that is no matter of the rules, templates, cache, port and lengths.
Others == {"show", "welcome", "environment", "error url", "suffix", "href", "icon", "icon path",
           "method", "gc", "cache size", "factor"}

RuleNames == {"map", "pass", "fail", "exec", "redirect", "move"}
LengthNames == {"dirshowmaxdescriptionlength", "dirshowminlength", "dirshowmaxlength"}
Special == RuleNames \cup LengthNames \cup {"cacheroot", "caching", "port", "protection",
                                              "htbin", "protect", "defprot", "cacheclean"}

\* What a reader of the properties takes for granted about the entry of a directive.
Entry(d, how, of) ==
    \/ d \notin Special /\ how \in Plain /\ of \notin Own
    \/ d \notin Special /\ how \in Others
    \/ d \in LengthNames /\ how = "length"
    \/ d \notin Special /\ how = "list" /\ of \in {"no_log", "no_caching", "cache_only"}
    \/ /\ d \notin Special /\ how = "templates"
       /\ of \in {"cache_unused", "cache_exp", "cache_refresh_interval"}
    \/ d = "cacheclean" /\ how = "templates" /\ of = "cache_clean"
    \/ d \in {"cacheroot", "caching"} /\ how = "caching"
    \/ d = "port" /\ how = "port"
    \/ d = "protection" /\ how = "protection"
    \/ d = "htbin" /\ how = "htbin"
    \/ d \in {"protect", "defprot"} /\ how = "protect"
    \/ d \in RuleNames /\ how = "rule"

Table(of) == \A d \in DOMAIN of : Entry(d, of[d].how, of[d].of)

\* Two parts of the table make a part.
LEMMA TableJoin ==
    ASSUME NEW f, NEW g, Table(f), Table(g)
    PROVE  Table(f ++ g)
<1>1. \A d \in DOMAIN (f ++ g) :
          (d \in DOMAIN f /\ (f ++ g)[d] = f[d]) \/ (d \in DOMAIN g /\ (f ++ g)[d] = g[d])
  BY DEF ++
<1> QED
  BY <1>1 DEF Table

\* A part in which each directive has a setting of its own.
LEMMA EachTable ==
    ASSUME NEW how, NEW of, \A d \in DOMAIN of : Entry(d, how, of[d])
    PROVE  Table(Each(how, of))
BY DEF Table, Each

\* A part in which the directive itself is what matters.
LEMMA AllTable ==
    ASSUME NEW how, NEW S, \A d \in S : Entry(d, how, d)
    PROVE  Table(All(how, S))
BY DEF Table, All

\* Names of directives and settings that are not treated in ways of their own.
Safe(of) == \A d \in DOMAIN of : d \notin Special /\ of[d] \notin Own
Away(S) == \A d \in S : d \notin Special

\* Directives that set one setting, none with ways of its own.
LEMMA PlainTable ==
    ASSUME NEW how \in Plain, NEW of, Safe(of)
    PROVE  Table(Each(how, of))
BY EachTable DEF Safe, Entry

\* Directives that are treated in some way that does not matter here, with settings.
LEMMA OtherEachTable ==
    ASSUME NEW how \in Others, NEW of, Away(DOMAIN of)
    PROVE  Table(Each(how, of))
BY EachTable DEF Away, Entry

\* The same, without settings.
LEMMA OtherTable ==
    ASSUME NEW how \in Others, NEW S, Away(S)
    PROVE  Table(All(how, S))
BY AllTable DEF Away, Entry

\* Each of the parts of the table is as Entry says.
LEMMA SuffixDirectivesTable == Table(SuffixDirectives)
<1>1. Table(All("suffix", {"addtype", "addencoding", "addlanguage"}))
  <2>1. Away({"addtype", "addencoding", "addlanguage"})
    BY DEF Away, Special, RuleNames, LengthNames
  <2> QED
    BY <2>1, OtherTable DEF Others
<1>2. Table(All("href", {"diraddhref"}))
  <2>1. Away({"diraddhref"})
    BY DEF Away, Special, RuleNames, LengthNames
  <2> QED
    BY <2>1, OtherTable DEF Others
<1> QED
  BY <1>1, <1>2, TableJoin DEF SuffixDirectives

LEMMA ListingDirectivesTable == Table(ListingDirectives)
<1>1. Table(Each("word", [metadir |-> "meta_dir", metasuffix |-> "meta_suffix"]))
  <2>1. Safe([metadir |-> "meta_dir", metasuffix |-> "meta_suffix"])
    BY DEF Safe, Special, RuleNames, LengthNames, Own, Lists
  <2> QED
    BY <2>1, PlainTable DEF Plain
<1>2. Table(Each("list", [nolog |-> "no_log"]))
  <2>1. \A d \in DOMAIN [nolog |-> "no_log"] : Entry(d, "list", [nolog |-> "no_log"][d])
    BY DEF Entry, Special, RuleNames, LengthNames
  <2> QED
    BY <2>1, EachTable
<1>3. Table(Each("choice", [ftpdirinfo |-> "HTDirInfo"]))
  <2>1. Safe([ftpdirinfo |-> "HTDirInfo"])
    BY DEF Safe, Special, RuleNames, LengthNames, Own, Lists
  <2> QED
    BY <2>1, PlainTable DEF Plain
<1>4. Table(Each("show", [dircasesense |-> "CASE"]))
  <2>1. Away(DOMAIN [dircasesense |-> "CASE"])
    BY DEF Away, Special, RuleNames, LengthNames
  <2> QED
    BY <2>1, OtherEachTable DEF Others
<1>5. Table(All("error url", {"errorurl"}))
  <2>1. Away({"errorurl"})
    BY DEF Away, Special, RuleNames, LengthNames
  <2> QED
    BY <2>1, OtherTable DEF Others
<1> QED
  BY <1>1, <1>2, <1>3, <1>4, <1>5, TableJoin DEF ListingDirectives

LEMMA dir_show_configTable == Table(dir_show_config)
<1>1. Table(Each("show", [dirshowicons |-> "ICON", dirshowdate |-> "DATE", dirshowsize |-> "SIZE", dirshowhidden |-> "HID", dirshowowner |-> "OWNER", dirshowgroup |-> "GROUP", dirshowmode |-> "MODE", dirshowcase |-> "CASE"]))
  <2>1. Away(DOMAIN [dirshowicons |-> "ICON", dirshowdate |-> "DATE", dirshowsize |-> "SIZE", dirshowhidden |-> "HID", dirshowowner |-> "OWNER", dirshowgroup |-> "GROUP", dirshowmode |-> "MODE", dirshowcase |-> "CASE"])
    BY DEF Away, Special, RuleNames, LengthNames
  <2> QED
    BY <2>1, OtherEachTable DEF Others
<1>2. Table(Each("yes", [dirshowbrackets |-> "HTDirShowBrackets", dirshowbytes |-> "HTDirShowBytes", dirshowdescription |-> "HTDirDescriptions", dirshowhtmltitles |-> "HTPeekTitles"]))
  <2>1. Safe([dirshowbrackets |-> "HTDirShowBrackets", dirshowbytes |-> "HTDirShowBytes", dirshowdescription |-> "HTDirDescriptions", dirshowhtmltitles |-> "HTPeekTitles"])
    BY DEF Safe, Special, RuleNames, LengthNames, Own, Lists
  <2> QED
    BY <2>1, PlainTable DEF Plain
<1>3. Table(All("length", {"dirshowmaxdescriptionlength", "dirshowminlength", "dirshowmaxlength"}))
  <2>1. \A d \in {"dirshowmaxdescriptionlength", "dirshowminlength", "dirshowmaxlength"} : Entry(d, "length", d)
    BY DEF Entry, Special, RuleNames, LengthNames
  <2> QED
    BY <2>1, AllTable
<1> QED
  BY <1>1, <1>2, <1>3, TableJoin DEF dir_show_config

LEMMA IconDirectivesTable == Table(IconDirectives)
<1>1. Table(All("icon", {"addicontostd", "addicon"}))
  <2>1. Away({"addicontostd", "addicon"})
    BY DEF Away, Special, RuleNames, LengthNames
  <2> QED
    BY <2>1, OtherTable DEF Others
<1>2. Table(All("icon path", {"iconpath"}))
  <2>1. Away({"iconpath"})
    BY DEF Away, Special, RuleNames, LengthNames
  <2> QED
    BY <2>1, OtherTable DEF Others
<1>3. Table(Each("one icon", [addblankicon |-> "icon_blank", addunknownicon |-> "icon_unknown", addparenticon |-> "icon_parent", adddiricon |-> "icon_dir"]))
  <2>1. Safe([addblankicon |-> "icon_blank", addunknownicon |-> "icon_unknown", addparenticon |-> "icon_parent", adddiricon |-> "icon_dir"])
    BY DEF Safe, Special, RuleNames, LengthNames, Own, Lists
  <2> QED
    BY <2>1, PlainTable DEF Plain
<1> QED
  BY <1>1, <1>2, <1>3, TableJoin DEF IconDirectives

LEMMA ServerDirectivesTable == Table(ServerDirectives)
<1>1. Table(Each("word", [serverroot |-> "server_root"]))
  <2>1. Safe([serverroot |-> "server_root"])
    BY DEF Safe, Special, RuleNames, LengthNames, Own, Lists
  <2> QED
    BY <2>1, PlainTable DEF Plain
<1>2. Table(Each("choice", [securitylevel |-> "security_level"]))
  <2>1. Safe([securitylevel |-> "security_level"])
    BY DEF Safe, Special, RuleNames, LengthNames, Own, Lists
  <2> QED
    BY <2>1, PlainTable DEF Plain
<1>3. Table(All("method", {"disable", "enable"}))
  <2>1. Away({"disable", "enable"})
    BY DEF Away, Special, RuleNames, LengthNames
  <2> QED
    BY <2>1, OtherTable DEF Others
<1>4. Table(Each("yes", [identitycheck |-> "do_rfc931", dnslookup |-> "do_dns_lookup", accepthack |-> "do_accept_hack", linger |-> "do_linger"]))
  <2>1. Safe([identitycheck |-> "do_rfc931", dnslookup |-> "do_dns_lookup", accepthack |-> "do_accept_hack", linger |-> "do_linger"])
    BY DEF Safe, Special, RuleNames, LengthNames, Own, Lists
  <2> QED
    BY <2>1, PlainTable DEF Plain
<1>5. Table(Each("bytes", [maxcontentlengthbuf |-> "max_content_len_buf"]))
  <2>1. Safe([maxcontentlengthbuf |-> "max_content_len_buf"])
    BY DEF Safe, Special, RuleNames, LengthNames, Own, Lists
  <2> QED
    BY <2>1, PlainTable DEF Plain
<1> QED
  BY <1>1, <1>2, <1>3, <1>4, <1>5, TableJoin DEF ServerDirectives

LEMMA CacheDirectivesTable == Table(CacheDirectives)
<1>1. Table(All("caching", {"cacheroot", "caching"}))
  <2>1. \A d \in {"cacheroot", "caching"} : Entry(d, "caching", d)
    BY DEF Entry, Special, RuleNames, LengthNames
  <2> QED
    BY <2>1, AllTable
<1>2. Table(Each("list", [nocaching |-> "no_caching", cacheonly |-> "cache_only"]))
  <2>1. \A d \in DOMAIN [nocaching |-> "no_caching", cacheonly |-> "cache_only"] : Entry(d, "list", [nocaching |-> "no_caching", cacheonly |-> "cache_only"][d])
    BY DEF Entry, Special, RuleNames, LengthNames
  <2> QED
    BY <2>1, EachTable
<1>3. Table(All("gc", {"gcdailygc", "gcmemusage"}))
  <2>1. Away({"gcdailygc", "gcmemusage"})
    BY DEF Away, Special, RuleNames, LengthNames
  <2> QED
    BY <2>1, OtherTable DEF Others
<1>4. Table(Each("no", [gc |-> "gc_disabled"]))
  <2>1. Safe([gc |-> "gc_disabled"])
    BY DEF Safe, Special, RuleNames, LengthNames, Own, Lists
  <2> QED
    BY <2>1, PlainTable DEF Plain
<1>5. Table(All("cache size", {"cachesize", "cachefiles"}))
  <2>1. Away({"cachesize", "cachefiles"})
    BY DEF Away, Special, RuleNames, LengthNames
  <2> QED
    BY <2>1, OtherTable DEF Others
<1>6. Table(Each("kilobytes", [cachelimit1 |-> "cache_limit_1", cachelimit2 |-> "cache_limit_2"]))
  <2>1. Safe([cachelimit1 |-> "cache_limit_1", cachelimit2 |-> "cache_limit_2"])
    BY DEF Safe, Special, RuleNames, LengthNames, Own, Lists
  <2> QED
    BY <2>1, PlainTable DEF Plain
<1> QED
  BY <1>1, <1>2, <1>3, <1>4, <1>5, <1>6, TableJoin DEF CacheDirectives

LEMMA CacheTimeDirectivesTable == Table(CacheTimeDirectives)
<1>1. Table(Each("templates", [cacheclean |-> "cache_clean", cacheunused |-> "cache_unused", cachedefaultexpiry |-> "cache_exp", cacherefreshinterval |-> "cache_refresh_interval"]))
  <2>1. \A d \in DOMAIN [cacheclean |-> "cache_clean", cacheunused |-> "cache_unused", cachedefaultexpiry |-> "cache_exp", cacherefreshinterval |-> "cache_refresh_interval"] : Entry(d, "templates", [cacheclean |-> "cache_clean", cacheunused |-> "cache_unused", cachedefaultexpiry |-> "cache_exp", cacherefreshinterval |-> "cache_refresh_interval"][d])
    BY DEF Entry, Special, RuleNames, LengthNames
  <2> QED
    BY <2>1, EachTable
<1>2. Table(Each("time", [cachelocktimeout |-> "cache_lock_timeout", cachetimemargin |-> "cache_time_margin"]))
  <2>1. Safe([cachelocktimeout |-> "cache_lock_timeout", cachetimemargin |-> "cache_time_margin"])
    BY DEF Safe, Special, RuleNames, LengthNames, Own, Lists
  <2> QED
    BY <2>1, PlainTable DEF Plain
<1>3. Table(All("factor", {"cachelastmodifiedfactor"}))
  <2>1. Away({"cachelastmodifiedfactor"})
    BY DEF Away, Special, RuleNames, LengthNames
  <2> QED
    BY <2>1, OtherTable DEF Others
<1>4. Table(Each("yes", [keepexpired |-> "keep_expired", cacheexpirycheck |-> "do_exp_check", cachenoconnect |-> "cache_no_connect"]))
  <2>1. Safe([keepexpired |-> "keep_expired", cacheexpirycheck |-> "do_exp_check", cachenoconnect |-> "cache_no_connect"])
    BY DEF Safe, Special, RuleNames, LengthNames, Own, Lists
  <2> QED
    BY <2>1, PlainTable DEF Plain
<1> QED
  BY <1>1, <1>2, <1>3, <1>4, TableJoin DEF CacheTimeDirectives

LEMMA ProxyDirectivesTable == Table(ProxyDirectives)
<1>1. Table(Each("word", [proxyaccesslog |-> "proxy_log_name"]))
  <2>1. Safe([proxyaccesslog |-> "proxy_log_name"])
    BY DEF Safe, Special, RuleNames, LengthNames, Own, Lists
  <2> QED
    BY <2>1, PlainTable DEF Plain
<1>2. Table(Each("environment", [httpproxy |-> "http_proxy", gopherproxy |-> "gopher_proxy", ftpproxy |-> "ftp_proxy", waisproxy |-> "wais_proxy", newsproxy |-> "news_proxy", noproxy |-> "no_proxy", useproxy |-> ""]))
  <2>1. Away(DOMAIN [httpproxy |-> "http_proxy", gopherproxy |-> "gopher_proxy", ftpproxy |-> "ftp_proxy", waisproxy |-> "wais_proxy", newsproxy |-> "news_proxy", noproxy |-> "no_proxy", useproxy |-> ""])
    BY DEF Away, Special, RuleNames, LengthNames
  <2> QED
    BY <2>1, OtherEachTable DEF Others
<1> QED
  BY <1>1, <1>2, TableJoin DEF ProxyDirectives

LEMMA SystemDirectivesTable == Table(SystemDirectives)
<1>1. Table(Each("yes", [suffixcasesense |-> "HTSuffixCaseSense", rulecasesense |-> "HTRuleCaseSense", setuid |-> "do_setuid"]))
  <2>1. Safe([suffixcasesense |-> "HTSuffixCaseSense", rulecasesense |-> "HTRuleCaseSense", setuid |-> "do_setuid"])
    BY DEF Safe, Special, RuleNames, LengthNames, Own, Lists
  <2> QED
    BY <2>1, PlainTable DEF Plain
<1>2. Table(Each("timeout", [inputtimeout |-> "input_timeout", outputtimeout |-> "output_timeout", scripttimeout |-> "script_timeout"]))
  <2>1. Safe([inputtimeout |-> "input_timeout", outputtimeout |-> "output_timeout", scripttimeout |-> "script_timeout"])
    BY DEF Safe, Special, RuleNames, LengthNames, Own, Lists
  <2> QED
    BY <2>1, PlainTable DEF Plain
<1>3. Table(Each("choice", [diraccess |-> "HTDirAccess", dirreadme |-> "HTDirReadme"]))
  <2>1. Safe([diraccess |-> "HTDirAccess", dirreadme |-> "HTDirReadme"])
    BY DEF Safe, Special, RuleNames, LengthNames, Own, Lists
  <2> QED
    BY <2>1, PlainTable DEF Plain
<1>4. Table(Each("word", [userid |-> "user_id", groupid |-> "group_id", parentuserid |-> "parent_uid", parentgroupid |-> "parent_gid"]))
  <2>1. Safe([userid |-> "user_id", groupid |-> "group_id", parentuserid |-> "parent_uid", parentgroupid |-> "parent_gid"])
    BY DEF Safe, Special, RuleNames, LengthNames, Own, Lists
  <2> QED
    BY <2>1, PlainTable DEF Plain
<1> QED
  BY <1>1, <1>2, <1>3, <1>4, TableJoin DEF SystemDirectives

LEMMA LogDirectivesTable == Table(LogDirectives)
<1>1. Table(Each("word", [accesslog |-> "access_log_name", logfile |-> "access_log_name", cacheaccesslog |-> "cache_log_name", errorlog |-> "error_log_name", logfiledateext |-> "log_file_date_ext"]))
  <2>1. Safe([accesslog |-> "access_log_name", logfile |-> "access_log_name", cacheaccesslog |-> "cache_log_name", errorlog |-> "error_log_name", logfiledateext |-> "log_file_date_ext"])
    BY DEF Safe, Special, RuleNames, LengthNames, Own, Lists
  <2> QED
    BY <2>1, PlainTable DEF Plain
<1>2. Table(Each("choice", [logformat |-> "new_logfile_format", logtime |-> "use_gmt"]))
  <2>1. Safe([logformat |-> "new_logfile_format", logtime |-> "use_gmt"])
    BY DEF Safe, Special, RuleNames, LengthNames, Own, Lists
  <2> QED
    BY <2>1, PlainTable DEF Plain
<1> QED
  BY <1>1, <1>2, TableJoin DEF LogDirectives

LEMMA ScriptDirectivesTable == Table(ScriptDirectives)
<1>1. Table(Each("word", [putscript |-> "put_script", postscript |-> "post_script", deletescript |-> "delete_script", userdir |-> "user_dir", search |-> "search_script", hostname |-> "hostname", pidfile |-> "pid_file"]))
  <2>1. Safe([putscript |-> "put_script", postscript |-> "post_script", deletescript |-> "delete_script", userdir |-> "user_dir", search |-> "search_script", hostname |-> "hostname", pidfile |-> "pid_file"])
    BY DEF Safe, Special, RuleNames, LengthNames, Own, Lists
  <2> QED
    BY <2>1, PlainTable DEF Plain
<1>2. Table(Each("yes", [alwayswelcome |-> "always_welcome"]))
  <2>1. Safe([alwayswelcome |-> "always_welcome"])
    BY DEF Safe, Special, RuleNames, LengthNames, Own, Lists
  <2> QED
    BY <2>1, PlainTable DEF Plain
<1>3. Table(All("welcome", {"welcome"}))
  <2>1. Away({"welcome"})
    BY DEF Away, Special, RuleNames, LengthNames
  <2> QED
    BY <2>1, OtherTable DEF Others
<1>4. Table(All("htbin", {"htbin"}))
  <2>1. \A d \in {"htbin"} : Entry(d, "htbin", d)
    BY DEF Entry, Special, RuleNames, LengthNames
  <2> QED
    BY <2>1, AllTable
<1>5. Table(Each("choice", [servertype |-> "server_type"]))
  <2>1. Safe([servertype |-> "server_type"])
    BY DEF Safe, Special, RuleNames, LengthNames, Own, Lists
  <2> QED
    BY <2>1, PlainTable DEF Plain
<1>6. Table(All("port", {"port"}))
  <2>1. \A d \in {"port"} : Entry(d, "port", d)
    BY DEF Entry, Special, RuleNames, LengthNames
  <2> QED
    BY <2>1, AllTable
<1> QED
  BY <1>1, <1>2, <1>3, <1>4, <1>5, <1>6, TableJoin DEF ScriptDirectives

LEMMA RuleDirectivesTable == Table(RuleDirectives)
<1>1. Table(All("protection", {"protection"}))
  <2>1. \A d \in {"protection"} : Entry(d, "protection", d)
    BY DEF Entry, Special, RuleNames, LengthNames
  <2> QED
    BY <2>1, AllTable
<1>2. Table(Each("rule", [map |-> "Map", pass |-> "Pass", fail |-> "Fail", exec |-> "Exec", redirect |-> "Redirect", move |-> "Move"]))
  <2>1. \A d \in DOMAIN [map |-> "Map", pass |-> "Pass", fail |-> "Fail", exec |-> "Exec", redirect |-> "Redirect", move |-> "Move"] : Entry(d, "rule", [map |-> "Map", pass |-> "Pass", fail |-> "Fail", exec |-> "Exec", redirect |-> "Redirect", move |-> "Move"][d])
    BY DEF Entry, Special, RuleNames, LengthNames
  <2> QED
    BY <2>1, EachTable
<1>3. Table(Each("protect", [defprot |-> "DefProt", protect |-> "Protect"]))
  <2>1. \A d \in DOMAIN [defprot |-> "DefProt", protect |-> "Protect"] : Entry(d, "protect", [defprot |-> "DefProt", protect |-> "Protect"][d])
    BY DEF Entry, Special, RuleNames, LengthNames
  <2> QED
    BY <2>1, EachTable
<1> QED
  BY <1>1, <1>2, <1>3, TableJoin DEF RuleDirectives

\* Every directive is as Entry says.
LEMMA DirectiveTable == Table(Directive)
BY SuffixDirectivesTable, ListingDirectivesTable, dir_show_configTable, IconDirectivesTable, ServerDirectivesTable, CacheDirectivesTable, CacheTimeDirectivesTable, ProxyDirectivesTable, SystemDirectivesTable, LogDirectivesTable, ScriptDirectivesTable, RuleDirectivesTable, TableJoin DEF Directive

-----------------------------------------------------------------------------
(* What a line leaves alone.                                               *)

Fields == DOMAIN Known

\* The settings that the properties are about.
Tracked == {"rules", "named_prots", "rule_files", "cache_clean", "cache_root",
            "caching_explicitly_off", "port", "reloading", "HTDirMinFileLength",
            "HTDirMaxFileLength"}

Keeps(c, n, fields) == DOMAIN n = DOMAIN c /\ \A f \in fields : n[f] = c[f]

\* What two tables know.
LEMMA InJoin ==
    ASSUME NEW f, NEW g, NEW x
    PROVE  x \in DOMAIN (f ++ g) <=> x \in DOMAIN f \/ x \in DOMAIN g
BY DEF ++

\* The settings of the properties are settings, and each is changed in ways of its own.
LEMMA TrackedFields == Tracked \subseteq Fields /\ Tracked \subseteq Own
<1>1. DOMAIN EmptyLists(Lists) \subseteq DOMAIN HTDefaultConfig
  BY InJoin DEF HTDefaultConfig
<1>2. {"caching_explicitly_off", "reloading"} \subseteq DOMAIN HTDefaultConfig
  <2>1. \A S : DOMAIN No(S) = S
    BY DEF No
  <2> QED
    BY <2>1, InJoin DEF HTDefaultConfig
<1>3. {"HTDirMinFileLength", "HTDirMaxFileLength"} \subseteq DOMAIN Library
  BY DEF Library
<1>4. DOMAIN Unset(Strings) \subseteq DOMAIN HTDefaultConfig
  BY InJoin DEF HTDefaultConfig
<1>5. "port" \in DOMAIN HTDefaultConfig
  <2>1. "port" \in DOMAIN Defaults
    BY DEF Defaults
  <2> QED
    BY <2>1, InJoin DEF HTDefaultConfig
<1>6. Fields = DOMAIN HTDefaultConfig \cup DOMAIN Library
  BY InJoin DEF Fields, Known
<1>7. DOMAIN EmptyLists(Lists) = Lists /\ DOMAIN Unset(Strings) = Strings
  BY DEF EmptyLists, Unset
<1>8. Tracked \subseteq Fields
  BY <1>1, <1>2, <1>3, <1>4, <1>5, <1>6, <1>7 DEF Tracked, Lists, Strings
<1> QED
  BY <1>8 DEF Tracked, Own, Lists

\* Setting one setting keeps the others.
LEMMA SetKeeps ==
    ASSUME NEW c, NEW field, NEW value, NEW fields, field \notin fields
    PROVE  /\ Keeps(c, Set(c, field, value), fields)
           /\ \A condition : Keeps(c, SetIf(c, condition, field, value), fields)
BY DEF Keeps, Set, SetIf

\* A setting that is set has its value.
LEMMA SetSets ==
    ASSUME NEW c, NEW field \in DOMAIN c, NEW value
    PROVE  Set(c, field, value)[field] = value
BY DEF Set

\* A setting that gets one value.
LEMMA EffectPlain ==
    ASSUME NEW c, NEW l, Directive[l.d].how \in Plain
    PROVE  LET e == Directive[l.d] IN
           \/ Effect(c, l) = c
           \/ \E value : Effect(c, l) = Set(c, e.of, value)
           \/ \E value : Effect(c, l) = Set(Set(c, "icons_inited", TRUE), e.of, value)
           \/ Effect(c, l) = Set(c, "icons_inited", TRUE)
<1> DEFINE e == Directive[l.d]
<1>1. CASE e.how = "word"
  BY <1>1 DEF Effect
<1>2. CASE e.how = "yes"
  BY <1>2 DEF Effect
<1>3. CASE e.how = "no"
  BY <1>3 DEF Effect
<1>4. CASE e.how = "choice"
  BY <1>4 DEF Effect
<1>5. CASE e.how = "bytes"
  BY <1>5 DEF Effect
<1>6. CASE e.how = "kilobytes"
  BY <1>6 DEF Effect
<1>7. CASE e.how = "time"
  BY <1>7 DEF Effect
<1>8. CASE e.how = "timeout"
  BY <1>8 DEF Effect, SetIf
<1>9. CASE e.how = "one icon"
  <2>1. Effect(c, l) = OneIcon(c, l, e.of)
    BY <1>9 DEF Effect
  <2> QED
    BY <2>1 DEF OneIcon, SetIf
<1> QED
  BY <1>1, <1>2, <1>3, <1>4, <1>5, <1>6, <1>7, <1>8, <1>9 DEF Plain

\* Keeping is transitive.
LEMMA KeepsAll ==
    ASSUME NEW c, NEW fields
    PROVE  /\ Keeps(c, c, fields)
           /\ \A n, m : Keeps(c, n, fields) /\ Keeps(n, m, fields) => Keeps(c, m, fields)
BY DEF Keeps

\* A directive that sets one setting keeps the others.
LEMMA PlainKeeps ==
    ASSUME NEW c, NEW l, Directive[l.d].how \in Plain, NEW fields,
           Directive[l.d].of \notin fields, "icons_inited" \notin fields
    PROVE  Keeps(c, Effect(c, l), fields)
<1> DEFINE e == Directive[l.d]
<1>1. CASE Effect(c, l) = c
  BY <1>1, KeepsAll
<1>2. CASE \E value : Effect(c, l) = Set(c, e.of, value)
  BY <1>2, SetKeeps
<1>3. CASE \E value : Effect(c, l) = Set(Set(c, "icons_inited", TRUE), e.of, value)
  <2>1. PICK value : Effect(c, l) = Set(Set(c, "icons_inited", TRUE), e.of, value)
    BY <1>3
  <2> DEFINE n == Set(c, "icons_inited", TRUE)
  <2>2. Keeps(c, n, fields)
    BY SetKeeps
  <2>3. Keeps(n, Set(n, e.of, value), fields)
    BY SetKeeps
  <2> HIDE DEF n
  <2> QED
    BY <2>1, <2>2, <2>3, KeepsAll DEF n
<1>4. CASE Effect(c, l) = Set(c, "icons_inited", TRUE)
  BY <1>4, SetKeeps
<1> QED
  BY <1>1, <1>2, <1>3, <1>4, EffectPlain

\* The settings that are tables, sets or lists.
Kept == {"HTDirShowMask", "welcome_names", "environment", "error_urls", "suffixes", "hrefs",
         "icons", "icons_inited", "icon_path", "disabled", "gc_mem_usage_control", "gc_daily_gc",
         "cache_max_k", "cache_max_f", "cache_lm_factors"}

\* The other directives keep what none of them is in charge of.
LEMMA OthersKeep ==
    ASSUME NEW c, NEW l, Directive[l.d].how \in Others, NEW fields, fields \cap Kept = {}
    PROVE  Keeps(c, Effect(c, l), fields)
<1> DEFINE e == Directive[l.d]
<1>0. \A f \in Kept : f \notin fields
  OBVIOUS
<1>1. CASE e.how = "show"
  BY <1>0, <1>1, SetKeeps DEF Effect, Kept
<1>2. CASE e.how = "welcome"
  BY <1>0, <1>2, SetKeeps DEF Effect, Kept
<1>3. CASE e.how = "environment"
  BY <1>0, <1>3, SetKeeps DEF Effect, Kept
<1>4. CASE e.how = "error url"
  BY <1>0, <1>4, SetKeeps DEF Effect, Kept
<1>5. CASE e.how = "suffix"
  <2>1. Effect(c, l) = HTSetSuffix(c, l)
    BY <1>5 DEF Effect
  <2> QED
    BY <1>0, <2>1, SetKeeps DEF HTSetSuffix, Kept
<1>6. CASE e.how = "href"
  <2>1. Effect(c, l) = HTAddHref(c, l)
    BY <1>6 DEF Effect
  <2>2. Effect(c, l) = c \/ \E value : Effect(c, l) = Set(c, "hrefs", value)
    BY <2>1 DEF HTAddHref, Set
  <2> QED
    BY <1>0, <2>2, SetKeeps, KeepsAll DEF Kept
<1>7. CASE e.how = "icon"
  <2>1. Effect(c, l) = HTAddIcon(c, l)
    BY <1>7 DEF Effect
  <2> DEFINE n == IF l.d = "addicon" THEN Set(c, "icons_inited", TRUE) ELSE c
  <2>2. Keeps(c, n, fields)
    BY <1>0, SetKeeps, KeepsAll DEF Kept
  <2>3. Keeps(n, Effect(c, l), fields)
    <3>1. PICK new, condition : Effect(c, l) = SetIf(n, condition, "icons", new)
      BY <2>1 DEF HTAddIcon
    <3> QED
      BY <1>0, <3>1, SetKeeps DEF Kept
  <2> QED
    BY <2>2, <2>3, KeepsAll
<1>8. CASE e.how = "icon path"
  BY <1>0, <1>8, SetKeeps DEF Effect, Kept
<1>9. CASE e.how = "method"
  <2>1. Effect(c, l) = Methods(c, l)
    BY <1>9 DEF Effect
  <2>2. Effect(c, l) = c \/ \E value : Effect(c, l) = Set(c, "disabled", value)
    BY <2>1 DEF Methods, Set
  <2> QED
    BY <1>0, <2>2, SetKeeps, KeepsAll DEF Kept
<1>10. CASE e.how = "gc"
  <2>1. Effect(c, l) = Collection(c, l)
    BY <1>10 DEF Effect
  <2> QED
    BY <1>0, <2>1, SetKeeps DEF Collection, Kept
<1>11. CASE e.how = "cache size"
  <2>1. Effect(c, l) = CacheSize(c, l)
    BY <1>11 DEF Effect
  <2> QED
    BY <1>0, <2>1, SetKeeps DEF CacheSize, Kept
<1>12. CASE e.how = "factor"
  <2>1. Effect(c, l) = Factor(c, l)
    BY <1>12 DEF Effect
  <2>2. Effect(c, l) = c \/ \E value : Effect(c, l) = Set(c, "cache_lm_factors", value)
    BY <2>1 DEF Factor, Set
  <2> QED
    BY <1>0, <2>2, SetKeeps, KeepsAll DEF Kept
<1> QED
  BY <1>1, <1>2, <1>3, <1>4, <1>5, <1>6, <1>7, <1>8, <1>9, <1>10, <1>11, <1>12 DEF Others

\* parse_pt's line changes its list, or the default of it.
LEMMA TemplatesKeep ==
    ASSUME NEW c, NEW l, NEW of, NEW fields, of \notin fields,
           of \in DOMAIN DefaultOf => DefaultOf[of] \notin fields
    PROVE  Keeps(c, Templates(c, l, of), fields)
BY SetKeeps DEF Templates

\* Setting two settings keeps the others.
LEMMA TwoKeep ==
    ASSUME NEW c, NEW f, NEW g, NEW v, NEW w, NEW fields, f \notin fields, g \notin fields
    PROVE  Keeps(c, [c EXCEPT ![f] = v, ![g] = w], fields)
<1>1. PICK n : n = Set(c, f, v)
  OBVIOUS
<1>2. Keeps(c, n, fields) /\ Keeps(n, Set(n, g, w), fields)
  BY <1>1, SetKeeps
<1>3. Set(n, g, w) = [c EXCEPT ![f] = v, ![g] = w]
  BY <1>1 DEF Set
<1> QED
  BY <1>2, <1>3, KeepsAll

\* The lengths of names move without any other setting.
LEMMA LengthsKeep ==
    ASSUME NEW c, NEW l,
           l.d \in LengthNames,
           NEW fields,
           {"HTDirMinFileLength", "HTDirMaxFileLength", "HTDirMaxDescrLength"} \cap fields = {}
    PROVE  Keeps(c, Lengths(c, l), fields)
<1>1. CASE l.d = "dirshowmaxdescriptionlength"
  BY <1>1, SetKeeps DEF Lengths
<1>2. CASE l.d = "dirshowminlength"
  <2>1. \/ Lengths(c, l) = c
        \/ \E v, w : Lengths(c, l) = [c EXCEPT !["HTDirMinFileLength"] = v,
                                             !["HTDirMaxFileLength"] = w]
    BY <1>2 DEF Lengths
  <2>2. ASSUME NEW v, NEW w, Lengths(c, l) = [c EXCEPT !["HTDirMinFileLength"] = v,
                                                     !["HTDirMaxFileLength"] = w]
        PROVE  Keeps(c, Lengths(c, l), fields)
    <3>1. "HTDirMinFileLength" \notin fields /\ "HTDirMaxFileLength" \notin fields
      OBVIOUS
    <3>2. Keeps(c, [c EXCEPT !["HTDirMinFileLength"] = v, !["HTDirMaxFileLength"] = w], fields)
      BY <3>1, TwoKeep
    <3> QED
      BY <2>2, <3>2
  <2> QED
    BY <2>1, <2>2, KeepsAll
<1>3. CASE l.d = "dirshowmaxlength"
  <2>1. \/ Lengths(c, l) = c
        \/ \E v, w : Lengths(c, l) = [c EXCEPT !["HTDirMaxFileLength"] = v,
                                             !["HTDirMinFileLength"] = w]
    BY <1>3 DEF Lengths
  <2>2. ASSUME NEW v, NEW w, Lengths(c, l) = [c EXCEPT !["HTDirMaxFileLength"] = v,
                                                     !["HTDirMinFileLength"] = w]
        PROVE  Keeps(c, Lengths(c, l), fields)
    <3>1. "HTDirMinFileLength" \notin fields /\ "HTDirMaxFileLength" \notin fields
      OBVIOUS
    <3>2. Keeps(c, [c EXCEPT !["HTDirMaxFileLength"] = v, !["HTDirMinFileLength"] = w], fields)
      BY <3>1, TwoKeep
    <3> QED
      BY <2>2, <3>2
  <2> QED
    BY <2>1, <2>2, KeepsAll
<1> QED
  BY <1>1, <1>2, <1>3 DEF LengthNames

\* A line of no special directive leaves the tracked settings alone.
LEMMA OrdinaryLine ==
    ASSUME NEW c, NEW l, l.d \notin Special
    PROVE  Keeps(c, Parse(c, l), Tracked)
<1> DEFINE e == Directive[l.d]
<1>1. CASE l.d \notin DOMAIN Directive
  BY <1>1, KeepsAll DEF Parse
<1>2. CASE l.d \in DOMAIN Directive
  <2>1. Parse(c, l) = Effect(c, l)
    BY <1>2 DEF Parse
  <2>2. Entry(l.d, e.how, e.of)
    BY <1>2, DirectiveTable DEF Table
  <2>3. CASE e.how \in Plain /\ e.of \notin Own
    BY <2>1, <2>3, PlainKeeps, TrackedFields DEF Tracked
  <2>4. CASE e.how \in Others
    <3>1. Tracked \cap Kept = {}
      BY DEF Tracked, Kept
    <3> QED
      BY <2>1, <2>4, <3>1, OthersKeep
  <2>5. CASE e.how = "list" /\ e.of \in {"no_log", "no_caching", "cache_only"}
    BY <2>1, <2>5, SetKeeps DEF Effect, Tracked
  <2>6. CASE e.how = "templates" /\ e.of \in {"cache_unused", "cache_exp", "cache_refresh_interval"}
    <3>1. Effect(c, l) = Templates(c, l, e.of)
      BY <2>6 DEF Effect
    <3>2. e.of \notin Tracked /\ (e.of \in DOMAIN DefaultOf => DefaultOf[e.of] \notin Tracked)
      BY <2>6 DEF Tracked, DefaultOf
    <3> QED
      BY <2>1, <3>1, <3>2, TemplatesKeep
  <2> QED
    BY <2>2, <2>3, <2>4, <2>5, <2>6 DEF Entry, Special, RuleNames, LengthNames
<1> QED
  BY <1>1, <1>2

-----------------------------------------------------------------------------
(* Loops, a round at a time.                                               *)

\* A set of numbers has a least one.
LEMMA LeastNatural ==
    ASSUME NEW T, T \subseteq Nat, T # {}
    PROVE  \E m \in T : \A k \in T : m <= k
<1>1. \E m \in T : \A k \in T : ~ (<<k, m>> \in OpToRel(<, Nat))
  BY WFMin, NatLessThanWellFounded
<1>2. OpToRel(<, Nat) = {p \in Nat \X Nat : p[1] < p[2]}
  BY Zenon DEF OpToRel
<1>3. \A k, m \in Nat : k < m => <<k, m>> \in {p \in Nat \X Nat : p[1] < p[2]}
  OBVIOUS
<1>4. PICK m \in T : \A k \in T : ~ (<<k, m>> \in OpToRel(<, Nat))
  BY <1>1
<1>5. \A k \in T : ~ (k < m)
  BY <1>2, <1>3, <1>4, Zenon
<1> QED
  BY <1>5

\* Induction up to n, for a set.
LEMMA UpTo ==
    ASSUME NEW n \in Nat, NEW T, 0 \in T, \A i \in 1 .. n : i - 1 \in T => i \in T
    PROVE  \A i \in 0 .. n : i \in T
<1> DEFINE out == {i \in 0 .. n : i \notin T}
<1>1. SUFFICES ASSUME out # {} PROVE FALSE
  OBVIOUS
<1>2. out \subseteq Nat
  OBVIOUS
<1>3. PICK m \in out : \A k \in out : m <= k
  <2> HIDE DEF out
  <2> QED
    BY <1>1, <1>2, LeastNatural
<1>4. m \in 1 .. n
  BY <1>3
<1>5. m - 1 \in 0 .. n /\ ~ (m <= m - 1)
  BY <1>4
<1>6. m - 1 \in T
  BY <1>3, <1>5
<1> QED
  BY <1>3, <1>4, <1>6

\* The lines of a file, one after the other.
LEMMA ReadLinesRuns ==
    ASSUME NEW c, NEW ls, Len(ls) \in Nat
    PROVE  \E g : /\ g[0] = c
                  /\ \A i \in 1 .. Len(ls) : g[i] = Parse(g[i - 1], ls[i])
                  /\ ReadLines(c, ls) = g[Len(ls)]
<1> DEFINE start == c
           Step(d, i) == Parse(d, ls[i])
           T == {k \in 0 .. Len(ls) : \E g : g = [i \in 0 .. k |-> IF i = 0 THEN start ELSE Step(g[i - 1], i)]}
           walk == CHOOSE g : g = [i \in 0 .. Len(ls) |-> IF i = 0 THEN start ELSE Step(g[i - 1], i)]
<1>1. ReadLines(c, ls) = walk[Len(ls)]
  BY Zenon DEF ReadLines
<1>2. SUFFICES walk = [i \in 0 .. Len(ls) |-> IF i = 0 THEN start ELSE Step(walk[i - 1], i)]
  <2>1. walk[0] = start /\ \A i \in 1 .. Len(ls) : walk[i] = Step(walk[i - 1], i)
    <3> HIDE DEF walk, Step, start
    <3> QED
      BY <1>2
  <2> HIDE DEF walk
  <2> QED
    BY <1>1, <2>1
<1> HIDE DEF Step, start
<1>3. 0 \in T
  <2> DEFINE h == [i \in 0 .. 0 |-> start]
  <2>1. h = [i \in 0 .. 0 |-> IF i = 0 THEN start ELSE Step(h[i - 1], i)]
    OBVIOUS
  <2> HIDE DEF h
  <2>2. \E g : g = [i \in 0 .. 0 |-> IF i = 0 THEN start ELSE Step(g[i - 1], i)]
    BY <2>1
  <2> QED
    BY <2>2
<1>4. ASSUME NEW k \in 1 .. Len(ls), k - 1 \in T PROVE k \in T
  <2>1. PICK g : g = [i \in 0 .. k - 1 |-> IF i = 0 THEN start ELSE Step(g[i - 1], i)]
    BY <1>4
  <2> DEFINE h == [i \in 0 .. k |-> IF i = k THEN Step(g[k - 1], k) ELSE g[i]]
  <2>2. \A i \in 0 .. k : h[i] = IF i = 0 THEN start ELSE Step(h[i - 1], i)
    <3> TAKE i \in 0 .. k
    <3>1. CASE i = 0
      BY <2>1, <3>1
    <3>2. CASE i = k
      <4>1. h[i] = Step(g[k - 1], k) /\ h[i - 1] = g[k - 1]
        BY <3>2
      <4> HIDE DEF h
      <4> QED
        BY <3>2, <4>1
    <3>3. CASE i \in 1 .. k - 1
      <4>1. h[i] = g[i] /\ h[i - 1] = g[i - 1]
        BY <3>3
      <4>2. g[i] = Step(g[i - 1], i)
        BY <2>1, <3>3
      <4> HIDE DEF h
      <4> QED
        BY <3>3, <4>1, <4>2
    <3> QED
      BY <3>1, <3>2, <3>3
  <2>3. h = [i \in 0 .. k |-> h[i]]
    OBVIOUS
  <2> HIDE DEF h
  <2>4. h = [i \in 0 .. k |-> IF i = 0 THEN start ELSE Step(h[i - 1], i)]
    BY <2>2, <2>3
  <2> QED
    BY <2>4
<1>5. Len(ls) \in T
  <2>1. Len(ls) \in Nat /\ Len(ls) \in 0 .. Len(ls)
    OBVIOUS
  <2> HIDE DEF T
  <2> QED
    BY <1>3, <1>4, <2>1, UpTo
<1>6. \E g : g = [i \in 0 .. Len(ls) |-> IF i = 0 THEN start ELSE Step(g[i - 1], i)]
  BY <1>5
<1> QED
  BY <1>6, Zenon

\* The files of a load.
LEMMA LoadAllRuns ==
    ASSUME NEW c, NEW files, Len(files) \in Nat
    PROVE  \E g : /\ g[0] = c
                  /\ \A i \in 1 .. Len(files) : g[i] = HTLoadConfig(g[i - 1], files[i])
                  /\ LoadAll(c, files) = g[Len(files)]
<1> DEFINE start == c
           Step(d, i) == HTLoadConfig(d, files[i])
           T == {k \in 0 .. Len(files) : \E g : g = [i \in 0 .. k |-> IF i = 0 THEN start ELSE Step(g[i - 1], i)]}
           walk == CHOOSE g : g = [i \in 0 .. Len(files) |-> IF i = 0 THEN start ELSE Step(g[i - 1], i)]
<1>1. LoadAll(c, files) = walk[Len(files)]
  BY Zenon DEF LoadAll
<1>2. SUFFICES walk = [i \in 0 .. Len(files) |-> IF i = 0 THEN start ELSE Step(walk[i - 1], i)]
  <2>1. walk[0] = start /\ \A i \in 1 .. Len(files) : walk[i] = Step(walk[i - 1], i)
    <3> HIDE DEF walk, Step, start
    <3> QED
      BY <1>2
  <2> HIDE DEF walk
  <2> QED
    BY <1>1, <2>1
<1> HIDE DEF Step, start
<1>3. 0 \in T
  <2> DEFINE h == [i \in 0 .. 0 |-> start]
  <2>1. h = [i \in 0 .. 0 |-> IF i = 0 THEN start ELSE Step(h[i - 1], i)]
    OBVIOUS
  <2> HIDE DEF h
  <2>2. \E g : g = [i \in 0 .. 0 |-> IF i = 0 THEN start ELSE Step(g[i - 1], i)]
    BY <2>1
  <2> QED
    BY <2>2
<1>4. ASSUME NEW k \in 1 .. Len(files), k - 1 \in T PROVE k \in T
  <2>1. PICK g : g = [i \in 0 .. k - 1 |-> IF i = 0 THEN start ELSE Step(g[i - 1], i)]
    BY <1>4
  <2> DEFINE h == [i \in 0 .. k |-> IF i = k THEN Step(g[k - 1], k) ELSE g[i]]
  <2>2. \A i \in 0 .. k : h[i] = IF i = 0 THEN start ELSE Step(h[i - 1], i)
    <3> TAKE i \in 0 .. k
    <3>1. CASE i = 0
      BY <2>1, <3>1
    <3>2. CASE i = k
      <4>1. h[i] = Step(g[k - 1], k) /\ h[i - 1] = g[k - 1]
        BY <3>2
      <4> HIDE DEF h
      <4> QED
        BY <3>2, <4>1
    <3>3. CASE i \in 1 .. k - 1
      <4>1. h[i] = g[i] /\ h[i - 1] = g[i - 1]
        BY <3>3
      <4>2. g[i] = Step(g[i - 1], i)
        BY <2>1, <3>3
      <4> HIDE DEF h
      <4> QED
        BY <3>3, <4>1, <4>2
    <3> QED
      BY <3>1, <3>2, <3>3
  <2>3. h = [i \in 0 .. k |-> h[i]]
    OBVIOUS
  <2> HIDE DEF h
  <2>4. h = [i \in 0 .. k |-> IF i = 0 THEN start ELSE Step(h[i - 1], i)]
    BY <2>2, <2>3
  <2> QED
    BY <2>4
<1>5. Len(files) \in T
  <2>1. Len(files) \in Nat /\ Len(files) \in 0 .. Len(files)
    OBVIOUS
  <2> HIDE DEF T
  <2> QED
    BY <1>3, <1>4, <2>1, UpTo
<1>6. \E g : g = [i \in 0 .. Len(files) |-> IF i = 0 THEN start ELSE Step(g[i - 1], i)]
  BY <1>5
<1> QED
  BY <1>6, Zenon

\* The lines of a file behind those read before.
Behind(r, f, load) == r \o LinesOf(f, load)

\* The lines of a load.
LEMMA LinesReadRuns ==
    ASSUME NEW r, NEW files, NEW load, Len(files) \in Nat
    PROVE  \E g : /\ g[0] = r
                  /\ \A i \in 1 .. Len(files) : g[i] = Behind(g[i - 1], files[i], load)
                  /\ LinesRead(r, files, load) = g[Len(files)]
<1> DEFINE start == r
           Step(d, i) == Behind(d, files[i], load)
           T == {k \in 0 .. Len(files) : \E g : g = [i \in 0 .. k |-> IF i = 0 THEN start ELSE Step(g[i - 1], i)]}
           walk == CHOOSE g : g = [i \in 0 .. Len(files) |-> IF i = 0 THEN start ELSE Step(g[i - 1], i)]
<1>1. LinesRead(r, files, load) = walk[Len(files)]
  BY Zenon DEF LinesRead, Behind
<1>2. SUFFICES walk = [i \in 0 .. Len(files) |-> IF i = 0 THEN start ELSE Step(walk[i - 1], i)]
  <2>1. walk[0] = start /\ \A i \in 1 .. Len(files) : walk[i] = Step(walk[i - 1], i)
    <3> HIDE DEF walk, Step, start
    <3> QED
      BY <1>2
  <2> HIDE DEF walk
  <2> QED
    BY <1>1, <2>1
<1> HIDE DEF Step, start
<1>3. 0 \in T
  <2> DEFINE h == [i \in 0 .. 0 |-> start]
  <2>1. h = [i \in 0 .. 0 |-> IF i = 0 THEN start ELSE Step(h[i - 1], i)]
    OBVIOUS
  <2> HIDE DEF h
  <2>2. \E g : g = [i \in 0 .. 0 |-> IF i = 0 THEN start ELSE Step(g[i - 1], i)]
    BY <2>1
  <2> QED
    BY <2>2
<1>4. ASSUME NEW k \in 1 .. Len(files), k - 1 \in T PROVE k \in T
  <2>1. PICK g : g = [i \in 0 .. k - 1 |-> IF i = 0 THEN start ELSE Step(g[i - 1], i)]
    BY <1>4
  <2> DEFINE h == [i \in 0 .. k |-> IF i = k THEN Step(g[k - 1], k) ELSE g[i]]
  <2>2. \A i \in 0 .. k : h[i] = IF i = 0 THEN start ELSE Step(h[i - 1], i)
    <3> TAKE i \in 0 .. k
    <3>1. CASE i = 0
      BY <2>1, <3>1
    <3>2. CASE i = k
      <4>1. h[i] = Step(g[k - 1], k) /\ h[i - 1] = g[k - 1]
        BY <3>2
      <4> HIDE DEF h
      <4> QED
        BY <3>2, <4>1
    <3>3. CASE i \in 1 .. k - 1
      <4>1. h[i] = g[i] /\ h[i - 1] = g[i - 1]
        BY <3>3
      <4>2. g[i] = Step(g[i - 1], i)
        BY <2>1, <3>3
      <4> HIDE DEF h
      <4> QED
        BY <3>3, <4>1, <4>2
    <3> QED
      BY <3>1, <3>2, <3>3
  <2>3. h = [i \in 0 .. k |-> h[i]]
    OBVIOUS
  <2> HIDE DEF h
  <2>4. h = [i \in 0 .. k |-> IF i = 0 THEN start ELSE Step(h[i - 1], i)]
    BY <2>2, <2>3
  <2> QED
    BY <2>4
<1>5. Len(files) \in T
  <2>1. Len(files) \in Nat /\ Len(files) \in 0 .. Len(files)
    OBVIOUS
  <2> HIDE DEF T
  <2> QED
    BY <1>3, <1>4, <2>1, UpTo
<1>6. \E g : g = [i \in 0 .. Len(files) |-> IF i = 0 THEN start ELSE Step(g[i - 1], i)]
  BY <1>5
<1> QED
  BY <1>6, Zenon

\* The members of a set of numbers, in order.
LEMMA InOrderRuns ==
    ASSUME NEW S, NEW n \in Nat
    PROVE  \E g : /\ g[0] = <<>>
                  /\ \A i \in 1 .. n : g[i] = IF i \in S THEN Append(g[i - 1], i) ELSE g[i - 1]
                  /\ InOrder(S, n) = g[n]
<1> DEFINE start == <<>>
           Step(d, i) == IF i \in S THEN Append(d, i) ELSE d
           T == {k \in 0 .. n : \E g : g = [i \in 0 .. k |-> IF i = 0 THEN start ELSE Step(g[i - 1], i)]}
           walk == CHOOSE g : g = [i \in 0 .. n |-> IF i = 0 THEN start ELSE Step(g[i - 1], i)]
<1>1. InOrder(S, n) = walk[n]
  BY Zenon DEF InOrder
<1>2. SUFFICES walk = [i \in 0 .. n |-> IF i = 0 THEN start ELSE Step(walk[i - 1], i)]
  <2>1. walk[0] = start /\ \A i \in 1 .. n : walk[i] = Step(walk[i - 1], i)
    <3> HIDE DEF walk, Step, start
    <3> QED
      BY <1>2
  <2> HIDE DEF walk
  <2> QED
    BY <1>1, <2>1
<1> HIDE DEF Step, start
<1>3. 0 \in T
  <2> DEFINE h == [i \in 0 .. 0 |-> start]
  <2>1. h = [i \in 0 .. 0 |-> IF i = 0 THEN start ELSE Step(h[i - 1], i)]
    OBVIOUS
  <2> HIDE DEF h
  <2>2. \E g : g = [i \in 0 .. 0 |-> IF i = 0 THEN start ELSE Step(g[i - 1], i)]
    BY <2>1
  <2> QED
    BY <2>2
<1>4. ASSUME NEW k \in 1 .. n, k - 1 \in T PROVE k \in T
  <2>1. PICK g : g = [i \in 0 .. k - 1 |-> IF i = 0 THEN start ELSE Step(g[i - 1], i)]
    BY <1>4
  <2> DEFINE h == [i \in 0 .. k |-> IF i = k THEN Step(g[k - 1], k) ELSE g[i]]
  <2>2. \A i \in 0 .. k : h[i] = IF i = 0 THEN start ELSE Step(h[i - 1], i)
    <3> TAKE i \in 0 .. k
    <3>1. CASE i = 0
      BY <2>1, <3>1
    <3>2. CASE i = k
      <4>1. h[i] = Step(g[k - 1], k) /\ h[i - 1] = g[k - 1]
        BY <3>2
      <4> HIDE DEF h
      <4> QED
        BY <3>2, <4>1
    <3>3. CASE i \in 1 .. k - 1
      <4>1. h[i] = g[i] /\ h[i - 1] = g[i - 1]
        BY <3>3
      <4>2. g[i] = Step(g[i - 1], i)
        BY <2>1, <3>3
      <4> HIDE DEF h
      <4> QED
        BY <3>3, <4>1, <4>2
    <3> QED
      BY <3>1, <3>2, <3>3
  <2>3. h = [i \in 0 .. k |-> h[i]]
    OBVIOUS
  <2> HIDE DEF h
  <2>4. h = [i \in 0 .. k |-> IF i = 0 THEN start ELSE Step(h[i - 1], i)]
    BY <2>2, <2>3
  <2> QED
    BY <2>4
<1>5. n \in T
  <2>1. n \in Nat /\ n \in 0 .. n
    OBVIOUS
  <2> HIDE DEF T
  <2> QED
    BY <1>3, <1>4, <2>1, UpTo
<1>6. \E g : g = [i \in 0 .. n |-> IF i = 0 THEN start ELSE Step(g[i - 1], i)]
  BY <1>5
<1> QED
  BY <1>6, Zenon

\* The rounds of parse_time.
LEMMA ReadTimeRuns ==
    ASSUME NEW s, NEW def, Len(s) \in Nat
    PROVE  \E g : /\ g[0] = [s |-> s, first |-> TRUE, state |-> 1, t |-> 0, ok |-> TRUE]
                  /\ \A i \in 1 .. Len(s) : g[i] = TimeRead(g[i - 1], def)
                  /\ ReadTime(s, def) = g[Len(s)]
<1> DEFINE start == [s |-> s, first |-> TRUE, state |-> 1, t |-> 0, ok |-> TRUE]
           Step(d, i) == TimeRead(d, def)
           T == {k \in 0 .. Len(s) : \E g : g = [i \in 0 .. k |-> IF i = 0 THEN start ELSE Step(g[i - 1], i)]}
           walk == CHOOSE g : g = [i \in 0 .. Len(s) |-> IF i = 0 THEN start ELSE Step(g[i - 1], i)]
<1>1. ReadTime(s, def) = walk[Len(s)]
  BY Zenon DEF ReadTime
<1>2. SUFFICES walk = [i \in 0 .. Len(s) |-> IF i = 0 THEN start ELSE Step(walk[i - 1], i)]
  <2>1. walk[0] = start /\ \A i \in 1 .. Len(s) : walk[i] = Step(walk[i - 1], i)
    <3> HIDE DEF walk, Step, start
    <3> QED
      BY <1>2
  <2> HIDE DEF walk
  <2> QED
    BY <1>1, <2>1
<1> HIDE DEF Step, start
<1>3. 0 \in T
  <2> DEFINE h == [i \in 0 .. 0 |-> start]
  <2>1. h = [i \in 0 .. 0 |-> IF i = 0 THEN start ELSE Step(h[i - 1], i)]
    OBVIOUS
  <2> HIDE DEF h
  <2>2. \E g : g = [i \in 0 .. 0 |-> IF i = 0 THEN start ELSE Step(g[i - 1], i)]
    BY <2>1
  <2> QED
    BY <2>2
<1>4. ASSUME NEW k \in 1 .. Len(s), k - 1 \in T PROVE k \in T
  <2>1. PICK g : g = [i \in 0 .. k - 1 |-> IF i = 0 THEN start ELSE Step(g[i - 1], i)]
    BY <1>4
  <2> DEFINE h == [i \in 0 .. k |-> IF i = k THEN Step(g[k - 1], k) ELSE g[i]]
  <2>2. \A i \in 0 .. k : h[i] = IF i = 0 THEN start ELSE Step(h[i - 1], i)
    <3> TAKE i \in 0 .. k
    <3>1. CASE i = 0
      BY <2>1, <3>1
    <3>2. CASE i = k
      <4>1. h[i] = Step(g[k - 1], k) /\ h[i - 1] = g[k - 1]
        BY <3>2
      <4> HIDE DEF h
      <4> QED
        BY <3>2, <4>1
    <3>3. CASE i \in 1 .. k - 1
      <4>1. h[i] = g[i] /\ h[i - 1] = g[i - 1]
        BY <3>3
      <4>2. g[i] = Step(g[i - 1], i)
        BY <2>1, <3>3
      <4> HIDE DEF h
      <4> QED
        BY <3>3, <4>1, <4>2
    <3> QED
      BY <3>1, <3>2, <3>3
  <2>3. h = [i \in 0 .. k |-> h[i]]
    OBVIOUS
  <2> HIDE DEF h
  <2>4. h = [i \in 0 .. k |-> IF i = 0 THEN start ELSE Step(h[i - 1], i)]
    BY <2>2, <2>3
  <2> QED
    BY <2>4
<1>5. Len(s) \in T
  <2>1. Len(s) \in Nat /\ Len(s) \in 0 .. Len(s)
    OBVIOUS
  <2> HIDE DEF T
  <2> QED
    BY <1>3, <1>4, <2>1, UpTo
<1>6. \E g : g = [i \in 0 .. Len(s) |-> IF i = 0 THEN start ELSE Step(g[i - 1], i)]
  BY <1>5
<1> QED
  BY <1>6, Zenon

-----------------------------------------------------------------------------
(* The lines that the properties are about.                                *)

\* The table has every directive that the properties are about.
LEMMA SpecialKnown == Special \subseteq DOMAIN Directive
<1>0. \A a, b, x : x \in DOMAIN a \/ x \in DOMAIN b => x \in DOMAIN (a ++ b)
  BY InJoin
<1>1. \A how, S : DOMAIN All(how, S) = S
  BY DEF All
<1>2. \A how, of : DOMAIN Each(how, of) = DOMAIN of
  BY DEF Each
<1>3. {"cacheroot", "caching"} \subseteq DOMAIN CacheDirectives
  <2> DEFINE first == All("caching", {"cacheroot", "caching"})
  <2>1. \A d \in {"cacheroot", "caching"} : d \in DOMAIN first
    BY <1>1
  <2>2. \A d : d \in DOMAIN first => d \in DOMAIN CacheDirectives
    BY <1>0, Zenon DEF CacheDirectives
  <2> QED
    BY <2>1, <2>2, Zenon
<1>4. {"htbin", "port"} \subseteq DOMAIN ScriptDirectives
  BY <1>1, InJoin DEF ScriptDirectives
<1>5. "cacheclean" \in DOMAIN CacheTimeDirectives
  <2> DEFINE of == [cacheclean |-> "cache_clean", cacheunused |-> "cache_unused",
                    cachedefaultexpiry |-> "cache_exp",
                    cacherefreshinterval |-> "cache_refresh_interval"]
  <2>1. "cacheclean" \in DOMAIN of
    OBVIOUS
  <2>2. "cacheclean" \in DOMAIN Each("templates", of)
    BY <1>2, <2>1
  <2> HIDE DEF of
  <2> QED
    BY <2>2, InJoin DEF CacheTimeDirectives, of
<1>6. RuleNames \cup {"protection", "protect", "defprot"} \subseteq DOMAIN RuleDirectives
  <2>1. "protection" \in DOMAIN RuleDirectives
    BY <1>1, InJoin DEF RuleDirectives
  <2> DEFINE r == [map |-> "Map", pass |-> "Pass", fail |-> "Fail", exec |-> "Exec",
                   redirect |-> "Redirect", move |-> "Move"]
             p == [defprot |-> "DefProt", protect |-> "Protect"]
  <2>2. DOMAIN r = RuleNames /\ DOMAIN p = {"protect", "defprot"}
    BY DEF RuleNames
  <2>3. RuleDirectives = All("protection", {"protection"}) ++ Each("rule", r) ++ Each("protect", p)
    BY DEF RuleDirectives
  <2> HIDE DEF r, p
  <2> QED
    BY <1>2, <2>1, <2>2, <2>3, InJoin
<1>8. LengthNames \subseteq DOMAIN dir_show_config
  BY <1>1, InJoin DEF dir_show_config, LengthNames
<1>7. \A d : d \in DOMAIN CacheDirectives \/ d \in DOMAIN dir_show_config \/ d \in DOMAIN ScriptDirectives
             \/ d \in DOMAIN CacheTimeDirectives \/ d \in DOMAIN RuleDirectives
             => d \in DOMAIN Directive
  BY <1>0, Zenon DEF Directive
<1> QED
  BY <1>3, <1>4, <1>5, <1>6, <1>7, <1>8 DEF Special

\* A line with such a directive has the effect the table names.
LEMMA SpecialLine ==
    ASSUME NEW l, l.d \in Special
    PROVE  LET how == Directive[l.d].how IN
           /\ \A c : Parse(c, l) = Effect(c, l)
           /\ l.d \in RuleNames => how = "rule"
           /\ l.d \in {"protect", "defprot"} => how = "protect"
           /\ l.d = "htbin" => how = "htbin"
           /\ l.d = "protection" => how = "protection"
           /\ l.d = "port" => how = "port"
           /\ l.d \in {"cacheroot", "caching"} => how = "caching"
           /\ l.d \in LengthNames => how = "length"
           /\ l.d = "cacheclean" => how = "templates" /\ Directive[l.d].of = "cache_clean"
<1>1. l.d \in DOMAIN Directive /\ \A c : Parse(c, l) = Effect(c, l)
  BY SpecialKnown DEF Parse
<1>2. Entry(l.d, Directive[l.d].how, Directive[l.d].of)
  BY <1>1, DirectiveTable DEF Table
<1> QED
  BY <1>1, <1>2 DEF Entry, Special, RuleNames, LengthNames

\* What a rule gets: its pattern and its set-up.
SetupOf(c, l) ==
    IF l.d \notin {"protect", "defprot"} \/ Len(l.a) = 1 THEN ""
    ELSE IF l.a[2] = "{" THEN l.a[3]
    ELSE IF l.a[2] \in SlashWords THEN "" ELSE HTGetNamedProtection(c, l.a[2])

PatternOf(l) == IF l.d = "htbin" THEN "htbin" ELSE l.a[1]

\* A line with a rule puts it behind the others, with its pattern and set-up.
LEMMA RuleLine ==
    ASSUME NEW c, NEW l, l.d \in RuleWords
    PROVE  \E rule : /\ Parse(c, l) = Set(c, "rules", Append(c.rules, rule))
                     /\ rule.pat = PatternOf(l) /\ rule.prot = SetupOf(c, l)
<1>1. l.d \in Special /\ (l.d \in RuleNames \/ l.d = "htbin" \/ l.d \in {"protect", "defprot"})
  BY DEF RuleWords, Special, RuleNames
<1>2. \A rule : HTAppendRule(c, rule) = Set(c, "rules", Append(c.rules, rule))
  BY DEF HTAppendRule, Set
<1>3. CASE l.d \in RuleNames
  <2>1. PICK op, eqv : Parse(c, l) = HTAppendRule(c, NewRule(op, l.a[1], eqv))
    <3>1. Parse(c, l) = Effect(c, l) /\ Directive[l.d].how = "rule"
      BY <1>1, <1>3, SpecialLine
    <3>2. \E op, eqv : Effect(c, l) = HTAppendRule(c, NewRule(op, l.a[1], eqv))
      BY <3>1 DEF Effect
    <3> QED
      BY <3>1, <3>2, Zenon
  <2>2. SetupOf(c, l) = "" /\ PatternOf(l) = l.a[1]
    BY <1>3 DEF SetupOf, PatternOf, RuleNames
  <2>3. PICK rule : rule = NewRule(op, l.a[1], eqv)
    OBVIOUS
  <2>4. rule.pat = l.a[1] /\ rule.prot = ""
    BY <2>3 DEF NewRule
  <2> QED
    BY <1>2, <2>1, <2>2, <2>3, <2>4
<1>4. CASE l.d = "htbin"
  <2>1. Parse(c, l) = HTAppendRule(c, NewRule("Exec", "htbin", l.a[1]))
    BY <1>1, <1>4, SpecialLine DEF Effect
  <2>2. SetupOf(c, l) = "" /\ PatternOf(l) = "htbin"
    BY <1>4 DEF SetupOf, PatternOf
  <2>3. PICK rule : rule = NewRule("Exec", "htbin", l.a[1])
    OBVIOUS
  <2>4. rule.pat = "htbin" /\ rule.prot = ""
    BY <2>3 DEF NewRule
  <2> QED
    BY <1>2, <2>1, <2>2, <2>3, <2>4
<1>5. CASE l.d \in {"protect", "defprot"}
  <2>1. PICK op : Parse(c, l) = HTAppendRule(c, ProtRule(c, l, op))
    BY <1>1, <1>5, SpecialLine DEF Effect
  <2>2. PatternOf(l) = l.a[1]
    BY <1>5 DEF PatternOf
  <2>3. ProtRule(c, l, op).pat = l.a[1] /\ ProtRule(c, l, op).prot = SetupOf(c, l)
    BY <1>5 DEF ProtRule, SetupOf, NewRule
  <2> QED
    BY <1>2, <2>1, <2>2, <2>3
<1> QED
  BY <1>1, <1>3, <1>4, <1>5

\* A definition of a set-up goes before the older ones, if it is complete.
LEMMA ProtectionLine ==
    ASSUME NEW c, NEW l, l.d = "protection"
    PROVE  Parse(c, l) = IF Len(l.a) < 3 \/ l.a[2] # "{" THEN c
                         ELSE Set(c, "named_prots",
                                  <<[prot_name |-> l.a[1], prot |-> l.a[3]]>> \o c.named_prots)
<1>1. Parse(c, l) = HTAddNamedProtection(c, l)
  BY SpecialLine DEF Effect, Special
<1> QED
  BY <1>1 DEF HTAddNamedProtection, Set

\* CacheClean changes the default, or the templates.
LEMMA CleanLine ==
    ASSUME NEW c, NEW l, l.d = "cacheclean"
    PROVE  \/ /\ Len(l.a) = 1
              /\ \E value : Parse(c, l) = Set(c, "cache_clean_def", value)
           \/ /\ Len(l.a) # 1
              /\ Parse(c, l) = Set(c, "cache_clean", parse_pt(c.cache_clean, l))
<1>1. Parse(c, l) = Templates(c, l, "cache_clean")
  BY SpecialLine DEF Effect, Special
<1>2. "cache_clean" \in DOMAIN DefaultOf /\ DefaultOf["cache_clean"] = "cache_clean_def"
  BY DEF DefaultOf
<1> QED
  BY <1>1, <1>2 DEF Templates

\* CacheRoot and Caching.
LEMMA CachingLine ==
    ASSUME NEW c, NEW l, l.d \in {"cacheroot", "caching"}
    PROVE  Parse(c, l) = Caching(c, l)
BY SpecialLine DEF Effect, Special

\* The three lengths.
LEMMA LengthLine ==
    ASSUME NEW c, NEW l, l.d \in LengthNames
    PROVE  Parse(c, l) = Lengths(c, l)
BY SpecialLine DEF Effect, Special

\* Port counts while there is none.
LEMMA PortLine ==
    ASSUME NEW c, NEW l, l.d = "port"
    PROVE  Parse(c, l) = SetIf(c, c.port = 0, "port", atoi(l.a[1]))
BY SpecialLine DEF Effect, Special

\* The last of some numbers, and the first.
LEMMA LastOf ==
    ASSUME NEW n \in Nat, NEW S, S \subseteq 1 .. n, S # {}
    PROVE  Max(S) \in S /\ \A i \in S : i <= Max(S)
<1> DEFINE D == {k \in Nat : \E i \in S : k = n - i}
<1>1. D \subseteq Nat /\ D # {}
  <2>1. PICK i \in S : i \in 1 .. n
    OBVIOUS
  <2>2. n - i \in D
    BY <2>1
  <2> QED
    BY <2>2
<1>2. PICK m \in D : \A k \in D : m <= k
  <2> HIDE DEF D
  <2> QED
    BY <1>1, LeastNatural
<1>3. PICK i \in S : m = n - i
  BY <1>2
<1>4. \A j \in S : n - j \in D
  OBVIOUS
<1>5. \A j \in S : j <= i
  <2> SUFFICES ASSUME NEW j \in S PROVE j <= i
    OBVIOUS
  <2>1. m <= n - j
    BY <1>2, <1>4
  <2> QED
    BY <1>3, <2>1
<1>6. \E k \in S : \A j \in S : k >= j
  BY <1>5
<1> QED
  BY <1>6 DEF Max

\* The least of some numbers.
LEMMA FirstOf ==
    ASSUME NEW S, S \subseteq Nat, S # {}
    PROVE  Min(S) \in S /\ \A i \in S : Min(S) <= i
<1>1. PICK m \in S : \A k \in S : m <= k
  BY LeastNatural
<1> QED
  BY <1>1 DEF Min

\* What is not below any of them is the greatest.
LEMMA MaxIs ==
    ASSUME NEW S, S \subseteq Nat, NEW m \in S, \A i \in S : i <= m
    PROVE  Max(S) = m
<1>1. PICK k : k = Max(S)
  OBVIOUS
<1>2. k \in S /\ \A j \in S : k >= j
  <2>1. \E i \in S : \A j \in S : i >= j
    OBVIOUS
  <2> QED
    BY <1>1, <2>1 DEF Max
<1>3. k \in Nat /\ m \in Nat /\ k >= m /\ m >= k
  BY <1>2
<1> QED
  BY <1>1, <1>3

\* What is not above any of them is the least.
LEMMA MinIs ==
    ASSUME NEW S, S \subseteq Nat, NEW m \in S, \A i \in S : m <= i
    PROVE  Min(S) = m
<1>1. PICK k : k = Min(S)
  OBVIOUS
<1>2. k \in S /\ \A j \in S : k <= j
  <2>1. \E i \in S : \A j \in S : i <= j
    OBVIOUS
  <2> QED
    BY <1>1, <2>1 DEF Min
<1>3. k \in Nat /\ m \in Nat /\ k <= m /\ m <= k
  BY <1>2
<1> QED
  BY <1>1, <1>3

-----------------------------------------------------------------------------
(* What was read, a line at a time.                                        *)

\* Lines with the number of the load.
Reads == [line : UNION Line, load : Nat]

\* The loop of InOrder.
Collects(g, S, n) ==
    /\ g[0] = <<>>
    /\ \A i \in 1 .. n : g[i] = IF i \in S THEN Append(g[i - 1], i) ELSE g[i - 1]

\* Two collections of the same members are the same.
LEMMA LoopsAgree ==
    ASSUME NEW n \in Nat, NEW S, NEW T, \A i \in 1 .. n : i \in S <=> i \in T,
           NEW g, Collects(g, S, n), NEW h, Collects(h, T, n)
    PROVE  g[n] = h[n]
<1> DEFINE E == {i \in 0 .. n : g[i] = h[i]}
<1>1. 0 \in E
  BY DEF Collects
<1>2. \A i \in 1 .. n : i - 1 \in E => i \in E
  BY DEF Collects
<1> HIDE DEF E
<1>3. \A i \in 0 .. n : i \in E
  BY <1>1, <1>2, UpTo
<1> QED
  BY <1>3 DEF E

\* InOrder, for one line more.
LEMMA InOrderStep ==
    ASSUME NEW n \in Nat, NEW S, NEW T, \A i \in 1 .. n : i \in S <=> i \in T
    PROVE  /\ InOrder(S, n) = InOrder(T, n)
           /\ InOrder(T, n + 1) = IF n + 1 \in T THEN Append(InOrder(S, n), n + 1) ELSE InOrder(S, n)
<1>1. PICK g : Collects(g, S, n) /\ InOrder(S, n) = g[n]
  BY InOrderRuns DEF Collects
<1>2. PICK h : Collects(h, T, n) /\ InOrder(T, n) = h[n]
  BY InOrderRuns DEF Collects
<1>3. PICK k : Collects(k, T, n + 1) /\ InOrder(T, n + 1) = k[n + 1]
  <2>1. PICK m \in Nat : m = n + 1
    OBVIOUS
  <2>2. \E k : Collects(k, T, m) /\ InOrder(T, m) = k[m]
    BY InOrderRuns DEF Collects
  <2> QED
    BY <2>1, <2>2
<1>4. g[n] = h[n]
  BY <1>1, <1>2, LoopsAgree
<1>5. g[n] = k[n]
  <2>1. Collects(k, T, n)
    BY <1>3 DEF Collects
  <2> QED
    BY <1>1, <2>1, LoopsAgree
<1>6. k[n + 1] = IF n + 1 \in T THEN Append(k[n], n + 1) ELSE k[n]
  BY <1>3 DEF Collects
<1> QED
  BY <1>1, <1>2, <1>3, <1>4, <1>5, <1>6

\* InOrder gives numbers of the set it is given.
LEMMA InOrderMembers ==
    ASSUME NEW n \in Nat, NEW S
    PROVE  /\ InOrder(S, n) \in Seq(1 .. n)
           /\ \A i \in DOMAIN InOrder(S, n) : InOrder(S, n)[i] \in S
           /\ (\A i \in 1 .. n : i \notin S) => InOrder(S, n) = <<>>
<1>1. PICK g : /\ g[0] = <<>>
               /\ \A i \in 1 .. n : g[i] = IF i \in S THEN Append(g[i - 1], i) ELSE g[i - 1]
               /\ InOrder(S, n) = g[n]
  BY InOrderRuns
<1> DEFINE Good(s) == /\ s \in Seq(1 .. n) /\ \A j \in DOMAIN s : s[j] \in S
                      /\ (\A j \in 1 .. n : j \notin S) => s = <<>>
           E == {i \in 0 .. n : Good(g[i])}
<1>2. Good(<<>>)
  OBVIOUS
<1>3. ASSUME NEW s, Good(s), NEW i \in 1 .. n, i \in S PROVE Good(Append(s, i))
  BY <1>3
<1> HIDE DEF Good
<1>4. \A i \in 1 .. n : i - 1 \in E => i \in E
  <2> SUFFICES ASSUME NEW i \in 1 .. n, i - 1 \in E PROVE i \in E
    OBVIOUS
  <2>1. CASE i \in S
    BY <1>1, <1>3, <2>1
  <2>2. CASE i \notin S
    BY <1>1, <2>2
  <2> QED
    BY <2>1, <2>2
<1>5. 0 \in E
  BY <1>1, <1>2
<1> HIDE DEF E
<1>6. \A i \in 0 .. n : i \in E
  BY <1>4, <1>5, UpTo
<1>7. n \in E
  BY <1>6
<1> QED
  BY <1>1, <1>7 DEF E, Good

\* A line more.
LEMMA OneMore ==
    ASSUME NEW r \in Seq(Reads), NEW x \in Reads
    PROVE  /\ Append(r, x) \in Seq(Reads) /\ Len(r) \in Nat
           /\ DOMAIN r = 1 .. Len(r) /\ DOMAIN Append(r, x) = 1 .. Len(r) + 1
           /\ Len(Append(r, x)) = Len(r) + 1
           /\ \A i \in 1 .. Len(r) : Append(r, x)[i] = r[i]
           /\ Append(r, x)[Len(r) + 1] = x
OBVIOUS

\* A further line does not change the set-up that an earlier one found.
LEMMA SetupBefore ==
    ASSUME NEW r \in Seq(Reads), NEW x \in Reads, NEW i \in 1 .. Len(r)
    PROVE  SetupAt(Append(r, x), i) = SetupAt(r, i)
<1> DEFINE q == Append(r, x)
           name == r[i].line.a[2]
<1>1. q[i] = r[i]
  BY OneMore
<1>2. {j \in DOMAIN q : j < i /\ Defines(q[j].line, name)}
      = {j \in DOMAIN r : j < i /\ Defines(r[j].line, name)}
  <2>1. \A j : j \in DOMAIN q /\ j < i <=> j \in DOMAIN r /\ j < i
    BY OneMore
  <2>2. \A j \in DOMAIN r : q[j] = r[j]
    BY OneMore
  <2> HIDE DEF q, name
  <2> QED
    BY <2>1, <2>2
<1>3. PICK before : before = {j \in DOMAIN r : j < i /\ Defines(r[j].line, name)}
  OBVIOUS
<1>4. before # {} => q[Max(before)] = r[Max(before)]
  <2>1. SUFFICES ASSUME before # {} PROVE Max(before) \in before
    BY <1>3, OneMore
  <2> QED
    BY <1>3, <2>1, OneMore, LastOf
<1>5. SetupAt(q, i) = SetupAt(r, i)
  <2> HIDE DEF q
  <2> QED
    BY <1>1, <1>2, <1>3, <1>4 DEF SetupAt
<1> QED
  BY <1>5

\* The lines with some directive, for one line more.
LEMMA OfStep ==
    ASSUME NEW r \in Seq(Reads), NEW x \in Reads, NEW directives
    PROVE  LET q == Append(r, x) IN
           /\ Of(r, directives) \subseteq 1 .. Len(r)
           /\ \A i \in 1 .. Len(r) : i \in Of(q, directives) <=> i \in Of(r, directives)
           /\ Of(q, directives) = IF x.line.d \in directives THEN Of(r, directives) \cup {Len(r) + 1}
                                  ELSE Of(r, directives)
<1>1. PICK q : q = Append(r, x)
  OBVIOUS
<1>2. /\ DOMAIN r = 1 .. Len(r) /\ DOMAIN q = 1 .. Len(r) + 1 /\ Len(r) \in Nat
      /\ \A i \in 1 .. Len(r) : q[i] = r[i]
      /\ q[Len(r) + 1] = x
  BY <1>1, OneMore
<1>3. Of(r, directives) \subseteq 1 .. Len(r)
  BY <1>2 DEF Of
<1>4. \A i \in 1 .. Len(r) : i \in Of(q, directives) <=> i \in Of(r, directives)
  BY <1>2 DEF Of
<1>5. Len(r) + 1 \in Of(q, directives) <=> x.line.d \in directives
  BY <1>2 DEF Of
<1>6. Of(q, directives) \subseteq 1 .. Len(r) + 1
  BY <1>2 DEF Of
<1>7. PICK D, E : D = Of(r, directives) /\ E = Of(q, directives)
  OBVIOUS
<1>8. PICK n \in Nat : n = Len(r)
  BY <1>2
<1>9. D \subseteq 1 .. n /\ E \subseteq 1 .. n + 1 /\ \A i \in 1 .. n : i \in E <=> i \in D
  BY <1>3, <1>4, <1>6, <1>7, <1>8
<1>10. CASE x.line.d \in directives
  <2>1. n + 1 \in E
    BY <1>5, <1>7, <1>8, <1>10
  <2>2. \A i : i \in E <=> i \in D \cup {n + 1}
    <3>1. \A i \in E : i \in 1 .. n \/ i = n + 1
      BY <1>9
    <3>2. \A i \in D : i \in 1 .. n
      BY <1>9
    <3> QED
      BY <1>9, <2>1, <3>1, <3>2
  <2>3. E = D \cup {n + 1}
    BY <2>2
  <2> QED
    BY <1>1, <1>3, <1>4, <1>7, <1>8, <1>10, <2>3
<1>11. CASE x.line.d \notin directives
  <2>1. n + 1 \notin E
    BY <1>5, <1>7, <1>8, <1>11
  <2>2. \A i : i \in E <=> i \in D
    <3>1. \A i \in E : i \in 1 .. n
      BY <1>9, <2>1
    <3>2. \A i \in D : i \in 1 .. n
      BY <1>9
    <3> QED
      BY <1>9, <3>1, <3>2
  <2>3. E = D
    BY <2>2
  <2> QED
    BY <1>1, <1>3, <1>4, <1>7, <1>11, <2>3
<1> QED
  BY <1>10, <1>11

\* What a rule is read as.
RuleRead(r, i) ==
    [pat |-> IF r[i].line.d = "htbin" THEN "htbin" ELSE r[i].line.a[1], prot |-> SetupAt(r, i)]

\* The rules of a load, for one line more.
LEMMA RulesReadStep ==
    ASSUME NEW r \in Seq(Reads), NEW x \in Reads, NEW load
    PROVE  LET q == Append(r, x)
               old == RulesRead(r, load)
               new == RulesRead(q, load) IN
           /\ Len(old) \in Nat
           /\ IF x.line.d \in RuleWords /\ x.load = load
              THEN /\ Len(new) = Len(old) + 1
                   /\ \A i \in 1 .. Len(old) : new[i] = old[i]
                   /\ new[Len(new)] = RuleRead(q, Len(r) + 1)
              ELSE new = old
<1> DEFINE S(p) == {i \in Of(p, RuleWords) : p[i].load = load}
<1>1. PICK q : q = Append(r, x)
  OBVIOUS
<1>2. PICK n \in Nat : n = Len(r)
  OBVIOUS
<1>3. \A i \in 1 .. n : q[i] = r[i] /\ (i \in S(q) <=> i \in S(r))
  BY <1>1, <1>2, OneMore, OfStep
<1>4. n + 1 \in S(q) <=> x.line.d \in RuleWords /\ x.load = load
  <2>1. n + 1 \in Of(q, RuleWords) <=> x.line.d \in RuleWords
    BY <1>1, <1>2, OfStep
  <2> QED
    BY <1>1, <1>2, <2>1, OneMore
<1>5. PICK old : old = InOrder(S(r), n)
  OBVIOUS
<1>6. PICK new : new = InOrder(S(q), n + 1)
  OBVIOUS
<1>7. /\ new = IF n + 1 \in S(q) THEN Append(old, n + 1) ELSE old
      /\ old \in Seq(1 .. n)
  <2> HIDE DEF S
  <2> QED
    BY <1>3, <1>5, <1>6, InOrderStep, InOrderMembers
<1>8. \A j \in 1 .. n : RuleRead(q, j) = RuleRead(r, j)
  BY <1>1, <1>2, <1>3, SetupBefore DEF RuleRead
<1>9. RulesRead(r, load) = [i \in DOMAIN old |-> RuleRead(r, old[i])]
  BY <1>2, <1>5 DEF RulesRead, RuleRead
<1>10. RulesRead(q, load) = [i \in DOMAIN new |-> RuleRead(q, new[i])]
  <2>1. Len(q) = n + 1
    BY <1>1, <1>2, OneMore
  <2> QED
    BY <1>6, <2>1 DEF RulesRead, RuleRead
<1> HIDE DEF S
<1>11. CASE n + 1 \in S(q)
  <2>1. Len(old) \in Nat /\ DOMAIN old = 1 .. Len(old) /\ DOMAIN new = 1 .. Len(old) + 1
    BY <1>7, <1>11
  <2>2. \A i \in 1 .. Len(old) : new[i] = old[i] /\ old[i] \in 1 .. n
    BY <1>7, <1>11
  <2>3. new[Len(old) + 1] = n + 1
    BY <1>7, <1>11
  <2>4. Len(RulesRead(r, load)) = Len(old) /\ Len(RulesRead(q, load)) = Len(old) + 1
    BY <1>9, <1>10, <2>1
  <2>5. \A i \in 1 .. Len(old) : RulesRead(q, load)[i] = RulesRead(r, load)[i]
    BY <1>8, <1>9, <1>10, <2>1, <2>2
  <2>6. RulesRead(q, load)[Len(old) + 1] = RuleRead(q, n + 1)
    BY <1>10, <2>1, <2>3
  <2> QED
    BY <1>1, <1>2, <1>4, <1>11, <2>1, <2>4, <2>5, <2>6
<1>12. CASE n + 1 \notin S(q)
  <2>1. Len(old) \in Nat /\ DOMAIN old = 1 .. Len(old) /\ new = old
    BY <1>7, <1>12
  <2>2. \A i \in DOMAIN old : old[i] \in 1 .. n
    BY <1>7
  <2>3. Len(RulesRead(r, load)) = Len(old)
    BY <1>9, <2>1
  <2>4. RulesRead(q, load) = RulesRead(r, load)
    BY <1>8, <1>9, <1>10, <2>1, <2>2
  <2> QED
    BY <1>1, <1>4, <1>12, <2>1, <2>3, <2>4
<1> QED
  BY <1>11, <1>12

\* Before the first line of a load.
LEMMA RulesReadNone ==
    ASSUME NEW r \in Seq(Reads), NEW load, \A i \in 1 .. Len(r) : r[i].load # load
    PROVE  RulesRead(r, load) = <<>>
<1> DEFINE S == {i \in Of(r, RuleWords) : r[i].load = load}
<1>1. Len(r) \in Nat /\ \A i \in 1 .. Len(r) : i \notin S
  OBVIOUS
<1>2. InOrder(S, Len(r)) = <<>>
  <2> HIDE DEF S
  <2> QED
    BY <1>1, InOrderMembers
<1>3. RulesRead(r, load) = [i \in DOMAIN InOrder(S, Len(r)) |-> RuleRead(r, InOrder(S, Len(r))[i])]
  BY DEF RulesRead, RuleRead
<1> HIDE DEF S
<1>4. RulesRead(r, load) = [i \in DOMAIN <<>> |-> RuleRead(r, <<>>[i])]
  BY <1>2, <1>3
<1> QED
  BY <1>4

\* The templates, for one line more: a time that is not understood drops all.
LEMMA TemplatesReadStep ==
    ASSUME NEW r \in Seq(Reads), NEW x \in Reads
    PROVE  TemplatesRead(Append(r, x)) =
               IF x.line.d = "cacheclean" /\ IsTemplate(x.line)
               THEN IF TimeOf(x.line).ok
                    THEN Append(TemplatesRead(r), [pat |-> x.line.a[1], time |-> TimeOf(x.line).t])
                    ELSE <<>>
               ELSE TemplatesRead(r)
<1> DEFINE given(p) == {i \in Of(p, {"cacheclean"}) : IsTemplate(p[i].line)}
           bad(p) == {i \in given(p) : ~TimeOf(p[i].line).ok}
           kept(p) == {i \in given(p) : \A j \in bad(p) : j < i}
           T(p, i) == [pat |-> p[i].line.a[1], time |-> TimeOf(p[i].line).t]
<1>1. PICK q : q = Append(r, x)
  OBVIOUS
<1>2. PICK n \in Nat : n = Len(r)
  OBVIOUS
<1>3. /\ \A i \in 1 .. n : q[i] = r[i]
      /\ q[n + 1] = x /\ Len(q) = n + 1
  BY <1>1, <1>2, OneMore
<1>4. /\ given(r) \subseteq 1 .. n
      /\ given(q) = IF x.line.d = "cacheclean" /\ IsTemplate(x.line) THEN given(r) \cup {n + 1}
                    ELSE given(r)
  <2>1. /\ Of(r, {"cacheclean"}) \subseteq 1 .. n
        /\ Of(q, {"cacheclean"}) = IF x.line.d = "cacheclean" THEN Of(r, {"cacheclean"}) \cup {n + 1}
                                   ELSE Of(r, {"cacheclean"})
    <3>1. x.line.d \in {"cacheclean"} <=> x.line.d = "cacheclean"
      OBVIOUS
    <3> QED
      BY <1>1, <1>2, <3>1, OfStep
  <2> QED
    BY <1>3, <2>1
<1>5. TemplatesRead(r) = [i \in DOMAIN InOrder(kept(r), n) |-> T(r, InOrder(kept(r), n)[i])]
  BY <1>2 DEF TemplatesRead
<1>6. TemplatesRead(q) = [i \in DOMAIN InOrder(kept(q), n + 1) |-> T(q, InOrder(kept(q), n + 1)[i])]
  BY <1>3 DEF TemplatesRead
<1>7. PICK old : old = InOrder(kept(r), n)
  OBVIOUS
<1>8. PICK new : new = InOrder(kept(q), n + 1)
  OBVIOUS
<1>9. old \in Seq(1 .. n)
  BY <1>7, InOrderMembers
<1>10. \A i \in 1 .. n : T(q, i) = T(r, i)
  BY <1>3
<1>11. CASE ~ (x.line.d = "cacheclean" /\ IsTemplate(x.line))
  <2>1. given(q) = given(r)
    BY <1>4, <1>11
  <2>2. bad(q) = bad(r)
    BY <1>3, <1>4, <2>1
  <2>3. kept(q) = kept(r) /\ n + 1 \notin kept(q)
    <3> HIDE DEF bad, given
    <3> QED
      BY <1>4, <2>1, <2>2
  <2>4. new = old
    <3> HIDE DEF kept
    <3> QED
      BY <1>7, <1>8, <2>3, InOrderStep
  <2> HIDE DEF kept, T
  <2>5. \A i \in DOMAIN old : T(q, old[i]) = T(r, old[i])
    BY <1>9, <1>10
  <2> QED
    BY <1>1, <1>5, <1>6, <1>7, <1>8, <1>11, <2>4, <2>5
<1>12. CASE x.line.d = "cacheclean" /\ IsTemplate(x.line) /\ TimeOf(x.line).ok
  <2>1. given(q) = given(r) \cup {n + 1}
    BY <1>4, <1>12
  <2>2. bad(q) = bad(r)
    BY <1>3, <1>4, <1>12, <2>1
  <2>3. /\ \A i \in 1 .. n : i \in kept(q) <=> i \in kept(r)
        /\ n + 1 \in kept(q)
    <3>1. \A j \in bad(r) : j < n + 1
      BY <1>4
    <3> HIDE DEF bad, given
    <3> QED
      BY <2>1, <2>2, <3>1
  <2>4. new = Append(old, n + 1)
    <3> HIDE DEF kept
    <3> QED
      BY <1>7, <1>8, <2>3, InOrderStep
  <2>5. T(q, n + 1) = [pat |-> x.line.a[1], time |-> TimeOf(x.line).t]
    BY <1>3
  <2> HIDE DEF kept, T
  <2>6. \A i \in DOMAIN old : T(q, old[i]) = T(r, old[i])
    BY <1>9, <1>10
  <2>7. [i \in DOMAIN new |-> T(q, new[i])] = Append([i \in DOMAIN old |-> T(r, old[i])], T(q, n + 1))
    <3>1. DOMAIN old = 1 .. Len(old) /\ Len(old) \in Nat /\ DOMAIN new = 1 .. Len(old) + 1
      BY <1>9, <2>4
    <3>2. new[Len(old) + 1] = n + 1 /\ \A i \in 1 .. Len(old) : new[i] = old[i]
      BY <1>9, <2>4
    <3>3. Len([i \in DOMAIN old |-> T(r, old[i])]) = Len(old)
      BY <3>1
    <3> QED
      BY <2>6, <3>1, <3>2, <3>3
  <2> QED
    BY <1>1, <1>5, <1>6, <1>7, <1>8, <1>12, <2>5, <2>7
<1>13. CASE x.line.d = "cacheclean" /\ IsTemplate(x.line) /\ ~TimeOf(x.line).ok
  <2>1. given(q) = given(r) \cup {n + 1}
    BY <1>4, <1>13
  <2>2. n + 1 \in bad(q)
    BY <1>3, <1>13, <2>1
  <2>3. \A i \in 1 .. n + 1 : i \notin kept(q)
    BY <2>2
  <2>4. new = <<>>
    <3>1. PICK m \in Nat : m = n + 1
      OBVIOUS
    <3> HIDE DEF kept
    <3> QED
      BY <1>8, <2>3, <3>1, InOrderMembers
  <2> HIDE DEF kept, T
  <2>5. TemplatesRead(q) = <<>>
    BY <1>6, <1>8, <2>4
  <2> QED
    BY <1>1, <1>13, <2>5
<1> QED
  BY <1>11, <1>12, <1>13

\* Whether caching is off behind the lines r.
OffNow(r) == OffAt(r, Len(r) + 1)

\* The lines that turn caching off, for one line more.
LEMMA OffStep ==
    ASSUME NEW r \in Seq(Reads), NEW x \in Reads
    PROVE  LET q == Append(r, x)
               off == x.line.d = "caching" /\ x.line.a[1] \in Negative IN
           /\ Off(r) \subseteq 1 .. Len(r)
           /\ Off(q) = IF off THEN Off(r) \cup {Len(r) + 1} ELSE Off(r)
           /\ OffNow(q) <=> IF x.line.d = "caching" THEN off ELSE OffNow(r)
           /\ \A i \in 1 .. Len(r) : OffAt(q, i) <=> OffAt(r, i)
           /\ x.line.d # "caching" => (OffAt(q, Len(r) + 1) <=> OffNow(r))
<1> DEFINE off == x.line.d = "caching" /\ x.line.a[1] \in Negative
<1>1. PICK q : q = Append(r, x)
  OBVIOUS
<1>2. PICK n \in Nat : n = Len(r)
  OBVIOUS
<1>3. /\ \A i \in 1 .. n : q[i] = r[i]
      /\ q[n + 1] = x /\ Len(q) = n + 1
  BY <1>1, <1>2, OneMore
<1>4. PICK C : C = Of(r, {"caching"})
  OBVIOUS
<1>5. PICK D : D = Of(q, {"caching"})
  OBVIOUS
<1>6. C \subseteq 1 .. n /\ D = IF x.line.d = "caching" THEN C \cup {n + 1} ELSE C
  <2>1. x.line.d \in {"caching"} <=> x.line.d = "caching"
    OBVIOUS
  <2> QED
    BY <1>1, <1>2, <1>4, <1>5, <2>1, OfStep
<1>7. Off(r) = {i \in C : r[i].line.a[1] \in Negative} /\ Off(q) = {i \in D : q[i].line.a[1] \in Negative}
  BY <1>4, <1>5 DEF Off
<1>8. Off(r) \subseteq 1 .. n
  BY <1>6, <1>7
<1>9. Off(q) = IF off THEN Off(r) \cup {n + 1} ELSE Off(r)
  <2>1. \A i \in C : q[i] = r[i]
    BY <1>3, <1>6
  <2> QED
    BY <1>3, <1>6, <1>7, <2>1
<1>10. PICK A, B : A = Off(r) /\ B = Off(q)
  OBVIOUS
<1>11. A \subseteq 1 .. n /\ B = IF off THEN A \cup {n + 1} ELSE A
  BY <1>8, <1>9, <1>10
<1>12. /\ \A i : OffAt(r, i) <=> \E j \in A : j < i /\ \A k \in C \ A : k < j \/ k > i
       /\ \A i : OffAt(q, i) <=> \E j \in B : j < i /\ \A k \in D \ B : k < j \/ k > i
  BY <1>4, <1>5, <1>10 DEF OffAt
<1>13. C \ A \subseteq 1 .. n /\ (D \ B) = IF x.line.d = "caching" /\ ~off THEN (C \ A) \cup {n + 1} ELSE C \ A
  BY <1>6, <1>11
<1> HIDE DEF off
<1>14. \A i \in 1 .. n : OffAt(q, i) <=> OffAt(r, i)
  <2> SUFFICES ASSUME NEW i \in 1 .. n PROVE OffAt(q, i) <=> OffAt(r, i)
    OBVIOUS
  <2>1. \A j : j \in B /\ j < i <=> j \in A /\ j < i
    BY <1>11
  <2>2. \A j \in A : (\A k \in D \ B : k < j \/ k > i) <=> (\A k \in C \ A : k < j \/ k > i)
    BY <1>13
  <2> QED
    BY <1>12, <2>1, <2>2
<1>15. OffNow(r) <=> OffAt(r, n + 1)
  BY <1>2 DEF OffNow
<1>16. OffNow(q) <=> OffAt(q, n + 2)
  BY <1>3 DEF OffNow
<1>17. CASE off
  <2>1. n + 1 \in B /\ n + 1 < n + 2 /\ \A k \in D \ B : k < n + 1
    BY <1>11, <1>13, <1>17
  <2>2. OffAt(q, n + 2)
    BY <1>12, <2>1
  <2> QED
    BY <1>1, <1>2, <1>8, <1>9, <1>14, <1>16, <1>17, <2>2 DEF off
<1>18. CASE x.line.d = "caching" /\ ~off
  <2>1. B = A /\ D \ B = (C \ A) \cup {n + 1}
    BY <1>11, <1>13, <1>18
  <2>2. n + 1 \in D \ B
    BY <2>1
  <2>3. \A j \in B : ~ (n + 1 < j) /\ ~ (n + 1 > n + 2)
    BY ONLY <1>11, <2>1, n \in Nat
  <2>4. ~OffAt(q, n + 2)
    BY <1>12, <2>2, <2>3
  <2> QED
    BY <1>1, <1>2, <1>8, <1>9, <1>14, <1>16, <1>18, <2>4 DEF off
<1>19. CASE x.line.d # "caching"
  <2>1. A = B /\ C \ A = D \ B
    BY <1>11, <1>13, <1>19 DEF off
  <2>2. \A k \in C \ A : ~ (k > n + 1) /\ ~ (k > n + 2)
    BY <1>13
  <2>3. \A j \in A : j < n + 1 /\ j < n + 2
    BY <1>11
  <2>4. OffAt(q, n + 2) <=> OffAt(r, n + 1)
    BY <1>12, <2>1, <2>2, <2>3
  <2>5. OffAt(q, n + 1) <=> OffAt(r, n + 1)
    BY <1>12, <2>1
  <2> QED
    BY <1>1, <1>2, <1>8, <1>9, <1>14, <1>15, <1>16, <1>19, <2>4, <2>5 DEF off
<1> QED
  BY <1>17, <1>18, <1>19 DEF off

\* The root of the cache, for one line more.
LEMMA RootReadStep ==
    ASSUME NEW r \in Seq(Reads), NEW x \in Reads
    PROVE  RootRead(Append(r, x)) =
               IF x.line.d = "cacheroot" /\ ~OffNow(r) THEN x.line.a[1]
               ELSE IF x.line.d = "caching" /\ x.line.a[1] \in Negative THEN ""
               ELSE RootRead(r)
<1>1. PICK q : q = Append(r, x)
  OBVIOUS
<1>2. PICK n \in Nat : n = Len(r)
  OBVIOUS
<1>3. /\ \A i \in 1 .. n : q[i] = r[i]
      /\ q[n + 1] = x
  BY <1>1, <1>2, OneMore
<1>4. PICK C, D : C = Of(r, {"cacheroot"}) /\ D = Of(q, {"cacheroot"})
  OBVIOUS
<1>5. C \subseteq 1 .. n /\ D = IF x.line.d = "cacheroot" THEN C \cup {n + 1} ELSE C
  <2>1. x.line.d \in {"cacheroot"} <=> x.line.d = "cacheroot"
    OBVIOUS
  <2> QED
    BY <1>1, <1>2, <1>4, <2>1, OfStep
<1>6. PICK A, B : A = Off(r) /\ B = Off(q)
  OBVIOUS
<1>7. /\ A \subseteq 1 .. n
      /\ B = IF x.line.d = "caching" /\ x.line.a[1] \in Negative THEN A \cup {n + 1} ELSE A
      /\ \A i \in 1 .. n : OffAt(q, i) <=> OffAt(r, i)
      /\ x.line.d # "caching" => (OffAt(q, n + 1) <=> OffNow(r))
  BY <1>1, <1>2, <1>6, OffStep
<1>8. PICK R, S : R = Roots(r) /\ S = Roots(q)
  OBVIOUS
<1>9. /\ R = {i \in C : ~OffAt(r, i) /\ \A j \in A : j < i}
      /\ S = {i \in D : ~OffAt(q, i) /\ \A j \in B : j < i}
  BY <1>4, <1>6, <1>8 DEF Roots
<1>10. RootRead(r) = (IF R = {} THEN "" ELSE r[Max(R)].line.a[1])
       /\ RootRead(q) = (IF S = {} THEN "" ELSE q[Max(S)].line.a[1])
  BY <1>8 DEF RootRead
<1>14. /\ \A i \in D : i \in Nat /\ 1 <= i /\ i <= n + 1
       /\ \A i \in R : i \in 1 .. n
       /\ \A i \in S : i \in D /\ i \in Nat /\ 1 <= i /\ i <= n + 1
  <2>1. \A i \in D : i \in Nat /\ 1 <= i /\ i <= n + 1
    <3>1. \A i \in D : i \in 1 .. n \/ i = n + 1
      BY <1>5
    <3> QED
      BY <3>1
  <2>2. R \subseteq C /\ S \subseteq D
    BY <1>9
  <2> QED
    BY <1>5, <2>1, <2>2
<1>11. CASE x.line.d = "caching" /\ x.line.a[1] \in Negative
  <2>1. n + 1 \in B /\ D = C
    BY <1>5, <1>7, <1>11
  <2>2. \A i \in S : i < n + 1 => FALSE
    <3>1. \A i \in S : n + 1 < i
      BY <1>9, <2>1
    <3> QED
      BY <1>14, <3>1
  <2>3. \A i \in S : i # n + 1
    BY <1>9, <2>1
  <2>4. S = {}
    BY <1>14, <2>2, <2>3
  <2> QED
    BY <1>1, <1>10, <1>11, <2>4
<1>12. CASE x.line.d = "cacheroot" /\ ~OffNow(r)
  <2>1. B = A /\ n + 1 \in D /\ ~OffAt(q, n + 1)
    BY <1>5, <1>7, <1>12
  <2>2. n + 1 \in S
    BY <1>7, <1>9, <2>1
  <2>3. S \subseteq Nat /\ \A i \in S : i <= n + 1
    BY <1>14
  <2>4. Max(S) = n + 1
    BY <2>2, <2>3, MaxIs
  <2> QED
    BY <1>1, <1>3, <1>10, <1>12, <2>2, <2>4
<1>13. CASE ~ (x.line.d = "caching" /\ x.line.a[1] \in Negative)
            /\ ~ (x.line.d = "cacheroot" /\ ~OffNow(r))
  <2>1. B = A
    BY <1>7, <1>13
  <2>2. \A i : i \in S <=> i \in R
    <3>1. \A i \in 1 .. n : i \in S <=> i \in R
      BY <1>5, <1>7, <1>9, <2>1
    <3>2. n + 1 \notin S
      <4>1. x.line.d = "cacheroot" => OffAt(q, n + 1)
        BY <1>7, <1>13
      <4> QED
        BY <1>5, <1>9, <4>1
    <3>3. \A i \in S : i \in 1 .. n
      <4>1. \A i \in S : i # n + 1
        BY <3>2
      <4> QED
        BY <1>14, <4>1
    <3> QED
      BY <1>14, <3>1, <3>3
  <2>3. S = R
    BY <2>2
  <2>4. R # {} => Max(R) \in 1 .. n
    <3>1. R \subseteq 1 .. n
      BY <1>14
    <3> QED
      BY <3>1, LastOf
  <2> QED
    BY <1>1, <1>3, <1>10, <1>13, <2>3, <2>4
<1> QED
  BY <1>11, <1>12, <1>13

\* The port, for one line more.
LEMMA PortReadStep ==
    ASSUME NEW r \in Seq(Reads), NEW x \in Reads
    PROVE  PortRead(Append(r, x)) = IF PortRead(r) = 0 /\ x.line.d = "port" THEN atoi(x.line.a[1])
                                    ELSE PortRead(r)
<1>1. PICK q : q = Append(r, x)
  OBVIOUS
<1>2. PICK n \in Nat : n = Len(r)
  OBVIOUS
<1>3. /\ \A i \in 1 .. n : q[i] = r[i]
      /\ q[n + 1] = x
  BY <1>1, <1>2, OneMore
<1>4. PICK C, D : C = Of(r, {"port"}) /\ D = Of(q, {"port"})
  OBVIOUS
<1>5. C \subseteq 1 .. n /\ D = IF x.line.d = "port" THEN C \cup {n + 1} ELSE C
  <2>1. x.line.d \in {"port"} <=> x.line.d = "port"
    OBVIOUS
  <2> QED
    BY <1>1, <1>2, <1>4, <2>1, OfStep
<1>6. PICK P, Q : P = Ports(r) /\ Q = Ports(q)
  OBVIOUS
<1>7. /\ P = {i \in C : atoi(r[i].line.a[1]) # 0}
      /\ Q = {i \in D : atoi(q[i].line.a[1]) # 0}
  BY <1>4, <1>6 DEF Ports
<1>8. /\ P \subseteq 1 .. n
      /\ Q = IF x.line.d = "port" /\ atoi(x.line.a[1]) # 0 THEN P \cup {n + 1} ELSE P
  <2>1. \A i \in C : q[i] = r[i]
    BY <1>3, <1>5
  <2> QED
    BY <1>3, <1>5, <1>7, <2>1
<1>9. /\ PortRead(r) = IF options.port # 0 \/ P = {} THEN options.port
                       ELSE atoi(r[Min(P)].line.a[1])
      /\ PortRead(q) = IF options.port # 0 \/ Q = {} THEN options.port
                       ELSE atoi(q[Min(Q)].line.a[1])
  BY <1>6 DEF PortRead
<1>10. CASE options.port # 0
  BY <1>1, <1>9, <1>10
<1>11. CASE options.port = 0 /\ P = {}
  <2>1. CASE x.line.d = "port" /\ atoi(x.line.a[1]) # 0
    <3>1. Q = {n + 1}
      BY <1>8, <1>11, <2>1
    <3>2. Min(Q) = n + 1
      BY <3>1, MinIs
    <3> QED
      BY <1>1, <1>3, <1>9, <1>11, <2>1, <3>1, <3>2
  <2>2. CASE ~ (x.line.d = "port" /\ atoi(x.line.a[1]) # 0)
    BY <1>1, <1>8, <1>9, <1>11, <2>2
  <2> QED
    BY <2>1, <2>2
<1>12. CASE options.port = 0 /\ P # {}
  <2>1. Min(P) \in P /\ \A i \in P : Min(P) <= i
    <3>1. P \subseteq Nat
      BY <1>8
    <3> QED
      BY <1>12, <3>1, FirstOf
  <2>2. PICK m : m = Min(P)
    OBVIOUS
  <2>3. m \in Q /\ Q \subseteq Nat /\ \A i \in Q : m <= i
    <3>1. \A i \in Q : i \in P \/ i = n + 1
      BY <1>8
    <3>2. m \in P /\ m \in 1 .. n /\ \A i \in P : m <= i
      BY <1>8, <2>1, <2>2
    <3>3. m \in Q
      BY <1>8, <3>2
    <3>4. \A i \in P : i \in Nat
      <4>1. P \subseteq 1 .. n
        BY <1>8
      <4> QED
        BY <4>1
    <3> QED
      BY <3>1, <3>2, <3>3, <3>4
  <2>4. Min(Q) = m
    BY <2>3, MinIs
  <2>5. m \in 1 .. n /\ atoi(r[m].line.a[1]) # 0 /\ q[m] = r[m]
    BY <1>3, <1>7, <1>8, <2>1, <2>2
  <2> QED
    BY <1>1, <1>9, <1>12, <2>2, <2>3, <2>4, <2>5
<1> QED
  BY <1>10, <1>11, <1>12

\* The set-up of a name, by the lines r.
Definitions(r, name) == {j \in DOMAIN r : Defines(r[j].line, name)}
SetupRead(r, name) ==
    IF Definitions(r, name) = {} THEN "" ELSE r[Max(Definitions(r, name))].line.a[3]

\* The newest definition of a set-up, for one line more.
LEMMA SetupReadStep ==
    ASSUME NEW r \in Seq(Reads), NEW x \in Reads, NEW name
    PROVE  SetupRead(Append(r, x), name) = IF Defines(x.line, name) THEN x.line.a[3]
                                           ELSE SetupRead(r, name)
<1>1. PICK q : q = Append(r, x)
  OBVIOUS
<1>2. PICK n \in Nat : n = Len(r)
  OBVIOUS
<1>3. /\ \A i \in 1 .. n : q[i] = r[i]
      /\ q[n + 1] = x
      /\ DOMAIN r = 1 .. n /\ DOMAIN q = 1 .. n + 1
  BY <1>1, <1>2, OneMore
<1>4. PICK R, S : R = Definitions(r, name) /\ S = Definitions(q, name)
  OBVIOUS
<1>5. /\ \A i : i \in R <=> i \in 1 .. n /\ Defines(r[i].line, name)
      /\ \A i : i \in S <=> i \in 1 .. n + 1 /\ Defines(q[i].line, name)
  BY <1>3, <1>4 DEF Definitions
<1>6. CASE Defines(x.line, name)
  <2>1. n + 1 \in S /\ S \subseteq Nat /\ \A i \in S : i <= n + 1
    BY <1>3, <1>5, <1>6
  <2>2. Max(S) = n + 1
    BY <2>1, MaxIs
  <2> QED
    BY <1>1, <1>3, <1>4, <1>6, <2>1, <2>2 DEF SetupRead
<1>7. CASE ~Defines(x.line, name)
  <2>1. \A i : i \in S <=> i \in R
    BY <1>3, <1>5, <1>7
  <2>2. S = R
    BY <2>1
  <2>3. R # {} => Max(R) \in 1 .. n
    <3>1. R \subseteq 1 .. n
      BY <1>5
    <3> QED
      BY <3>1, LastOf
  <2> QED
    BY <1>1, <1>3, <1>4, <1>7, <2>2, <2>3 DEF SetupRead
<1> QED
  BY <1>6, <1>7

\* A list, of whatever.
List(s) == \E V : s \in Seq(V)
Prepended(u, x, s) == u = <<x>> \o s

\* The newest definition is found first.
LEMMA NewestFirst ==
    ASSUME NEW c, NEW d, List(c.named_prots), NEW p,
           Prepended(d.named_prots, p, c.named_prots), NEW name
    PROVE  HTGetNamedProtection(d, name) = IF p.prot_name = name THEN p.prot
                                           ELSE HTGetNamedProtection(c, name)
<1>1. PICK s : s = c.named_prots
  OBVIOUS
<1>2. PICK u : u = d.named_prots
  OBVIOUS
<1>3. PICK n \in Nat : n = Len(s)
  BY <1>1 DEF List
<1>4. /\ DOMAIN s = 1 .. n /\ DOMAIN u = 1 .. n + 1
      /\ u[1] = p /\ \A i \in 1 .. n : u[i + 1] = s[i]
  <2>1. PICK V : s \in Seq(V)
    BY <1>1 DEF List
  <2>2. PICK W : W = V \cup {p}
    OBVIOUS
  <2>3. PICK z \in W : z = p
    BY <2>2
  <2>4. s \in Seq(W)
    BY <2>1, <2>2
  <2>5. u = <<z>> \o s
    BY <1>1, <1>2, <2>3 DEF Prepended
  <2> QED
    BY <1>3, <2>3, <2>4, <2>5
<1>5. PICK F, G : /\ F = {i \in DOMAIN s : s[i].prot_name = name}
                  /\ G = {i \in DOMAIN u : u[i].prot_name = name}
  OBVIOUS
<1>6. /\ HTGetNamedProtection(c, name) = IF F = {} THEN "" ELSE s[Min(F)].prot
      /\ HTGetNamedProtection(d, name) = IF G = {} THEN "" ELSE u[Min(G)].prot
  BY <1>1, <1>2, <1>5 DEF HTGetNamedProtection
<1>7. CASE p.prot_name = name
  <2>1. 1 \in G /\ G \subseteq Nat /\ \A i \in G : 1 <= i
    BY <1>4, <1>5, <1>7
  <2>2. Min(G) = 1
    BY <2>1, MinIs
  <2> QED
    BY <1>4, <1>6, <1>7, <2>1, <2>2
<1>8. CASE p.prot_name # name
  <2>1. 1 \notin G /\ G \subseteq 1 .. n + 1
    BY <1>4, <1>5, <1>8
  <2>2. \A i \in 1 .. n : i \in F <=> i + 1 \in G
    BY <1>4, <1>5
  <2>3. \A j \in G : j - 1 \in F /\ j = (j - 1) + 1
    <3> SUFFICES ASSUME NEW j \in G PROVE j - 1 \in F /\ j = (j - 1) + 1
      OBVIOUS
    <3>1. j - 1 \in 1 .. n /\ j = (j - 1) + 1
      BY <2>1
    <3> QED
      BY <2>2, <3>1
  <2>4. CASE F = {}
    <3>1. G = {}
      BY <2>3, <2>4
    <3> QED
      BY <1>6, <1>8, <2>4, <3>1
  <2>5. CASE F # {}
    <3>1. F \subseteq 1 .. n
      BY <1>4, <1>5
    <3>2. PICK m \in 1 .. n : m = Min(F) /\ m \in F /\ \A i \in F : m <= i
      <4>1. Min(F) \in F /\ \A i \in F : Min(F) <= i
        <5>1. F \subseteq Nat
          BY <3>1
        <5> QED
          BY <2>5, <5>1, FirstOf
      <4> QED
        BY <3>1, <4>1
    <3>3. m + 1 \in G /\ G \subseteq Nat /\ \A j \in G : m + 1 <= j
      <4>1. m + 1 \in G
        BY <2>2, <3>2
      <4>2. \A j \in G : j \in Nat /\ m <= j - 1
        BY <2>1, <2>3, <3>2
      <4> QED
        BY <4>1, <4>2
    <3>4. Min(G) = m + 1
      BY <3>3, MinIs
    <3> QED
      BY <1>4, <1>6, <1>8, <2>5, <3>2, <3>3, <3>4
  <2> QED
    BY <2>4, <2>5
<1> QED
  BY <1>7, <1>8

-----------------------------------------------------------------------------
(* The configuration is as read.                                           *)

\* All that outlives a load, ...
Lasting(c, r) ==
    /\ r \in Seq(Reads) /\ DOMAIN c = Fields
    /\ List(c.named_prots) /\ \A name : HTGetNamedProtection(c, name) = SetupRead(r, name)
    /\ c.cache_clean = TemplatesRead(r)
    /\ c.cache_root = RootRead(r)
    /\ c.caching_explicitly_off \in BOOLEAN /\ (c.caching_explicitly_off <=> OffNow(r))
    /\ c.HTDirMinFileLength \in Int /\ c.HTDirMaxFileLength \in Int
    /\ c.HTDirMinFileLength <= c.HTDirMaxFileLength

\* ... and the rules and the port of a load.
RulesMatch(rules, r, load) ==
    LET last == RulesRead(r, load) IN
    /\ List(rules) /\ Len(rules) = Len(last)
    /\ \A i \in 1 .. Len(last) : rules[i].pat = last[i].pat /\ rules[i].prot = last[i].prot

AsRead(c, r, load) ==
    Lasting(c, r) /\ RulesMatch(c.rules, r, load) /\ c.port = PortRead(r)

\* The directives that change a setting.
InCharge(f) ==
    CASE f = "rules" -> RuleWords
      [] f = "named_prots" -> {"protection"}
      [] f = "cache_clean" -> {"cacheclean"}
      [] f \in {"cache_root", "caching_explicitly_off"} -> {"cacheroot", "caching"}
      [] f = "port" -> {"port"}
      [] f \in {"HTDirMinFileLength", "HTDirMaxFileLength"} -> LengthNames
      [] f \in {"rule_files", "reloading"} -> {}

\* A line changes a setting of the properties only if its directive is in charge of it.
LEMMA LineKeeps ==
    ASSUME NEW c, NEW l
    PROVE  /\ DOMAIN Parse(c, l) = DOMAIN c
           /\ \A f \in Tracked : l.d \notin InCharge(f) => Parse(c, l)[f] = c[f]
<1>1. \A f \in {"rules", "named_prots", "cache_clean", "cache_root", "caching_explicitly_off", "port",
               "cache_clean_def"} :
          \A value, S : f \notin S => Keeps(c, Set(c, f, value), S)
  BY SetKeeps
<1>2. CASE l.d \notin Special
  BY <1>2, OrdinaryLine DEF Keeps
<1>3. CASE l.d \in RuleWords
  <2>1. Keeps(c, Parse(c, l), Tracked \ {"rules"})
    BY <1>3, SetKeeps, RuleLine
  <2> QED
    BY <1>3, <2>1 DEF Keeps, InCharge
<1>4. CASE l.d = "protection"
  <2>1. Keeps(c, Parse(c, l), Tracked \ {"named_prots"})
    <3>1. PICK T : T = Tracked \ {"named_prots"}
      OBVIOUS
    <3>2. "named_prots" \notin T
      BY <3>1
    <3>3. Parse(c, l) = c \/ \E value : Parse(c, l) = Set(c, "named_prots", value)
      BY <1>4, ProtectionLine
    <3> QED
      BY <3>1, <3>2, <3>3, SetKeeps, KeepsAll
  <2> QED
    BY <1>4, <2>1 DEF Keeps, InCharge
<1>5. CASE l.d = "cacheclean"
  <2>1. Keeps(c, Parse(c, l), Tracked \ {"cache_clean"})
    <3>1. "cache_clean_def" \notin Tracked
      BY DEF Tracked
    <3> QED
      BY <1>5, <3>1, SetKeeps, CleanLine
  <2> QED
    BY <1>5, <2>1 DEF Keeps, InCharge
<1>6. CASE l.d \in {"cacheroot", "caching"}
  <2>1. Keeps(c, Parse(c, l), Tracked \ {"cache_root", "caching_explicitly_off"})
    <3>1. Parse(c, l) = Caching(c, l)
      BY <1>6, CachingLine
    <3>2. CASE l.d = "cacheroot"
      BY <3>1, <3>2, SetKeeps DEF Caching
    <3>3. CASE l.d = "caching"
      <4>1. PICK v, w : Caching(c, l) = [c EXCEPT !["caching_explicitly_off"] = v, !["cache_root"] = w]
        BY <3>3 DEF Caching
      <4>2. PICK T : T = Tracked \ {"cache_root", "caching_explicitly_off"}
        OBVIOUS
      <4>3. "cache_root" \notin T /\ "caching_explicitly_off" \notin T
        BY <4>2
      <4>4. Keeps(c, [c EXCEPT !["caching_explicitly_off"] = v, !["cache_root"] = w], T)
        BY <4>3, TwoKeep
      <4> QED
        BY <3>1, <4>1, <4>2, <4>4
    <3> QED
      BY <1>6, <3>2, <3>3
  <2> QED
    BY <1>6, <2>1 DEF Keeps, InCharge
<1>7. CASE l.d = "port"
  <2>1. Keeps(c, Parse(c, l), Tracked \ {"port"})
    <3>1. PICK T : T = Tracked \ {"port"}
      OBVIOUS
    <3>2. "port" \notin T
      BY <3>1
    <3>3. Parse(c, l) = c \/ \E value : Parse(c, l) = Set(c, "port", value)
      BY <1>7, PortLine DEF SetIf
    <3> QED
      BY <3>1, <3>2, <3>3, SetKeeps, KeepsAll
  <2> QED
    BY <1>7, <2>1 DEF Keeps, InCharge
<1>8. CASE l.d \in LengthNames
  <2>1. Keeps(c, Parse(c, l), Tracked \ {"HTDirMinFileLength", "HTDirMaxFileLength"})
    <3>1. Parse(c, l) = Lengths(c, l)
      BY <1>8, LengthLine
    <3>2. {"HTDirMinFileLength", "HTDirMaxFileLength", "HTDirMaxDescrLength"}
              \cap (Tracked \ {"HTDirMinFileLength", "HTDirMaxFileLength"}) = {}
      BY DEF Tracked
    <3> QED
      BY <1>8, <3>1, <3>2, LengthsKeep
  <2> QED
    BY <1>8, <2>1 DEF Keeps, InCharge
<1> QED
  BY <1>2, <1>3, <1>4, <1>5, <1>6, <1>7, <1>8 DEF Special, RuleNames, RuleWords

\* The words of a line, and the number at the front.
LEMMA WordTypes ==
    ASSUME NEW l \in UNION Line
    PROVE  Len(l.a) \in Nat \ {0} /\ l.a \in Seq(DOMAIN Tokens) /\ atoi(l.a[1]) \in Nat
<1>1. l.a \in Seq(DOMAIN Tokens) /\ l.a # <<>>
  BY LineAssumption
<1>2. l.a[1] \in DOMAIN Tokens /\ Len(l.a) \in Nat \ {0}
  BY <1>1
<1>3. PICK s : s = Tokens[l.a[1]]
  OBVIOUS
<1>4. s \in Seq([k : STRING, n : Nat])
  BY <1>2, <1>3, TokenAssumption
<1>5. Number(s) \in Nat
  <2>1. s # <<>> => s[1] \in [k : STRING, n : Nat]
    <3>1. PICK V : V = [k : STRING, n : Nat]
      OBVIOUS
    <3>2. s \in Seq(V)
      BY <1>4, <3>1
    <3>3. s # <<>> => s[1] \in V
      BY <3>2
    <3> QED
      BY <3>1, <3>3
  <2> QED
    BY <2>1 DEF Number
<1> QED
  BY <1>1, <1>2, <1>3, <1>5 DEF atoi

\* A line leaves the lengths in order.
LEMMA LineLengths ==
    ASSUME NEW c, NEW l \in UNION Line, DOMAIN c = Fields,
           c.HTDirMinFileLength \in Int, c.HTDirMaxFileLength \in Int,
           c.HTDirMinFileLength <= c.HTDirMaxFileLength
    PROVE  LET n == Parse(c, l) IN
           /\ n.HTDirMinFileLength \in Int /\ n.HTDirMaxFileLength \in Int
           /\ n.HTDirMinFileLength <= n.HTDirMaxFileLength
<1>1. {"HTDirMinFileLength", "HTDirMaxFileLength"} \subseteq DOMAIN c
  BY TrackedFields DEF Tracked
<1>2. CASE l.d \notin LengthNames
  BY <1>2, LineKeeps DEF InCharge, Tracked
<1>3. CASE l.d \in LengthNames
  <2>2. Parse(c, l) = Lengths(c, l)
    BY <1>3, LengthLine
  <2>3. PICK k \in Nat : k = atoi(l.a[1])
    BY WordTypes
  <2>4. CASE l.d = "dirshowmaxdescriptionlength"
    BY <1>1, <2>2, <2>4 DEF Lengths, SetIf, Set
  <2>5. CASE l.d = "dirshowminlength"
    BY <1>1, <2>2, <2>3, <2>5 DEF Lengths
  <2>6. CASE l.d = "dirshowmaxlength"
    BY <1>1, <2>2, <2>3, <2>6 DEF Lengths
  <2> QED
    BY <1>3, <2>4, <2>5, <2>6 DEF LengthNames
<1> QED
  BY <1>2, <1>3

\* A line, part by part.
LEMMA LineNamed ==
    ASSUME NEW c, NEW r \in Seq(Reads), NEW x \in Reads, DOMAIN c = Fields,
           List(c.named_prots), \A name : HTGetNamedProtection(c, name) = SetupRead(r, name)
    PROVE  LET n == Parse(c, x.line) IN
           /\ List(n.named_prots)
           /\ \A name : HTGetNamedProtection(n, name) = SetupRead(Append(r, x), name)
<1> DEFINE l == x.line
           n == Parse(c, l)
           p == [prot_name |-> l.a[1], prot |-> l.a[3]]
           defines == l.d = "protection" /\ ~ (Len(l.a) < 3 \/ l.a[2] # "{")
<1>1. Len(l.a) \in Nat
  BY WordTypes DEF Reads
<1>2. \A name : Defines(l, name) <=> defines /\ p.prot_name = name
  <2> TAKE name
  <2>1. p.prot_name = l.a[1]
    OBVIOUS
  <2>2. PICK k \in Nat : k = Len(l.a)
    BY <1>1
  <2>3. k >= 3 <=> ~ (k < 3)
    OBVIOUS
  <2> HIDE DEF p, l
  <2> QED
    BY <2>1, <2>2, <2>3, Zenon DEF Defines
<1>3. CASE ~defines
  <2>1. n.named_prots = c.named_prots
    <3>1. CASE l.d = "protection"
      BY <1>3, <3>1, ProtectionLine
    <3>2. CASE l.d # "protection"
      BY <3>2, LineKeeps DEF InCharge, Tracked
    <3> QED
      BY <3>1, <3>2
  <2>2. \A name : HTGetNamedProtection(n, name) = HTGetNamedProtection(c, name)
    BY <2>1 DEF HTGetNamedProtection
  <2>3. \A name : SetupRead(Append(r, x), name) = SetupRead(r, name)
    <3> TAKE name
    <3>1. ~Defines(l, name)
      BY <1>2, <1>3
    <3> QED
      BY <3>1, SetupReadStep
  <2> HIDE DEF n
  <2> QED
    BY <2>1, <2>2, <2>3 DEF n
<1>4. CASE defines
  <2>1. n = Set(c, "named_prots", <<p>> \o c.named_prots)
    BY <1>4, ProtectionLine
  <2>2. n.named_prots = <<p>> \o c.named_prots
    <3>1. "named_prots" \in DOMAIN c
      BY TrackedFields DEF Tracked
    <3> HIDE DEF n, p
    <3> QED
      BY <2>1, <3>1 DEF Set
  <2>3. PICK V : c.named_prots \in Seq(V)
    BY DEF List
  <2>4. PICK W : W = V \cup {p}
    OBVIOUS
  <2>5. PICK z \in W : z = p
    BY <2>4
  <2>6. PICK s : s = c.named_prots
    OBVIOUS
  <2>7. s \in Seq(W)
    BY <2>3, <2>4, <2>6
  <2>8. n.named_prots = <<z>> \o s
    BY <2>2, <2>5, <2>6
  <2>9. List(n.named_prots)
    <3>1. <<z>> \o s \in Seq(W)
      BY <2>7
    <3> QED
      BY <2>8, <3>1 DEF List
  <2>10. \A name : HTGetNamedProtection(n, name) = SetupRead(Append(r, x), name)
    <3> TAKE name
    <3>1. HTGetNamedProtection(n, name) = IF z.prot_name = name THEN z.prot
                                          ELSE HTGetNamedProtection(c, name)
      <4>1. PICK d : d = n
        OBVIOUS
      <4>2. d.named_prots = <<z>> \o c.named_prots
        BY <2>6, <2>8, <4>1
      <4>3. HTGetNamedProtection(d, name) = IF z.prot_name = name THEN z.prot
                                            ELSE HTGetNamedProtection(c, name)
        <5>1. List(c.named_prots)
          OBVIOUS
        <5>2. Prepended(d.named_prots, z, c.named_prots)
          BY <4>2 DEF Prepended
        <5> HIDE DEF n, p, l, defines
        <5> QED
          BY <5>1, <5>2, NewestFirst, SMT
      <4> QED
        BY <4>1, <4>3
    <3>2. SetupRead(Append(r, x), name) = IF Defines(l, name) THEN l.a[3] ELSE SetupRead(r, name)
      BY SetupReadStep
    <3>3. p.prot = l.a[3]
      OBVIOUS
    <3> HIDE DEF n, p
    <3> QED
      BY <1>2, <1>4, <2>5, <3>1, <3>2, <3>3
  <2> QED
    BY <2>9, <2>10
<1> QED
  BY <1>3, <1>4

\* A line, and the templates.
LEMMA LineTemplates ==
    ASSUME NEW c, NEW r \in Seq(Reads), NEW x \in Reads, DOMAIN c = Fields,
           c.cache_clean = TemplatesRead(r)
    PROVE  Parse(c, x.line).cache_clean = TemplatesRead(Append(r, x))
<1> DEFINE l == x.line
           n == Parse(c, l)
<1>1. Len(l.a) \in Nat \ {0}
  BY WordTypes DEF Reads
<1>2. "cache_clean" \in DOMAIN c
  BY TrackedFields DEF Tracked
<1>3. CASE l.d # "cacheclean"
  <2>1. n.cache_clean = c.cache_clean
    BY <1>3, LineKeeps DEF InCharge, Tracked
  <2>2. TemplatesRead(Append(r, x)) = TemplatesRead(r)
    <3> HIDE DEF n
    <3> QED
      BY <1>3, TemplatesReadStep
  <2> HIDE DEF n
  <2> QED
    BY <2>1, <2>2 DEF n
<1>4. CASE l.d = "cacheclean" /\ Len(l.a) = 1
  <2>1. n.cache_clean = c.cache_clean
    <3>1. PICK value : n = Set(c, "cache_clean_def", value)
      BY <1>4, CleanLine
    <3> HIDE DEF n
    <3> QED
      BY <1>2, <3>1 DEF Set
  <2>2. ~IsTemplate(l)
    BY <1>4 DEF IsTemplate
  <2> QED
    BY <2>1, <2>2, TemplatesReadStep
<1>5. CASE l.d = "cacheclean" /\ Len(l.a) # 1
  <2>1. n.cache_clean = parse_pt(c.cache_clean, l)
    <3>1. n = Set(c, "cache_clean", parse_pt(c.cache_clean, l))
      BY <1>5, CleanLine
    <3> HIDE DEF n
    <3> QED
      BY <1>2, <3>1 DEF Set
  <2>2. IsTemplate(l)
    <3>1. PICK k \in Nat \ {0} : k = Len(l.a)
      BY <1>1
    <3>2. k # 1
      BY <1>5, <3>1
    <3>3. k > 1
      <4>1. k \in Nat \ {0}
        OBVIOUS
      <4> QED
        BY ONLY <3>2, <4>1
    <3> QED
      BY <3>1, <3>3 DEF IsTemplate
  <2>3. parse_pt(c.cache_clean, l) = IF TimeOf(l).ok
                                     THEN Append(c.cache_clean, [pat |-> l.a[1], time |-> TimeOf(l).t])
                                     ELSE <<>>
    BY DEF parse_pt, TimeOf
  <2> QED
    BY <1>5, <2>1, <2>2, <2>3, TemplatesReadStep
<1> QED
  BY <1>3, <1>4, <1>5

\* A line, and the root of the cache.
LEMMA LineCaching ==
    ASSUME NEW c, NEW r \in Seq(Reads), NEW x \in Reads, DOMAIN c = Fields,
           c.cache_root = RootRead(r), c.caching_explicitly_off \in BOOLEAN,
           c.caching_explicitly_off <=> OffNow(r)
    PROVE  LET n == Parse(c, x.line)
               q == Append(r, x) IN
           /\ n.cache_root = RootRead(q)
           /\ n.caching_explicitly_off \in BOOLEAN /\ (n.caching_explicitly_off <=> OffNow(q))
<1>1. PICK q : q = Append(r, x)
  OBVIOUS
<1>2. PICK n : n = Parse(c, x.line)
  OBVIOUS
<1>3. PICK l : l = x.line
  OBVIOUS
<1>4. {"cache_root", "caching_explicitly_off"} \subseteq DOMAIN c
  BY TrackedFields DEF Tracked
<1>5. /\ RootRead(q) = IF l.d = "cacheroot" /\ ~OffNow(r) THEN l.a[1]
                       ELSE IF l.d = "caching" /\ l.a[1] \in Negative THEN "" ELSE RootRead(r)
      /\ OffNow(q) <=> IF l.d = "caching" THEN l.a[1] \in Negative ELSE OffNow(r)
  BY <1>1, <1>3, RootReadStep, OffStep
<1>6. CASE l.d = "cacheroot"
  <2>1. n = SetIf(c, ~c.caching_explicitly_off, "cache_root", l.a[1])
    <3>1. n = Caching(c, l)
      BY <1>2, <1>3, <1>6, CachingLine
    <3> QED
      BY <1>6, <3>1 DEF Caching
  <2>2. n.caching_explicitly_off = c.caching_explicitly_off
    BY <1>4, <2>1 DEF SetIf, Set
  <2>3. n.cache_root = IF OffNow(r) THEN c.cache_root ELSE l.a[1]
    BY <1>4, <2>1 DEF SetIf, Set
  <2> QED
    BY <1>1, <1>2, <1>3, <1>5, <1>6, <2>2, <2>3
<1>7. CASE l.d = "caching"
  <2>1. n = Caching(c, l)
    BY <1>2, <1>3, <1>7, CachingLine
  <2>2. n = [c EXCEPT !.caching_explicitly_off = l.a[1] \in Negative,
                      !.cache_root = IF l.a[1] \in Negative THEN "" ELSE @]
    BY <1>7, <2>1 DEF Caching
  <2>3. n.caching_explicitly_off = (l.a[1] \in Negative)
    BY <1>4, <2>2
  <2>4. n.cache_root = IF l.a[1] \in Negative THEN "" ELSE c.cache_root
    BY <1>4, <2>2
  <2>5. n.cache_root = RootRead(q)
    BY <1>5, <1>7, <2>4
  <2>6. n.caching_explicitly_off \in BOOLEAN
    BY <2>3
  <2>7. OffNow(q) <=> l.a[1] \in Negative
    BY <1>5, <1>7
  <2>8. n.caching_explicitly_off <=> OffNow(q)
    BY <2>3, <2>7
  <2> QED
    BY <1>1, <1>2, <2>5, <2>6, <2>8
<1>8. CASE l.d \notin {"cacheroot", "caching"}
  <2>1. n.cache_root = c.cache_root /\ n.caching_explicitly_off = c.caching_explicitly_off
    BY <1>2, <1>3, <1>8, LineKeeps DEF InCharge, Tracked
  <2> QED
    BY <1>1, <1>2, <1>3, <1>5, <1>8, <2>1
<1> QED
  BY <1>6, <1>7, <1>8

\* A line, and the port.
LEMMA LinePort ==
    ASSUME NEW c, NEW r \in Seq(Reads), NEW x \in Reads, DOMAIN c = Fields, c.port = PortRead(r)
    PROVE  Parse(c, x.line).port = PortRead(Append(r, x))
<1>1. PICK n : n = Parse(c, x.line)
  OBVIOUS
<1>2. "port" \in DOMAIN c
  BY TrackedFields DEF Tracked
<1>3. CASE x.line.d = "port"
  <2>1. n = SetIf(c, c.port = 0, "port", atoi(x.line.a[1]))
    BY <1>1, <1>3, PortLine
  <2>2. n.port = IF c.port = 0 THEN atoi(x.line.a[1]) ELSE c.port
    BY <1>2, <2>1 DEF SetIf, Set
  <2> QED
    BY <1>1, <1>3, <2>2, PortReadStep
<1>4. CASE x.line.d # "port"
  BY <1>4, LineKeeps, PortReadStep DEF InCharge, Tracked
<1> QED
  BY <1>3, <1>4

\* The set-up of a rule that is read now.
LEMMA SetupAtLast ==
    ASSUME NEW c, NEW r \in Seq(Reads), NEW x \in Reads,
           \A name : HTGetNamedProtection(c, name) = SetupRead(r, name)
    PROVE  SetupAt(Append(r, x), Len(r) + 1) = SetupOf(c, x.line)
<1>1. PICK q : q = Append(r, x)
  OBVIOUS
<1>2. PICK n \in Nat : n = Len(r)
  OBVIOUS
<1>3. /\ \A i \in 1 .. n : q[i] = r[i]
      /\ q[n + 1] = x
      /\ DOMAIN r = 1 .. n /\ DOMAIN q = 1 .. n + 1
  BY <1>1, <1>2, OneMore
<1>4. PICK before : before = {j \in DOMAIN q : j < n + 1 /\ Defines(q[j].line, x.line.a[2])}
  OBVIOUS
<1>5. before = Definitions(r, x.line.a[2])
  <2>1. \A j : j \in before <=> j \in DOMAIN r /\ Defines(r[j].line, x.line.a[2])
    BY <1>3, <1>4
  <2> QED
    BY <2>1 DEF Definitions
<1>6. before # {} => q[Max(before)] = r[Max(before)]
  <2>1. before \subseteq 1 .. n
    BY <1>3, <1>4
  <2>2. before # {} => Max(before) \in 1 .. n
    BY <2>1, LastOf
  <2> QED
    BY <1>3, <2>2
<1>7. HTGetNamedProtection(c, x.line.a[2]) = IF before = {} THEN "" ELSE q[Max(before)].line.a[3]
  BY <1>5, <1>6 DEF SetupRead
<1> QED
  BY <1>1, <1>2, <1>3, <1>4, <1>7 DEF SetupAt, SetupOf

\* A line, and the rules: the set-ups are looked up among those read before.
LEMMA LineRules ==
    ASSUME NEW c, NEW r \in Seq(Reads), NEW x \in Reads, DOMAIN c = Fields,
           \A name : HTGetNamedProtection(c, name) = SetupRead(r, name),
           RulesMatch(c.rules, r, x.load)
    PROVE  RulesMatch(Parse(c, x.line).rules, Append(r, x), x.load)
<1>1. PICK q : q = Append(r, x)
  OBVIOUS
<1>2. PICK n : n = Parse(c, x.line)
  OBVIOUS
<1>3. PICK l : l = x.line
  OBVIOUS
<1>4. "rules" \in DOMAIN c
  BY TrackedFields DEF Tracked
<1>5. PICK old, new : old = RulesRead(r, x.load) /\ new = RulesRead(q, x.load)
  OBVIOUS
<1>6. /\ Len(old) \in Nat
      /\ IF l.d \in RuleWords
         THEN /\ Len(new) = Len(old) + 1
              /\ \A i \in 1 .. Len(old) : new[i] = old[i]
              /\ new[Len(new)] = RuleRead(q, Len(r) + 1)
         ELSE new = old
  BY <1>1, <1>3, <1>5, RulesReadStep
<1>7. PICK s : s = c.rules
  OBVIOUS
<1>8. PICK V : s \in Seq(V)
  BY <1>7 DEF RulesMatch, List
<1>9. Len(s) = Len(old) /\ \A i \in 1 .. Len(old) : s[i].pat = old[i].pat /\ s[i].prot = old[i].prot
  BY <1>5, <1>7 DEF RulesMatch
<1>10. CASE l.d \notin RuleWords
  <2>1. n.rules = c.rules
    BY <1>2, <1>3, <1>10, LineKeeps DEF InCharge, Tracked
  <2> QED
    BY <1>1, <1>2, <1>5, <1>6, <1>10, <2>1 DEF RulesMatch
<1>11. CASE l.d \in RuleWords
  <2>1. PICK rule : /\ n = Set(c, "rules", Append(c.rules, rule))
                    /\ rule.pat = PatternOf(l) /\ rule.prot = SetupOf(c, l)
    BY <1>2, <1>3, <1>11, RuleLine
  <2>2. n.rules = Append(s, rule)
    BY <1>4, <1>7, <2>1 DEF Set
  <2>3. PICK m \in Nat : m = Len(old)
    BY <1>6
  <2>4. PICK u : u = Append(s, rule)
    OBVIOUS
  <2>5. Len(u) = m + 1 /\ u[m + 1] = rule /\ \A i \in 1 .. m : u[i] = s[i]
    BY <1>8, <1>9, <2>3, <2>4
  <2>6. List(u)
    <3>1. u \in Seq(V \cup {rule})
      BY <1>8, <2>4
    <3> QED
      BY <3>1 DEF List
  <2>7. RuleRead(q, Len(r) + 1).pat = PatternOf(l) /\ RuleRead(q, Len(r) + 1).prot = SetupOf(c, l)
    <3>1. q[Len(r) + 1] = x
      BY <1>1, OneMore
    <3>2. RuleRead(q, Len(r) + 1).pat = PatternOf(l)
      BY <1>3, <3>1 DEF RuleRead, PatternOf
    <3>3. SetupAt(q, Len(r) + 1) = SetupOf(c, l)
      BY <1>1, <1>3, SetupAtLast
    <3> QED
      BY <3>2, <3>3 DEF RuleRead
  <2>8. Len(new) = m + 1 /\ new[m + 1] = RuleRead(q, Len(r) + 1) /\ \A i \in 1 .. m : new[i] = old[i]
    BY <1>6, <1>11, <2>3
  <2>9. \A i \in 1 .. m + 1 : u[i].pat = new[i].pat /\ u[i].prot = new[i].prot
    <3> TAKE i \in 1 .. m + 1
    <3>1. CASE i \in 1 .. m
      BY <1>9, <2>3, <2>5, <2>8, <3>1
    <3>2. CASE i = m + 1
      BY <2>1, <2>5, <2>7, <2>8, <3>2
    <3> QED
      BY <3>1, <3>2
  <2> QED
    BY <1>1, <1>2, <1>5, <2>2, <2>4, <2>5, <2>6, <2>8, <2>9 DEF RulesMatch
<1> QED
  BY <1>10, <1>11

\* The configuration is as read behind one line more.
LEMMA LineAsRead ==
    ASSUME NEW c, NEW r, NEW x \in Reads, AsRead(c, r, x.load)
    PROVE  AsRead(Parse(c, x.line), Append(r, x), x.load)
<1>1. /\ r \in Seq(Reads) /\ DOMAIN c = Fields
      /\ List(c.named_prots) /\ \A name : HTGetNamedProtection(c, name) = SetupRead(r, name)
      /\ c.cache_clean = TemplatesRead(r)
      /\ c.cache_root = RootRead(r)
      /\ c.caching_explicitly_off \in BOOLEAN /\ (c.caching_explicitly_off <=> OffNow(r))
      /\ c.HTDirMinFileLength \in Int /\ c.HTDirMaxFileLength \in Int
      /\ c.HTDirMinFileLength <= c.HTDirMaxFileLength
      /\ RulesMatch(c.rules, r, x.load) /\ c.port = PortRead(r)
  BY DEF AsRead, Lasting
<1>2. x.line \in UNION Line
  BY DEF Reads
<1>3. PICK n : n = Parse(c, x.line)
  OBVIOUS
<1>4. PICK q : q = Append(r, x)
  OBVIOUS
<1>5. q \in Seq(Reads) /\ DOMAIN n = Fields
  BY <1>1, <1>3, <1>4, OneMore, LineKeeps
<1>6. List(n.named_prots) /\ \A name : HTGetNamedProtection(n, name) = SetupRead(q, name)
  BY <1>1, <1>3, <1>4, LineNamed
<1>7. n.cache_clean = TemplatesRead(q)
  BY <1>1, <1>3, <1>4, LineTemplates
<1>8. n.cache_root = RootRead(q) /\ n.caching_explicitly_off \in BOOLEAN
      /\ (n.caching_explicitly_off <=> OffNow(q))
  BY <1>1, <1>3, <1>4, LineCaching
<1>9. /\ n.HTDirMinFileLength \in Int /\ n.HTDirMaxFileLength \in Int
      /\ n.HTDirMinFileLength <= n.HTDirMaxFileLength
  BY <1>1, <1>2, <1>3, LineLengths
<1>10. RulesMatch(n.rules, q, x.load)
  BY <1>1, <1>3, <1>4, LineRules
<1>11. n.port = PortRead(q)
  BY <1>1, <1>3, <1>4, LinePort
<1> QED
  BY <1>3, <1>4, <1>5, <1>6, <1>7, <1>8, <1>9, <1>10, <1>11 DEF AsRead, Lasting

-----------------------------------------------------------------------------
(* A file, and the files of a load.                                        *)

\* A sequence grows by the members of another, one at a time.
Grows(h, r, s) ==
    /\ h[0] = r /\ h[Len(s)] = r \o s
    /\ \A i \in 1 .. Len(s) : h[i] = Append(h[i - 1], s[i])

\* A sequence is put behind another member by member.
LEMMA OneByOne ==
    ASSUME NEW V, NEW r \in Seq(V), NEW s \in Seq(V)
    PROVE  \E h : Grows(h, r, s)
<1> DEFINE h == [i \in 0 .. Len(s) |-> r \o SubSeq(s, 1, i)]
<1>1. PICK n \in Nat : n = Len(s)
  OBVIOUS
<1>2. h[0] = r
  <2>1. SubSeq(s, 1, 0) = <<>>
    OBVIOUS
  <2>2. h[0] = r \o SubSeq(s, 1, 0)
    BY <1>1
  <2> HIDE DEF h
  <2> QED
    BY <2>1, <2>2
<1>3. h[n] = r \o s
  <2>1. SubSeq(s, 1, n) = s
    BY <1>1
  <2>2. h[n] = r \o SubSeq(s, 1, n)
    BY <1>1
  <2> HIDE DEF h
  <2> QED
    BY <2>1, <2>2
<1>4. ASSUME NEW i \in 1 .. n PROVE h[i] = Append(h[i - 1], s[i])
  <2>1. SubSeq(s, 1, i) = Append(SubSeq(s, 1, i - 1), s[i])
    BY <1>1
  <2>2. h[i] = r \o SubSeq(s, 1, i) /\ h[i - 1] = r \o SubSeq(s, 1, i - 1)
    BY <1>1
  <2>3. SubSeq(s, 1, i - 1) \in Seq(V) /\ s[i] \in V
    BY <1>1
  <2> HIDE DEF h
  <2>4. \A t \in Seq(V), x \in V : r \o Append(t, x) = Append(r \o t, x)
    OBVIOUS
  <2> QED
    BY <2>1, <2>2, <2>3, <2>4
<1> HIDE DEF h
<1> QED
  BY <1>1, <1>2, <1>3, <1>4 DEF Grows

\* What the properties are about is all that counts.
LEMMA SameAsRead ==
    ASSUME NEW c, NEW n, NEW r, NEW load, AsRead(c, r, load),
           Keeps(c, n, Tracked \ {"rule_files", "reloading"})
    PROVE  AsRead(n, r, load)
<1>1. \A f \in {"rules", "named_prots", "cache_clean", "cache_root", "caching_explicitly_off",
                "port", "HTDirMinFileLength", "HTDirMaxFileLength"} : n[f] = c[f]
  BY DEF Keeps, Tracked
<1>2. DOMAIN n = DOMAIN c
  BY DEF Keeps
<1>3. /\ n.rules = c.rules /\ n.named_prots = c.named_prots /\ n.cache_clean = c.cache_clean
      /\ n.cache_root = c.cache_root /\ n.caching_explicitly_off = c.caching_explicitly_off
      /\ n.port = c.port /\ n.HTDirMinFileLength = c.HTDirMinFileLength
      /\ n.HTDirMaxFileLength = c.HTDirMaxFileLength
  BY <1>1
<1>4. \A name : HTGetNamedProtection(n, name) = HTGetNamedProtection(c, name)
  BY <1>3 DEF HTGetNamedProtection
<1>5. Lasting(n, r)
  BY <1>2, <1>3, <1>4 DEF AsRead, Lasting
<1> QED
  BY <1>3, <1>5 DEF AsRead

\* The books of the loads.
Books(c) == c.rule_files \in Seq(RuleFile) /\ c.reloading \in BOOLEAN

\* A line keeps the files of rules and the mark of a reload.
LEMMA LineBooks ==
    ASSUME NEW c, NEW l, Books(c)
    PROVE  Books(Parse(c, l))
BY LineKeeps DEF Books, InCharge, Tracked

\* The configurations HTLoadConfig leaves behind each line, g[0] the first.
Parses(g, c, ls) ==
    /\ g[0] = c
    /\ \A i \in 1 .. Len(ls) : g[i] = Parse(g[i - 1], ls[i])
    /\ ReadLines(c, ls) = g[Len(ls)]

\* What ReadLines goes through.
LEMMA Parsing ==
    ASSUME NEW c, NEW ls, Len(ls) \in Nat
    PROVE  \E g : Parses(g, c, ls)
BY ReadLinesRuns, SMT DEF Parses

\* The configuration is as read behind one file more: HTLoadConfig.
LEMMA FileAsRead ==
    ASSUME NEW c, NEW r, NEW load \in Nat, NEW f \in RuleFile,
           lines \in [RuleFile -> Seq(UNION Line)], AsRead(c, r, load), Books(c)
    PROVE  LET n == HTLoadConfig(c, f) IN
           /\ AsRead(n, r \o LinesOf(f, load), load) /\ Books(n)
           /\ LinesOf(f, load) \in Seq(Reads)
           /\ \A i \in DOMAIN LinesOf(f, load) : LinesOf(f, load)[i].load = load
<1>1. r \in Seq(Reads)
  BY DEF AsRead, Lasting
<1>2. PICK m : m = Remember(c, f)
  OBVIOUS
<1>3. AsRead(m, r, load) /\ Books(m)
  <2>1. Tracked \subseteq DOMAIN c
    BY TrackedFields DEF AsRead, Lasting
  <2>2. m = c \/ m = Set(c, "rule_files", <<f>> \o c.rule_files)
    BY <1>2 DEF Remember, Set
  <2>3. CASE m = Set(c, "rule_files", <<f>> \o c.rule_files)
    <3>1. Keeps(c, m, Tracked \ {"rule_files", "reloading"})
      BY <2>3, SetKeeps
    <3>2. m.rule_files = <<f>> \o c.rule_files /\ m.reloading = c.reloading
      BY <2>1, <2>3 DEF Set, Tracked
    <3>3. m.rule_files \in Seq(RuleFile)
      BY <3>2 DEF Books
    <3> QED
      BY <3>1, <3>2, <3>3, SameAsRead DEF Books
  <2> QED
    BY <2>2, <2>3
<1>4. CASE f \notin readable
  <2>1. HTLoadConfig(c, f) = m /\ LinesOf(f, load) = <<>>
    BY <1>2, <1>4 DEF HTLoadConfig, LinesOf
  <2>2. r \o <<>> = r /\ <<>> \in Seq(Reads) /\ DOMAIN <<>> = {}
    BY <1>1
  <2> QED
    BY <1>3, <2>1, <2>2
<1>5. CASE f \in readable
  <2>1. PICK ls \in Seq(UNION Line) : ls = lines[f]
    OBVIOUS
  <2>2. PICK s : s = LinesOf(f, load)
    OBVIOUS
  <2>3. PICK k \in Nat : k = Len(ls)
    OBVIOUS
  <2>4. DOMAIN ls = 1 .. k
    BY <2>3
  <2>5. s = [i \in 1 .. k |-> [line |-> ls[i], load |-> load]]
    BY <1>5, <2>1, <2>2, <2>4 DEF LinesOf
  <2>6. \A i \in 1 .. k : s[i] \in Reads /\ s[i].line = ls[i] /\ s[i].load = load
    <3>1. \A i \in 1 .. k : ls[i] \in UNION Line
      BY <2>3
    <3> QED
      BY <2>5, <3>1 DEF Reads
  <2>7. s \in Seq(Reads) /\ Len(s) = k /\ DOMAIN s = 1 .. k
    <3>1. \A i \in 1 .. k : s[i] \in Reads
      BY <2>6
    <3> QED
      BY <2>5, <3>1
  <2>8. PICK h : /\ h[0] = r /\ h[Len(s)] = r \o s
                 /\ \A i \in 1 .. Len(s) : h[i] = Append(h[i - 1], s[i])
    <3>1. \E h : Grows(h, r, s)
      BY <1>1, <2>7, OneByOne
    <3> QED
      BY <3>1 DEF Grows
  <2>9. PICK g : /\ g[0] = m
                 /\ \A i \in 1 .. Len(ls) : g[i] = Parse(g[i - 1], ls[i])
                 /\ ReadLines(m, ls) = g[Len(ls)]
    <3>1. \E g : Parses(g, m, ls)
      BY <2>3, Parsing
    <3>2. PICK g : Parses(g, m, ls)
      BY <3>1
    <3> QED
      BY <3>2, Zenon DEF Parses
  <2>10. PICK T : T = {i \in 0 .. k : AsRead(g[i], h[i], load) /\ Books(g[i])}
    OBVIOUS
  <2>11. 0 \in T
    BY <1>3, <2>8, <2>9, <2>10
  <2>12. ASSUME NEW i \in 1 .. k, i - 1 \in T PROVE i \in T
    <3>1. PICK c1, r1 : c1 = g[i - 1] /\ r1 = h[i - 1]
      OBVIOUS
    <3>2. AsRead(c1, r1, load) /\ Books(c1)
      BY <2>10, <2>12, <3>1
    <3>3. PICK x \in Reads : x = s[i] /\ x.line = ls[i] /\ x.load = load
      BY <2>6
    <3>4. g[i] = Parse(c1, x.line) /\ h[i] = Append(r1, x)
      BY <2>3, <2>7, <2>8, <2>9, <3>1, <3>3
    <3>5. AsRead(Parse(c1, x.line), Append(r1, x), load)
      BY <3>2, <3>3, LineAsRead
    <3>6. Books(Parse(c1, x.line))
      BY <3>2, LineBooks
    <3>7. AsRead(g[i], h[i], load) /\ Books(g[i]) /\ i \in 0 .. k
      BY <3>4, <3>5, <3>6
    <3> QED
      BY <2>10, <3>7, Zenon
  <2>13. k \in T
    <3>1. \A i \in 0 .. k : i \in T
      BY <2>11, <2>12, UpTo, Zenon
    <3> QED
      BY <3>1
  <2>14. HTLoadConfig(c, f) = g[k]
    BY <1>2, <1>5, <2>1, <2>3, <2>9 DEF HTLoadConfig
  <2> QED
    BY <2>2, <2>6, <2>7, <2>8, <2>10, <2>13, <2>14
<1> QED
  BY <1>4, <1>5

\* The loop of LinesRead.
Gathers(g, r, files, load) ==
    /\ g[0] = r
    /\ \A i \in 1 .. Len(files) : g[i] = Behind(g[i - 1], files[i], load)
    /\ LinesRead(r, files, load) = g[Len(files)]

\* What LinesRead goes through.
LEMMA Gathering ==
    ASSUME NEW r, NEW files, NEW load, Len(files) \in Nat
    PROVE  \E g : Gathers(g, r, files, load)
BY LinesReadRuns, SMT DEF Gathers

\* The configurations a load leaves behind each of its files, g[0] the first.
Loads(g, c, files) ==
    /\ g[0] = c
    /\ \A i \in 1 .. Len(files) : g[i] = HTLoadConfig(g[i - 1], files[i])
    /\ LoadAll(c, files) = g[Len(files)]

\* What LoadAll goes through.
LEMMA Loading ==
    ASSUME NEW c, NEW files, Len(files) \in Nat
    PROVE  \E g : Loads(g, c, files)
BY LoadAllRuns, SMT DEF Loads

\* The configuration is as read behind all the files of a load.
LEMMA LoadAsRead ==
    ASSUME NEW c, NEW r, NEW load \in Nat, NEW files \in Seq(RuleFile),
           lines \in [RuleFile -> Seq(UNION Line)], AsRead(c, r, load), Books(c),
           \A i \in DOMAIN r : r[i].load <= load
    PROVE  LET n == LoadAll(c, files)
               q == LinesRead(r, files, load) IN
           /\ AsRead(n, q, load) /\ Books(n)
           /\ \A i \in DOMAIN q : q[i].load <= load
<1>1. PICK k \in Nat : k = Len(files)
  OBVIOUS
<1>2. PICK g : /\ g[0] = c
               /\ \A i \in 1 .. k : g[i] = HTLoadConfig(g[i - 1], files[i])
               /\ LoadAll(c, files) = g[k]
  <2>1. \E g : Loads(g, c, files)
    BY <1>1, Loading
  <2>2. PICK g : Loads(g, c, files)
    BY <2>1
  <2> QED
    BY <1>1, <2>2, Zenon DEF Loads
<1>3. PICK h : /\ h[0] = r
               /\ \A i \in 1 .. k : h[i] = h[i - 1] \o LinesOf(files[i], load)
               /\ LinesRead(r, files, load) = h[k]
  <2>1. Len(files) \in Nat
    BY <1>1
  <2>2. \E h : Gathers(h, r, files, load)
    BY <2>1, Gathering
  <2>3. PICK h : Gathers(h, r, files, load)
    BY <2>2
  <2> QED
    BY <1>1, <2>3, Zenon DEF Behind, Gathers
<1> DEFINE Upto(q) == \A i \in DOMAIN q : q[i].load <= load
<1>4. PICK T : T = {i \in 0 .. k : AsRead(g[i], h[i], load) /\ Books(g[i]) /\ Upto(h[i])}
  OBVIOUS
<1>5. 0 \in T
  BY <1>2, <1>3, <1>4
<1>6. ASSUME NEW i \in 1 .. k, i - 1 \in T PROVE i \in T
  <2>1. PICK c1, r1 : c1 = g[i - 1] /\ r1 = h[i - 1]
    OBVIOUS
  <2>2. AsRead(c1, r1, load) /\ Books(c1) /\ Upto(r1)
    BY <1>4, <1>6, <2>1
  <2>3. PICK f \in RuleFile : f = files[i]
    BY <1>1
  <2>4. PICK s : s = LinesOf(f, load)
    OBVIOUS
  <2>5. AsRead(HTLoadConfig(c1, f), r1 \o s, load) /\ Books(HTLoadConfig(c1, f))
    BY <2>2, <2>4, FileAsRead
  <2>6. s \in Seq(Reads) /\ \A j \in DOMAIN s : s[j].load = load
    BY <2>2, <2>4, FileAsRead
  <2>7. r1 \in Seq(Reads)
    BY <2>2 DEF AsRead, Lasting
  <2>8. Upto(r1 \o s)
    <3>1. PICK u : u = r1 \o s
      OBVIOUS
    <3>2. ASSUME NEW j \in DOMAIN u PROVE u[j].load <= load
      <4>1. j \in 1 .. Len(r1) + Len(s) /\ Len(r1) \in Nat /\ Len(s) \in Nat
        BY <2>6, <2>7, <3>1
      <4>2. CASE j <= Len(r1)
        <5>1. u[j] = r1[j] /\ j \in DOMAIN r1
          BY <2>6, <2>7, <3>1, <4>1, <4>2
        <5> QED
          BY <2>2, <5>1
      <4>3. CASE j > Len(r1)
        <5>1. u[j] = s[j - Len(r1)] /\ j - Len(r1) \in DOMAIN s
          BY <2>6, <2>7, <3>1, <4>1, <4>3
        <5> QED
          BY <2>6, <5>1
      <4> QED
        BY <4>1, <4>2, <4>3
    <3> QED
      BY <3>1, <3>2
  <2>9. g[i] = HTLoadConfig(c1, f) /\ h[i] = r1 \o s
    BY <1>2, <1>3, <2>1, <2>3, <2>4
  <2> HIDE DEF Upto
  <2>10. AsRead(g[i], h[i], load) /\ Books(g[i]) /\ Upto(h[i]) /\ i \in 0 .. k
    BY <2>5, <2>8, <2>9
  <2> QED
    BY <1>4, <2>10, Zenon
<1>7. k \in T
  <2>1. \A i \in 0 .. k : i \in T
    BY <1>5, <1>6, UpTo, Zenon
  <2> QED
    BY <2>1
<1> QED
  BY <1>2, <1>3, <1>4, <1>7

-----------------------------------------------------------------------------
(* The loads of a server.                                                  *)

\* The rules after a load: those of the lines, with the server's own before
\* and the exported directory behind them.
Framed(c, r, load, out) ==
    LET last == RulesRead(r, load)
        own == Len(c.rules) - Len(last) - IF load = 1 /\ out # "" THEN 1 ELSE 0 IN
    /\ own \in {0, 2}
    /\ \A i \in 1 .. own : c.rules[i].op = "Pass" /\ c.rules[i].eqv = c.server_root
    /\ \A i \in DOMAIN last : /\ c.rules[own + i].prot = last[i].prot
                              /\ c.rules[own + i].pat = last[i].pat

\* RulesAsRead, in terms of the configuration.
LEMMA RulesAreFramed == RulesAsRead <=> (loads > 0 => Framed(conf, read, loads, exported))
BY DEF RulesAsRead, Framed

\* The directory is exported by the first load alone.
Exports(c, n, load, out) ==
    \/ out = "" /\ n = c
    \/ out # "" /\ load = 1 /\ \E directory : n = HTAppendRule(c, Export(directory))

\* Lists of few.
LEMMA Few ==
    /\ List(<<>>) /\ Len(<<>>) = 0
    /\ \A x : List(<<x>>) /\ Len(<<x>>) = 1
    /\ \A x, y : /\ List(<<x, y>>) /\ Len(<<x, y>>) = 2
                 /\ <<x, y>>[1] = x /\ <<x, y>>[2] = y
<1>1. <<>> \in Seq({}) /\ Len(<<>>) = 0
  OBVIOUS
<1>2. ASSUME NEW x PROVE <<x>> \in Seq({x}) /\ Len(<<x>>) = 1
  OBVIOUS
<1>3. ASSUME NEW x, NEW y
      PROVE  /\ <<x, y>> \in Seq({x, y}) /\ Len(<<x, y>>) = 2
             /\ <<x, y>>[1] = x /\ <<x, y>>[2] = y
  OBVIOUS
<1> QED
  BY <1>1, <1>2, <1>3 DEF List

\* A list between two others.
LEMMA Between ==
    ASSUME NEW a, NEW b, NEW d, List(a), List(b), List(d)
    PROVE  LET u == a \o (b \o d) IN
           /\ Len(u) = Len(a) + Len(b) + Len(d)
           /\ \A i \in 1 .. Len(a) : u[i] = a[i]
           /\ \A i \in 1 .. Len(b) : u[Len(a) + i] = b[i]
<1>1. PICK A, B, D : a \in Seq(A) /\ b \in Seq(B) /\ d \in Seq(D)
  BY DEF List
<1>2. PICK Y : Y = A \cup B \cup D
  OBVIOUS
<1>3. a \in Seq(Y) /\ b \in Seq(Y) /\ d \in Seq(Y)
  BY <1>1, <1>2
<1>4. PICK n \in Nat, k \in Nat, l \in Nat : n = Len(a) /\ k = Len(b) /\ l = Len(d)
  BY <1>3
<1>5. b \o d \in Seq(Y)
  BY ONLY <1>3
<1>6. PICK t \in Seq(Y) : t = b \o d
  BY <1>5
<1>7. Len(t) = k + l /\ \A i \in 1 .. k : t[i] = b[i]
  BY <1>3, <1>4, <1>6
<1>8. a \o t \in Seq(Y)
  BY ONLY <1>3, t \in Seq(Y)
<1>9. PICK u : u = a \o t
  OBVIOUS
<1>10. Len(u) = n + Len(t)
  BY <1>3, <1>4, <1>9
<1>11. \A i \in 1 .. n : u[i] = a[i]
  BY <1>3, <1>4, <1>9
<1>12. \A j \in 1 .. Len(t) : u[n + j] = t[j]
  BY <1>3, <1>4, <1>9
<1>13. ASSUME NEW i \in 1 .. k PROVE u[n + i] = b[i]
  <2>1. i \in 1 .. Len(t)
    BY <1>7
  <2> QED
    BY <1>7, <1>12, <2>1
<1> QED
  BY <1>4, <1>6, <1>7, <1>9, <1>10, <1>11, <1>13

\* There is a server root.
LEMMA ServerRootSet == "server_root" \in Fields
<1>1. \A a, b, x : x \in DOMAIN a \/ x \in DOMAIN b => x \in DOMAIN (a ++ b)
  BY Zenon DEF ++
<1>2. "server_root" \in DOMAIN Unset(Strings)
  BY DEF Unset, Strings
<1> QED
  BY <1>1, <1>2 DEF Fields, Known, HTDefaultConfig

\* Icons before the rules and a directory behind them.
LEMMA Frames ==
    ASSUME NEW c, NEW r \in Seq(Reads), NEW load \in Nat, NEW out, DOMAIN c = Fields,
           RulesMatch(c.rules, r, load), NEW m, Exports(c, m, load, out)
    PROVE  Framed(InitIcons(m), r, load, out)
<1>1. PICK last : last = RulesRead(r, load)
  OBVIOUS
<1>2. PICK s : s = c.rules
  OBVIOUS
<1>3. PICK V : s \in Seq(V)
  BY <1>2 DEF RulesMatch, List
<1>4. PICK k \in Nat : k = Len(last) /\ Len(s) = k
  BY <1>1, <1>2, <1>3 DEF RulesMatch
<1>5. DOMAIN last = 1 .. k
  <2>1. \E n \in Nat : DOMAIN last = 1 .. n /\ Len(last) = n
    <3>1. PICK S : S = {i \in Of(r, RuleWords) : r[i].load = load}
      OBVIOUS
    <3>2. PICK these : these = InOrder(S, Len(r))
      OBVIOUS
    <3>3. Len(r) \in Nat
      OBVIOUS
    <3>4. these \in Seq(1 .. Len(r))
      BY <3>2, <3>3, InOrderMembers
    <3>5. \E e : last = [i \in DOMAIN these |-> e[i]]
      <4>1. PICK e : e = [i \in DOMAIN these |-> RuleRead(r, these[i])]
        OBVIOUS
      <4>2. last = e
        BY <1>1, <3>1, <3>2, <4>1 DEF RulesRead, RuleRead
      <4> QED
        BY <4>1, <4>2
    <3> QED
      BY <3>4, <3>5
  <2> QED
    BY <1>4, <2>1
<1>6. \A i \in 1 .. k : s[i].pat = last[i].pat /\ s[i].prot = last[i].prot
  BY <1>1, <1>2, <1>4 DEF RulesMatch
<1>7. "rules" \in DOMAIN c
  BY TrackedFields DEF Tracked
<1>8. PICK post : /\ List(post)
                  /\ out = "" => Len(post) = 0
                  /\ out # "" => Len(post) = 1
                  /\ m.rules = s \o post /\ DOMAIN m = DOMAIN c
  <2>1. CASE out = ""
    <3>1. PICK none : none = <<>> /\ List(none) /\ Len(none) = 0
      BY Few
    <3>2. s = s \o none
      BY <1>3, <3>1
    <3>3. m.rules = s \o none /\ DOMAIN m = DOMAIN c
      <4>1. m = c
        BY <2>1 DEF Exports
      <4> QED
        BY <1>2, <3>2, <4>1, Zenon
    <3> QED
      BY <2>1, <3>1, <3>3
  <2>2. CASE out # ""
    <3>1. PICK x : m = [c EXCEPT !.rules = Append(@, x)]
      BY <2>2 DEF Exports, HTAppendRule
    <3>2. m.rules = Append(s, x) /\ DOMAIN m = DOMAIN c
      BY <1>2, <1>7, <3>1
    <3>3. PICK one : one = <<x>> /\ List(one) /\ Len(one) = 1
      BY Few
    <3>4. Append(s, x) = s \o one
      BY <1>3, <3>3
    <3> QED
      BY <2>2, <3>2, <3>3, <3>4
  <2> QED
    BY <2>1, <2>2
<1>9. PICK q : q = InitIcons(m)
  OBVIOUS
<1>10. PICK pre :
           /\ List(pre) /\ Len(pre) \in {0, 2}
           /\ \A i \in 1 .. Len(pre) : pre[i].op = "Pass" /\ pre[i].eqv = q.server_root
           /\ q.rules = pre \o m.rules
  <2>1. CASE q = m
    <3>1. PICK none : none = <<>> /\ List(none) /\ Len(none) = 0
      BY Few
    <3>2. m.rules = none \o m.rules
      <4>1. PICK W : post \in Seq(W)
        BY <1>8 DEF List
      <4>2. PICK Y : Y = V \cup W
        OBVIOUS
      <4>3. s \in Seq(Y) /\ post \in Seq(Y)
        BY <1>3, <4>1, <4>2
      <4>4. s \o post = none \o (s \o post)
        BY <3>1, <4>3
      <4> QED
        BY <1>8, <4>4
    <3>3. \A i \in 1 .. 0 : FALSE
      OBVIOUS
    <3> QED
      BY <2>1, <3>1, <3>2, <3>3
  <2>2. CASE q # m
    <3>1. PICK icons : icons = IconRules(m)
      OBVIOUS
    <3>2. q = Set(m, "rules", icons \o m.rules)
      BY <1>9, <2>2, <3>1 DEF InitIcons, Set
    <3>3. q.rules = icons \o m.rules /\ q.server_root = m.server_root
      BY <1>7, <1>8, <3>2, ServerRootSet DEF Set
    <3>4. PICK y, z : /\ icons = <<>> \/ icons = <<y, z>>
                      /\ y.op = "Pass" /\ y.eqv = m.server_root
                      /\ z.op = "Pass" /\ z.eqv = m.server_root
      <4>1. PICK y, z : /\ y = NewRule("Pass", "icon URL", m.server_root)
                        /\ z = NewRule("Pass", "icons", m.server_root)
        OBVIOUS
      <4>2. icons = <<>> \/ icons = <<y, z>>
        BY <3>1, <4>1, Zenon DEF IconRules
      <4>3. y.op = "Pass" /\ y.eqv = m.server_root /\ z.op = "Pass" /\ z.eqv = m.server_root
        BY <4>1 DEF NewRule
      <4> QED
        BY <4>2, <4>3
    <3>5. CASE icons = <<>>
      <4>1. List(icons) /\ Len(icons) = 0
        BY <3>5, Few
      <4>2. \A i \in 1 .. 0 : FALSE
        OBVIOUS
      <4> QED
        BY <3>3, <4>1, <4>2
    <3>6. CASE icons = <<y, z>>
      <4>1. List(icons) /\ Len(icons) = 2 /\ icons[1] = y /\ icons[2] = z
        BY <3>6, Few
      <4>2. \A i \in 1 .. 2 : i = 1 \/ i = 2
        OBVIOUS
      <4>3. \A i \in 1 .. 2 : icons[i].op = "Pass" /\ icons[i].eqv = q.server_root
        BY <3>3, <3>4, <4>1, <4>2
      <4> QED
        BY <3>3, <4>1, <4>3
    <3> QED
      BY <3>4, <3>5, <3>6
  <2> QED
    BY <2>1, <2>2
<1>11. PICK p \in Nat : p \in {0, 2} /\ p = Len(pre)
  BY <1>10
<1>12. PICK e \in Nat : e = Len(post) /\ e = IF load = 1 /\ out # "" THEN 1 ELSE 0
  BY <1>8 DEF Exports
<1>13. PICK u : u = q.rules
  OBVIOUS
<1>14. /\ Len(u) = p + k + e
       /\ \A i \in 1 .. p : u[i] = pre[i]
       /\ \A i \in 1 .. k : u[p + i] = s[i]
  <2>1. List(s)
    BY <1>3 DEF List
  <2>2. u = pre \o (s \o post)
    BY <1>8, <1>10, <1>13
  <2>3. /\ Len(u) = Len(pre) + Len(s) + Len(post)
        /\ \A i \in 1 .. Len(pre) : u[i] = pre[i]
        /\ \A i \in 1 .. Len(s) : u[Len(pre) + i] = s[i]
    <3>1. List(pre) /\ List(post)
      BY <1>8, <1>10
    <3> QED
      BY ONLY <2>1, <2>2, <3>1, Between
  <2> QED
    BY <1>4, <1>11, <1>12, <2>3
<1>15. Len(u) - k - e = p
  BY <1>14
<1>16. \A i \in 1 .. p : u[i].op = "Pass" /\ u[i].eqv = q.server_root
  BY <1>10, <1>11, <1>14
<1>17. \A i \in 1 .. k : u[p + i].prot = last[i].prot /\ u[p + i].pat = last[i].pat
  BY <1>6, <1>14
<1>18. Len(q.rules) - Len(last) - (IF load = 1 /\ out # "" THEN 1 ELSE 0) = p
  BY <1>4, <1>12, <1>13, <1>15
<1> QED
  BY <1>1, <1>5, <1>9, <1>11, <1>13, <1>16, <1>17, <1>18 DEF Framed

\* The rules are no matter of what lasts.
LEMMA RulesApart ==
    ASSUME NEW c, NEW n, NEW r, Lasting(c, r), Books(c),
           Keeps(c, n, Tracked \ {"rules"})
    PROVE  Lasting(n, r) /\ Books(n) /\ n.port = c.port
<1>1. DOMAIN n = DOMAIN c
  BY DEF Keeps
<1>2. /\ n.named_prots = c.named_prots /\ n.cache_clean = c.cache_clean
      /\ n.cache_root = c.cache_root /\ n.caching_explicitly_off = c.caching_explicitly_off
      /\ n.port = c.port /\ n.HTDirMinFileLength = c.HTDirMinFileLength
      /\ n.HTDirMaxFileLength = c.HTDirMaxFileLength
      /\ n.rule_files = c.rule_files /\ n.reloading = c.reloading
  BY DEF Keeps, Tracked
<1>3. \A name : HTGetNamedProtection(n, name) = HTGetNamedProtection(c, name)
  BY <1>2 DEF HTGetNamedProtection
<1> QED
  BY <1>1, <1>2, <1>3 DEF Lasting, Books

\* Icons, the exported directory and clear_rules change the rules and none of the other
\* settings of the properties.
LEMMA OutsideRules ==
    ASSUME NEW c, NEW rule
    PROVE  /\ Keeps(c, HTAppendRule(c, rule), Tracked \ {"rules"})
           /\ Keeps(c, InitIcons(c), Tracked \ {"rules"})
           /\ Keeps(c, clear_rules(c), Tracked \ {"rules"})
<1>1. \A value : Keeps(c, Set(c, "rules", value), Tracked \ {"rules"})
  BY SetKeeps
<1>2. HTAppendRule(c, rule) = Set(c, "rules", Append(c.rules, rule))
  BY DEF HTAppendRule, Set
<1>3. InitIcons(c) = c \/ InitIcons(c) = Set(c, "rules", IconRules(c) \o c.rules)
  BY DEF InitIcons, Set
<1>4. clear_rules(c) = Set(c, "rules", <<>>)
  BY DEF clear_rules
<1>5. Keeps(c, c, Tracked \ {"rules"})
  BY DEF Keeps
<1> QED
  BY <1>1, <1>2, <1>3, <1>4, <1>5

-----------------------------------------------------------------------------
(* The invariant.                                                          *)

ConfigurationInductive ==
    /\ lines \in [RuleFile -> Seq(UNION Line)] /\ options \in Options
    /\ loads \in Nat
    /\ Lasting(conf, read) /\ Books(conf)
    /\ \A i \in DOMAIN read : read[i].load <= loads
    /\ loads = 0 => conf = Known /\ read = <<>>
    /\ loads > 0 => conf.port = PortRead(read) /\ Framed(conf, read, loads, exported)

\* The settings of the properties before any file.
LEMMA KnownSettings ==
    /\ Known.named_prots = <<>> /\ Known.cache_clean = <<>> /\ Known.rules = <<>>
    /\ Known.rule_files = <<>> /\ Known.cache_root = ""
    /\ Known.caching_explicitly_off = FALSE /\ Known.reloading = FALSE
    /\ Known.HTDirMinFileLength = 15 /\ Known.HTDirMaxFileLength = 22
<1>1. \A f, g, x : x \in DOMAIN f => (f ++ g)[x] = f[x]
  BY Zenon DEF ++
<1>2. \A f, g, x : x \notin DOMAIN f /\ x \in DOMAIN g => (f ++ g)[x] = g[x]
  <2>1. \A f, g, x : x \in DOMAIN g => x \in DOMAIN f \cup DOMAIN g
    OBVIOUS
  <2> QED
    BY <2>1, Zenon DEF ++
<1>3. \A f, g, x : x \in DOMAIN f \/ x \in DOMAIN g <=> x \in DOMAIN (f ++ g)
  BY InJoin
<1>4. PICK D, S, L, N : /\ D = Defaults /\ S = Unset(Strings) /\ L = EmptyLists(Lists)
                        /\ N = No({"do_rfc931", "do_linger", "do_setuid", "use_gmt", "gc_disabled",
                                   "keep_expired", "cache_no_connect", "caching_explicitly_off",
                                   "icons_inited", "reloading"})
  OBVIOUS
<1>5. HTDefaultConfig = D ++ S ++ L ++ N /\ Known = HTDefaultConfig ++ Library
  BY <1>4, Zenon DEF HTDefaultConfig, Known
<1>6. /\ "cache_root" \in DOMAIN S /\ S["cache_root"] = ""
      /\ \A f \in {"named_prots", "cache_clean", "rules", "rule_files"} :
            f \in DOMAIN L /\ L[f] = <<>> /\ f \notin DOMAIN S
      /\ \A f \in {"caching_explicitly_off", "reloading"} :
            f \in DOMAIN N /\ N[f] = FALSE /\ f \notin DOMAIN S /\ f \notin DOMAIN L
      /\ \A f \in {"HTDirMinFileLength", "HTDirMaxFileLength"} :
            f \notin DOMAIN N /\ f \notin DOMAIN S /\ f \notin DOMAIN L
  <2>1. DOMAIN S = Strings /\ \A f \in Strings : S[f] = ""
    BY <1>4 DEF Unset
  <2>2. DOMAIN L = Lists /\ \A f \in Lists : L[f] = <<>>
    BY <1>4 DEF EmptyLists
  <2>3. PICK names : /\ names = {"do_rfc931", "do_linger", "do_setuid", "use_gmt", "gc_disabled",
                                 "keep_expired", "cache_no_connect", "caching_explicitly_off",
                                 "icons_inited", "reloading"}
                     /\ DOMAIN N = names /\ \A f \in names : N[f] = FALSE
    BY <1>4 DEF No
  <2> QED
    BY <2>1, <2>2, <2>3 DEF Strings, Lists
<1>7. \A f \in {"named_prots", "cache_clean", "rules", "rule_files", "cache_root",
                "caching_explicitly_off", "reloading", "HTDirMinFileLength", "HTDirMaxFileLength"} :
          f \notin DOMAIN D
  BY <1>4 DEF Defaults
<1>8. /\ "HTDirMinFileLength" \in DOMAIN Library /\ "HTDirMaxFileLength" \in DOMAIN Library
      /\ Library["HTDirMinFileLength"] = 15 /\ Library["HTDirMaxFileLength"] = 22
  BY DEF Library
<1>9. Known["cache_root"] = ""
  <2>1. "cache_root" \in DOMAIN S /\ S["cache_root"] = "" /\ "cache_root" \notin DOMAIN D
    BY <1>6, <1>7
  <2>2. PICK E : E = D ++ S
    OBVIOUS
  <2>3. "cache_root" \in DOMAIN E /\ E["cache_root"] = ""
    BY <2>1, <2>2 DEF ++
  <2>4. PICK F : F = E ++ L
    OBVIOUS
  <2>5. "cache_root" \in DOMAIN F /\ F["cache_root"] = ""
    BY <2>3, <2>4 DEF ++
  <2>6. PICK G : G = F ++ N
    OBVIOUS
  <2>7. "cache_root" \in DOMAIN G /\ G["cache_root"] = ""
    BY <2>5, <2>6 DEF ++
  <2>8. Known = G ++ Library
    BY <1>5, <2>2, <2>4, <2>6
  <2> QED
    BY <2>7, <2>8 DEF ++
<1>10. \A f \in {"named_prots", "cache_clean", "rules", "rule_files"} : Known[f] = <<>>
  <2> TAKE f \in {"named_prots", "cache_clean", "rules", "rule_files"}
  <2>1. f \in DOMAIN L /\ L[f] = <<>> /\ f \notin DOMAIN S /\ f \notin DOMAIN D
    BY <1>6, <1>7
  <2> QED
    BY <1>1, <1>2, <1>3, <1>5, <2>1
<1>11. \A f \in {"caching_explicitly_off", "reloading"} : Known[f] = FALSE
  <2> TAKE f \in {"caching_explicitly_off", "reloading"}
  <2>1. /\ f \in DOMAIN N /\ N[f] = FALSE
        /\ f \notin DOMAIN S /\ f \notin DOMAIN L /\ f \notin DOMAIN D
    BY <1>6, <1>7
  <2> QED
    BY <1>1, <1>2, <1>3, <1>5, <2>1
<1>12. \A f \in {"HTDirMinFileLength", "HTDirMaxFileLength"} : Known[f] = Library[f]
  <2> TAKE f \in {"HTDirMinFileLength", "HTDirMaxFileLength"}
  <2>1. /\ f \notin DOMAIN N /\ f \in DOMAIN Library
        /\ f \notin DOMAIN S /\ f \notin DOMAIN L /\ f \notin DOMAIN D
    BY <1>6, <1>7, <1>8
  <2> QED
    BY <1>1, <1>2, <1>3, <1>5, <2>1
<1> QED
  BY <1>8, <1>9, <1>10, <1>11, <1>12

\* Before any file, nothing has been read.
LEMMA KnownAsRead ==
    ASSUME options \in Options
    PROVE  /\ Lasting(Known, <<>>) /\ Books(Known)
           /\ AsRead(Set(Known, "port", options.port), <<>>, 1)
           /\ Books(Set(Known, "port", options.port))
<1>1. PICK r \in Seq(Reads) : r = <<>> /\ DOMAIN r = {} /\ Len(r) = 0
  <2>1. <<>> \in Seq(Reads)
    OBVIOUS
  <2>2. DOMAIN <<>> = {} /\ Len(<<>>) = 0
    OBVIOUS
  <2> QED
    BY <2>1, <2>2
<1>2. PICK k : k = Known /\ DOMAIN k = Fields
  BY DEF Fields
<1>3. /\ k.named_prots = <<>> /\ k.cache_clean = <<>> /\ k.rules = <<>>
      /\ k.rule_files = <<>> /\ k.cache_root = ""
      /\ k.caching_explicitly_off = FALSE /\ k.reloading = FALSE
      /\ k.HTDirMinFileLength = 15 /\ k.HTDirMaxFileLength = 22
  BY <1>2, KnownSettings
<1>4. List(k.named_prots) /\ List(k.rules)
  BY <1>3, Few
<1>5. \A name : HTGetNamedProtection(k, name) = "" /\ SetupRead(r, name) = ""
  BY <1>1, <1>3 DEF HTGetNamedProtection, SetupRead, Definitions
<1>6. \A directives : Of(r, directives) = {}
  BY <1>1 DEF Of
<1>7. \A S : InOrder(S, 0) = <<>>
  BY InOrderMembers
<1>8. TemplatesRead(r) = <<>>
  BY <1>1, <1>7 DEF TemplatesRead
<1>9. RootRead(r) = ""
  <2>1. Of(r, {"cacheroot"}) = {}
    BY <1>6
  <2>2. Roots(r) = {}
    BY <2>1 DEF Roots
  <2> QED
    BY <2>2 DEF RootRead
<1>10. ~OffNow(r)
  <2>1. Of(r, {"caching"}) = {}
    BY <1>6
  <2>2. Off(r) = {}
    BY <2>1 DEF Off
  <2> QED
    BY <2>2 DEF OffNow, OffAt
<1>11. Lasting(k, r)
  <2>1. k.caching_explicitly_off \in BOOLEAN /\ (k.caching_explicitly_off <=> OffNow(r))
    BY <1>3, <1>10
  <2>2. k.HTDirMinFileLength \in Int /\ k.HTDirMaxFileLength \in Int
        /\ k.HTDirMinFileLength <= k.HTDirMaxFileLength
    <3>1. k.HTDirMinFileLength = 15 /\ k.HTDirMaxFileLength = 22
      BY <1>3
    <3> QED
      BY ONLY <3>1
  <2>3. k.cache_clean = TemplatesRead(r) /\ k.cache_root = RootRead(r)
    BY <1>3, <1>8, <1>9
  <2>4. \A name : HTGetNamedProtection(k, name) = SetupRead(r, name)
    BY <1>5
  <2> QED
    BY <1>1, <1>2, <1>4, <2>1, <2>2, <2>3, <2>4 DEF Lasting
<1>12. Books(k)
  <2>1. <<>> \in Seq(RuleFile)
    OBVIOUS
  <2> QED
    BY <1>3, <2>1 DEF Books
<1>13. RulesMatch(k.rules, r, 1)
  <2>1. RulesRead(r, 1) = <<>>
    <3>1. \A i \in 1 .. Len(r) : FALSE
      BY <1>1
    <3> QED
      BY <1>1, <3>1, RulesReadNone
  <2> QED
    BY <1>3, <1>4, <2>1 DEF RulesMatch
<1>14. PICK m : m = Set(k, "port", options.port)
  OBVIOUS
<1>15. /\ Keeps(k, m, Tracked \ {"port"}) /\ m.port = options.port
  <2>1. "port" \in DOMAIN k
    BY <1>2, TrackedFields DEF Tracked
  <2> QED
    BY <1>14, <2>1, SetKeeps, SetSets
<1>16. PortRead(r) = options.port
  BY <1>6 DEF PortRead, Ports
<1>17. AsRead(Set(k, "port", options.port), r, 1) /\ Books(m)
  <2>1. DOMAIN m = DOMAIN k
    BY <1>15 DEF Keeps
  <2>2. /\ m.rules = k.rules /\ m.named_prots = k.named_prots /\ m.cache_clean = k.cache_clean
        /\ m.cache_root = k.cache_root /\ m.caching_explicitly_off = k.caching_explicitly_off
        /\ m.HTDirMinFileLength = k.HTDirMinFileLength
        /\ m.HTDirMaxFileLength = k.HTDirMaxFileLength
        /\ m.rule_files = k.rule_files /\ m.reloading = k.reloading
    BY <1>15 DEF Keeps, Tracked
  <2>3. \A name : HTGetNamedProtection(m, name) = HTGetNamedProtection(k, name)
    BY <2>2 DEF HTGetNamedProtection
  <2>4. Lasting(m, r)
    BY <1>11, <2>1, <2>2, <2>3 DEF Lasting
  <2> QED
    BY <1>12, <1>13, <1>14, <1>15, <1>16, <2>2, <2>4 DEF AsRead, Books
<1> QED
  BY <1>1, <1>2, <1>11, <1>12, <1>14, <1>17

\* A load, from what lasts.
Until(r, load) == \A i \in DOMAIN r : r[i].load <= load

Loaded(c, r, load, out) ==
    /\ Lasting(c, r) /\ Books(c) /\ c.port = PortRead(r)
    /\ Framed(c, r, load, out) /\ Until(r, load)

\* A load, and what is put behind it and before it.
LEMMA LoadInductive ==
    ASSUME NEW c, NEW r, NEW load \in Nat, NEW files \in Seq(RuleFile), NEW out,
           lines \in [RuleFile -> Seq(UNION Line)],
           AsRead(c, r, load), Books(c), Until(r, load),
           NEW m, Exports(LoadAll(c, files), m, load, out)
    PROVE  Loaded(InitIcons(m), LinesRead(r, files, load), load, out)
<1>1. PICK l, q : l = LoadAll(c, files) /\ q = LinesRead(r, files, load)
  OBVIOUS
<1>2. AsRead(l, q, load) /\ Books(l) /\ \A i \in DOMAIN q : q[i].load <= load
  BY <1>1, LoadAsRead DEF Until
<1>3. Lasting(l, q) /\ RulesMatch(l.rules, q, load) /\ l.port = PortRead(q)
  BY <1>2 DEF AsRead
<1>4. q \in Seq(Reads) /\ DOMAIN l = Fields
  BY <1>3 DEF Lasting
<1>5. Framed(InitIcons(m), q, load, out)
  BY <1>1, <1>3, <1>4, Frames
<1>6. Lasting(m, q) /\ Books(m) /\ m.port = l.port
  <2>1. m = l \/ \E rule : m = HTAppendRule(l, rule)
    BY <1>1 DEF Exports
  <2>2. CASE \E rule : m = HTAppendRule(l, rule)
    <3>1. Keeps(l, m, Tracked \ {"rules"})
      BY <2>2, OutsideRules
    <3> QED
      BY <1>2, <1>3, <3>1, RulesApart
  <2> QED
    BY <1>2, <1>3, <2>1, <2>2
<1>7. Lasting(InitIcons(m), q) /\ Books(InitIcons(m)) /\ InitIcons(m).port = m.port
  <2>1. Keeps(m, InitIcons(m), Tracked \ {"rules"})
    BY OutsideRules
  <2> QED
    BY <1>6, <2>1, RulesApart
<1> QED
  BY <1>1, <1>2, <1>3, <1>5, <1>6, <1>7 DEF Loaded, Until

\* The invariant holds before the start.
LEMMA ConfigurationInit0 == ConfigurationInit => ConfigurationInductive
<1> SUFFICES ASSUME ConfigurationInit PROVE ConfigurationInductive
  OBVIOUS
<1>1. /\ lines = [f \in RuleFile |-> <<>>] /\ options \in Options
      /\ conf = Known /\ read = <<>> /\ loads = 0
  BY DEF ConfigurationInit
<1>2. lines \in [RuleFile -> Seq(UNION Line)]
  BY <1>1
<1>3. \A i \in DOMAIN read : read[i].load <= loads
  <2>1. DOMAIN <<>> = {}
    OBVIOUS
  <2> QED
    BY <1>1, <2>1
<1>4. Lasting(conf, read) /\ Books(conf)
  BY <1>1, KnownAsRead
<1>5. loads \in Nat /\ ~ (loads > 0)
  BY <1>1
<1> QED
  BY <1>1, <1>2, <1>3, <1>4, <1>5 DEF ConfigurationInductive

\* The start: the files of the command line, and the directory without them.
LEMMA StartInductive == ConfigurationInductive /\ Start => ConfigurationInductive'
<1> SUFFICES ASSUME ConfigurationInductive, Start PROVE ConfigurationInductive'
  OBVIOUS
<1>1. /\ lines \in [RuleFile -> Seq(UNION Line)] /\ options \in Options
      /\ conf = Known /\ read = <<>>
  BY DEF ConfigurationInductive, Start
<1>2. /\ conf' = Started(Known) /\ read' = LinesRead(<<>>, FilesAtStart, 1)
      /\ loads' = 1 /\ exported' = ToExport
      /\ lines' = lines /\ options' = options
  BY <1>1 DEF Start
<1>3. FilesAtStart \in Seq(RuleFile)
  <2>1. options.r \in Seq(RuleFile) /\ RULE_FILE \in RuleFile
    BY <1>1, OptionsAssumption
  <2>2. <<RULE_FILE>> \in Seq(RuleFile) /\ <<>> \in Seq(RuleFile)
    BY <2>1
  <2> QED
    BY <2>1, <2>2 DEF FilesAtStart
<1>4. PICK c : c = Set(Known, "port", options.port)
  OBVIOUS
<1>5. AsRead(c, <<>>, 1) /\ Books(c)
  BY <1>1, <1>4, KnownAsRead
<1>6. \A i \in DOMAIN <<>> : <<>>[i].load <= 1
  <2>1. DOMAIN <<>> = {}
    OBVIOUS
  <2> QED
    BY <2>1
<1>7. PICK l : l = LoadAll(c, FilesAtStart)
  OBVIOUS
<1>8. PICK m : m = IF ToExport = "" THEN l ELSE HTAppendRule(l, Export(ToExport))
  OBVIOUS
<1>9. Started(Known) = InitIcons(m)
  BY <1>4, <1>7, <1>8, Zenon DEF Started
<1>10. Exports(l, m, 1, ToExport)
  BY <1>8 DEF Exports
<1>11. PICK q : q = LinesRead(<<>>, FilesAtStart, 1)
  OBVIOUS
<1>12. PICK n : n = InitIcons(m)
  OBVIOUS
<1>13. /\ Lasting(n, q) /\ Books(n) /\ n.port = PortRead(q)
       /\ Framed(n, q, 1, ToExport)
       /\ \A i \in DOMAIN q : q[i].load <= 1
  <2>1. PICK load \in Nat : load = 1
    OBVIOUS
  <2>2. Until(<<>>, load)
    BY <1>6, <2>1 DEF Until
  <2>3. Exports(LoadAll(c, FilesAtStart), m, load, ToExport)
    BY <1>7, <1>10, <2>1
  <2>4. AsRead(c, <<>>, load)
    BY <1>5, <2>1
  <2>5. Loaded(InitIcons(m), LinesRead(<<>>, FilesAtStart, load), load, ToExport)
    BY <1>1, <1>3, <1>5, <2>2, <2>3, <2>4, LoadInductive
  <2> QED
    BY <1>11, <1>12, <2>1, <2>5 DEF Loaded, Until
<1>14. conf' = n /\ read' = q
  BY <1>2, <1>9, <1>11, <1>12
<1>15. PortRead(q)' = PortRead(q)
  BY <1>2 DEF PortRead
<1>16. /\ Lasting(conf, read)' /\ Books(conf)' /\ (conf.port = PortRead(read))'
       /\ Framed(conf, read, loads, exported)'
       /\ (\A i \in DOMAIN read : read[i].load <= loads)'
  BY <1>2, <1>13, <1>14, <1>15 DEF PortRead
<1>17. loads' \in Nat /\ loads' # 0
  BY <1>2
<1> QED
  BY <1>1, <1>2, <1>16, <1>17 DEF ConfigurationInductive

\* A reload: the files again, with the rules cleared.
LEMMA ReloadInductive == ConfigurationInductive /\ sig_hup => ConfigurationInductive'
<1> SUFFICES ASSUME ConfigurationInductive, sig_hup PROVE ConfigurationInductive'
  OBVIOUS
<1>1. /\ lines \in [RuleFile -> Seq(UNION Line)] /\ options \in Options
      /\ Lasting(conf, read) /\ Books(conf)
      /\ \A i \in DOMAIN read : read[i].load <= loads
      /\ loads \in Nat /\ loads > 0 /\ conf.port = PortRead(read)
  BY DEF ConfigurationInductive, sig_hup
<1>2. /\ conf' = Reloaded(conf) /\ read' = LinesRead(read, conf.rule_files, loads + 1)
      /\ loads' = loads + 1 /\ exported' = exported
      /\ lines' = lines /\ options' = options
  BY DEF sig_hup
<1>3. PICK c : c = clear_rules(conf)
  OBVIOUS
<1>4. PICK d : d = Set(c, "reloading", TRUE)
  OBVIOUS
<1>5. PICK load \in Nat : load = loads + 1 /\ load # 1
  BY <1>1
<1>6. conf.rule_files \in Seq(RuleFile) /\ read \in Seq(Reads)
  BY <1>1 DEF Books, Lasting
<1>7. DOMAIN conf = Fields /\ {"rules", "reloading"} \subseteq Fields
  BY <1>1, TrackedFields DEF Lasting, Tracked
<1>8. AsRead(c, read, load) /\ Books(c)
  <2>1. Keeps(conf, c, Tracked \ {"rules"})
    BY <1>3, OutsideRules
  <2>2. Lasting(c, read) /\ Books(c) /\ c.port = conf.port
    BY <1>1, <2>1, RulesApart
  <2>3. RulesMatch(c.rules, read, load)
    <3>1. RulesRead(read, load) = <<>>
      <4>1. \A i \in 1 .. Len(read) : read[i].load # load
        <5>1. ASSUME NEW i \in 1 .. Len(read) PROVE read[i].load # load
          <6>1. read[i] \in Reads /\ i \in DOMAIN read
            BY <1>6
          <6>2. PICK x \in Nat : x = read[i].load
            BY <6>1 DEF Reads
          <6>3. x <= loads
            BY <1>1, <6>1, <6>2
          <6> QED
            BY <1>1, <1>5, <6>2, <6>3
        <5> QED
          BY <5>1
      <4> QED
        BY <1>6, <4>1, RulesReadNone
    <3>2. c.rules = <<>>
      BY <1>3, <1>7 DEF clear_rules, Set
    <3>3. PICK none : none = <<>> /\ List(none) /\ Len(none) = 0
      BY Few
    <3>4. \A i \in 1 .. 0 : FALSE
      OBVIOUS
    <3> QED
      BY <3>1, <3>2, <3>3, <3>4 DEF RulesMatch
  <2> QED
    BY <1>1, <2>2, <2>3 DEF AsRead
<1>9. AsRead(d, read, load) /\ Books(d)
  <2>1. Keeps(c, d, Tracked \ {"rule_files", "reloading"})
    BY <1>4, SetKeeps
  <2>2. Keeps(c, d, {"rule_files"})
    BY <1>4, SetKeeps
  <2>3. "reloading" \in DOMAIN c
    BY <1>7, <1>8 DEF AsRead, Lasting
  <2>4. d.rule_files = c.rule_files /\ d.reloading = TRUE
    BY <1>4, <2>2, <2>3, SetSets DEF Keeps
  <2> QED
    BY <1>8, <2>1, <2>4, SameAsRead DEF Books
<1>10. \A i \in DOMAIN read : read[i].load <= load
  <2>1. ASSUME NEW i \in DOMAIN read PROVE read[i].load <= load
    <3>1. read[i] \in Reads
      BY <1>6
    <3>2. PICK x \in Nat : x = read[i].load
      BY <3>1 DEF Reads
    <3>3. x <= loads
      BY <1>1, <3>2
    <3> QED
      BY <1>1, <1>5, <3>2, <3>3
  <2> QED
    BY <2>1
<1>11. PICK files \in Seq(RuleFile) : files = conf.rule_files
  BY <1>6
<1>12. PICK m : m = LoadAll(d, files)
  OBVIOUS
<1>13. Exports(LoadAll(d, files), m, load, "")
  BY <1>12 DEF Exports
<1>14. PICK q : q = LinesRead(read, files, load)
  OBVIOUS
<1>15. PICK n : n = InitIcons(m)
  OBVIOUS
<1>16. /\ Lasting(n, q) /\ Books(n) /\ n.port = PortRead(q)
       /\ Framed(n, q, load, "")
       /\ \A i \in DOMAIN q : q[i].load <= load
  <2>1. Until(read, load)
    BY <1>10 DEF Until
  <2>2. Loaded(InitIcons(m), LinesRead(read, files, load), load, "")
    BY <1>1, <1>9, <1>13, <2>1, LoadInductive
  <2> QED
    BY <1>14, <1>15, <2>2 DEF Loaded, Until
<1>17. conf' = n /\ read' = q /\ loads' = load
  <2>1. Reloaded(conf) = n
    BY <1>3, <1>4, <1>11, <1>12, <1>15 DEF Reloaded, reload_config
  <2> QED
    BY <1>2, <1>5, <1>11, <1>14, <2>1
<1>18. Framed(n, q, load, exported)
  BY <1>5, <1>16 DEF Framed
<1>19. PortRead(q)' = PortRead(q)
  BY <1>2 DEF PortRead
<1>20. /\ Lasting(conf, read)' /\ Books(conf)' /\ (conf.port = PortRead(read))'
       /\ Framed(conf, read, loads, exported)'
       /\ (\A i \in DOMAIN read : read[i].load <= loads)'
  BY <1>2, <1>16, <1>17, <1>18, <1>19 DEF PortRead
<1>21. loads' \in Nat /\ loads' # 0
  BY <1>1, <1>5, <1>17
<1> QED
  BY <1>1, <1>2, <1>20, <1>21 DEF ConfigurationInductive

\* The rules in force, the templates of the cache, its root, the port and the
\* lengths of names are those that the lines say which were read, by any number of
\* loads, whatever the files have in them and however they are edited.
THEOREM ConfigurationIsAsRead ==
    ConfigurationSpec => [](/\ RulesAsRead /\ TemplatesAsRead /\ CacheAsRead
                            /\ PortAsRead /\ LengthsInOrder)
<1>1. ASSUME ConfigurationInductive, [ConfigurationNext]_configurationVars
      PROVE  ConfigurationInductive'
  <2>1. ASSUME NEW f \in RuleFile, NEW topic \in Topics, NEW l \in topic, WriteLine(f, l)
        PROVE  ConfigurationInductive'
    <3>1. lines' = [lines EXCEPT ![f] = Append(@, l)] /\ lines \in [RuleFile -> Seq(UNION Line)]
      BY <1>1, <2>1 DEF WriteLine, ConfigurationInductive
    <3>2. l \in UNION Line
      BY <2>1 DEF Topics
    <3>3. Append(lines[f], l) \in Seq(UNION Line)
      BY <3>1, <3>2
    <3>4. lines' \in [RuleFile -> Seq(UNION Line)]
      BY <3>1, <3>3
    <3>5. UNCHANGED <<conf, read, loads, exported, options>>
      BY <2>1 DEF WriteLine
    <3> QED
      BY <1>1, <3>4, <3>5 DEF ConfigurationInductive, PortRead
  <2>2. CASE Start
    BY <1>1, <2>2, StartInductive
  <2>3. ASSUME NEW f \in RuleFile, Edit(f) PROVE ConfigurationInductive'
    <3>1. lines \in [RuleFile -> Seq(UNION Line)]
      BY <1>1 DEF ConfigurationInductive
    <3>2. lines' \in [RuleFile -> Seq(UNION Line)]
      <4>1. CASE lines' = lines
        BY <3>1, <4>1
      <4>2. CASE lines[f] # <<>> /\ lines' = [lines EXCEPT ![f] = Front(@)]
        <5>1. lines[f] \in Seq(UNION Line) /\ lines[f] # <<>>
          BY <3>1, <4>2
        <5>2. Front(lines[f]) \in Seq(UNION Line)
          BY <5>1 DEF Front
        <5> QED
          BY <3>1, <4>2, <5>2
      <4> QED
        BY <2>3, <4>1, <4>2 DEF Edit
    <3>3. UNCHANGED <<conf, read, loads, exported, options>>
      BY <2>3 DEF Edit
    <3> QED
      BY <1>1, <3>2, <3>3 DEF ConfigurationInductive, PortRead
  <2>4. CASE sig_hup
    BY <1>1, <2>4, ReloadInductive
  <2>5. CASE UNCHANGED configurationVars
    BY <1>1, <2>5 DEF configurationVars, ConfigurationInductive, PortRead
  <2> QED
    BY <1>1, <2>1, <2>2, <2>3, <2>4, <2>5 DEF ConfigurationNext
<1>2. ConfigurationInductive => /\ RulesAsRead /\ TemplatesAsRead /\ CacheAsRead
                                /\ PortAsRead /\ LengthsInOrder
  BY RulesAreFramed DEF ConfigurationInductive, Lasting, TemplatesAsRead, CacheAsRead, PortAsRead,
     LengthsInOrder
<1> QED
  BY <1>1, <1>2, ConfigurationInit0, PTL DEF ConfigurationSpec

-----------------------------------------------------------------------------
(* Times that are printed and read.                                        *)

\* What a reader of a time knows: at the start, and behind the first round.
Before(s) == [s |-> s, first |-> TRUE, state |-> 1, t |-> 0, ok |-> TRUE]
Later(s, state, t) == [s |-> s, first |-> FALSE, state |-> state, t |-> t, ok |-> TRUE]
IsAt(st, s, state, t) == st.s = s /\ st.state = state /\ st.t = t /\ st.ok = TRUE

Round(st, next) == TimeRead(st, 1) = next
Token(k, n) == [k |-> k, n |-> n]

\* The state in which parse_time begins.
LEMMA BeforeIsAt == ASSUME NEW s PROVE IsAt(Before(s), s, 1, 0)
BY DEF Before, IsAt

\* The state behind a first round.
LEMMA LaterIsAt == ASSUME NEW s, NEW state, NEW t PROVE IsAt(Later(s, state, t), s, state, t)
BY DEF Later, IsAt

\* A text with a number, a token and the rest.
Single(n) == <<Token("number", n)>>
Pair(n, k, u, r) == <<Token("number", n), Token(k, u)>> \o r
Starts(s, n, y, r) ==
    /\ s # <<>> /\ Number(s) = n /\ AfterNumber(s) = Tail(s)
    /\ Tail(s) # <<>> /\ Tail(s)[1] = y /\ Tail(Tail(s)) = r

\* A number and the token behind it are read in one round.
LEMMA TwoTokens ==
    ASSUME NEW V, NEW r \in Seq(V), NEW n, NEW y
    PROVE  Starts(<<Token("number", n), y>> \o r, n, y, r)
<1>1. PICK x : x = Token("number", n)
  OBVIOUS
<1>2. x.k = "number" /\ x.n = n
  BY <1>1 DEF Token
<1>3. PICK W : W = V \cup {x, y}
  OBVIOUS
<1>4. r \in Seq(W) /\ x \in W /\ y \in W
  BY <1>3
<1>5. PICK s : s = <<x, y>> \o r
  OBVIOUS
<1>6. Len(<<>>) = 0
  OBVIOUS
<1>7. s \in Seq(W) /\ Len(s) = Len(r) + 2 /\ s[1] = x /\ s[2] = y /\ Len(r) \in Nat
  BY <1>4, <1>5
<1>8. Tail(s) \in Seq(W) /\ Len(Tail(s)) = Len(r) + 1 /\ Tail(s)[1] = y
  BY <1>7
<1>9. Tail(Tail(s)) = r
  BY <1>4, <1>5
<1>10. Len(s) # 0 /\ Len(Tail(s)) # 0
  BY ONLY <1>7, <1>8
<1>11. s # <<>> /\ Tail(s) # <<>>
  BY ONLY <1>6, <1>10
<1>12. Number(s) = n /\ AfterNumber(s) = Tail(s)
  BY <1>2, <1>7, <1>11 DEF Number, AfterNumber
<1>13. Starts(s, n, y, r)
  BY <1>8, <1>9, <1>11, <1>12 DEF Starts
<1> QED
  BY <1>1, <1>5, <1>13, Zenon

\* A round that finds a unit.
LEMMA UnitRead ==
    ASSUME NEW V, NEW r \in Seq(V), NEW n \in Nat, NEW u \in Nat, NEW state,
           NEW t \in Nat, NEW t1, t1 = t + n * u,
           NEW st, IsAt(st, Pair(n, "unit", u, r), state, t)
    PROVE  Round(st, Later(r, state, t1))
<1>1. PICK y, s : y = Token("unit", u) /\ s = <<Token("number", n), y>> \o r
  OBVIOUS
<1>2. s = Pair(n, "unit", u, r)
  BY <1>1 DEF Pair
<1>3. Starts(s, n, y, r)
  BY <1>1, TwoTokens
<1>4. /\ s # <<>> /\ Number(s) = n /\ AfterNumber(s) = Tail(s)
      /\ Tail(s) # <<>> /\ Tail(s)[1] = y /\ Tail(Tail(s)) = r
  BY <1>3 DEF Starts
<1>5. y.k = "unit" /\ y.n = u
  BY <1>1 DEF Token
<1>6. st.s = s /\ st.state = state /\ st.t = t /\ st.ok = TRUE
  BY <1>2 DEF IsAt
<1>7. PICK v : v = n * u
  OBVIOUS
<1>8. TimeRead(st, 1) = [s |-> r, first |-> FALSE, state |-> state, t |-> st.t + v, ok |-> st.ok]
  BY <1>4, <1>5, <1>6, <1>7, Zenon DEF TimeRead
<1>9. TimeRead(st, 1) = Later(r, state, t + v)
  BY <1>6, <1>8 DEF Later
<1>10. t1 = t + v
  BY <1>7
<1> QED
  BY <1>9, <1>10 DEF Round

\* A round that finds a colon.
LEMMA ColonRead ==
    ASSUME NEW V, NEW r \in Seq(V), NEW n \in Nat, NEW state \in 1 .. 3,
           NEW t \in Nat, NEW t1, t1 = t + n * Colon[state],
           NEW st, IsAt(st, Pair(n, "colon", 0, r), state, t)
    PROVE  Round(st, Later(r, state + 1, t1))
<1>1. PICK y, s : y = Token("colon", 0) /\ s = <<Token("number", n), y>> \o r
  OBVIOUS
<1>2. s = Pair(n, "colon", 0, r)
  BY <1>1 DEF Pair
<1>3. Starts(s, n, y, r)
  BY <1>1, TwoTokens
<1>4. /\ s # <<>> /\ Number(s) = n /\ AfterNumber(s) = Tail(s)
      /\ Tail(s) # <<>> /\ Tail(s)[1] = y /\ Tail(Tail(s)) = r
  BY <1>3 DEF Starts
<1>5. y.k = "colon" /\ y.k # "unit" /\ state <= 3
  BY <1>1 DEF Token
<1>6. st.s = s /\ st.state = state /\ st.t = t /\ st.ok = TRUE
  BY <1>2 DEF IsAt
<1>7. PICK v : v = n * Colon[state]
  OBVIOUS
<1>8. TimeRead(st, 1) = [s |-> r, first |-> FALSE, state |-> state + 1, t |-> st.t + v, ok |-> st.ok]
  BY <1>4, <1>5, <1>6, <1>7, Zenon DEF TimeRead
<1>9. TimeRead(st, 1) = Later(r, state + 1, t + v)
  BY <1>6, <1>8 DEF Later
<1>10. t1 = t + v
  BY <1>7
<1> QED
  BY <1>9, <1>10 DEF Round

\* A round that finds a last number behind a colon.
LEMMA LastRead ==
    ASSUME NEW n \in Nat, NEW state \in 1 .. 3, NEW t \in Nat, NEW t1, t1 = t + n * Colon[state]
    PROVE  Round(Later(Single(n), state, t), Later(<<>>, state + 1, t1))
<1>1. PICK x, s : x = Token("number", n) /\ s = <<x>>
  OBVIOUS
<1>2. s = Single(n)
  BY <1>1 DEF Single
<1>3. x.k = "number" /\ x.n = n
  BY <1>1 DEF Token
<1>4. s \in Seq({x}) /\ Len(s) = 1 /\ s[1] = x /\ s # <<>>
  BY <1>1
<1>5. Tail(s) = <<>>
  BY <1>1
<1>6. Number(s) = n /\ AfterNumber(s) = <<>>
  BY <1>3, <1>4, <1>5 DEF Number, AfterNumber
<1>7. PICK st : st = Later(s, state, t)
  OBVIOUS
<1>8. st.s = s /\ ~st.first /\ st.state = state /\ st.t = t /\ st.ok = TRUE
  BY <1>7 DEF Later
<1>9. PICK v : v = n * Colon[state]
  OBVIOUS
<1>10. state <= 3
  OBVIOUS
<1>11. TimeRead(st, 1)
       = [s |-> <<>>, first |-> FALSE, state |-> state + 1, t |-> st.t + v, ok |-> st.ok]
  BY <1>4, <1>6, <1>8, <1>9, <1>10, Zenon DEF TimeRead
<1>12. TimeRead(st, 1) = Later(<<>>, state + 1, t + v)
  BY <1>8, <1>11 DEF Later
<1>13. t1 = t + v
  BY <1>9
<1> QED
  BY <1>2, <1>7, <1>12, <1>13 DEF Round

\* When all is read, the rounds that are left change nothing.
LEMMA TimeEnds ==
    ASSUME NEW s, Len(s) \in Nat, NEW h, NEW k \in 0 .. Len(s),
           h[0] = Before(s),
           \A i \in 1 .. k : h[i] = TimeRead(h[i - 1], 1),
           h[k].s = <<>>
    PROVE  ReadTime(s, 1) = h[k]
<1>1. PICK n \in Nat : n = Len(s)
  OBVIOUS
<1>2. PICK g : /\ g[0] = Before(s)
               /\ \A i \in 1 .. n : g[i] = TimeRead(g[i - 1], 1)
               /\ ReadTime(s, 1) = g[n]
  BY <1>1, ReadTimeRuns DEF Before
<1>3. TimeRead(h[k], 1) = h[k]
  BY DEF TimeRead
<1>4. PICK T : T = {i \in 0 .. n : (i <= k => g[i] = h[i]) /\ (~ (i <= k) => g[i] = h[k])}
  OBVIOUS
<1>5. 0 \in T
  <2>1. 0 \in 0 .. n /\ 0 <= k
    BY <1>1
  <2> QED
    BY <1>2, <1>4, <2>1
<1>6. ASSUME NEW i \in 1 .. n, i - 1 \in T PROVE i \in T
  <2>1. CASE i <= k
    <3>1. i - 1 <= k /\ i \in 1 .. k
      BY <1>1, <2>1
    <3>2. g[i - 1] = h[i - 1]
      BY <1>4, <1>6, <3>1
    <3>3. g[i] = h[i]
      BY <1>2, <3>1, <3>2
    <3> QED
      BY <1>4, <2>1, <3>3
  <2>2. CASE i > k
    <3>1. g[i - 1] = h[k]
      <4>1. i - 1 <= k => i - 1 = k
        BY <1>1, <2>2
      <4> QED
        BY <1>4, <1>6, <4>1
    <3>2. g[i] = h[k]
      BY <1>2, <1>3, <3>1
    <3>3. ~ (i <= k)
      BY <1>1, <2>2
    <3> QED
      BY <1>4, <3>2, <3>3
  <2> QED
    BY <1>1, <2>1, <2>2
<1>7. n \in T
  <2>1. \A i \in 0 .. n : i \in T
    BY <1>5, <1>6, UpTo, Zenon
  <2> QED
    BY <2>1
<1>8. g[n] = h[k]
  <2>1. n <= k => n = k
    BY <1>1
  <2> QED
    BY <1>4, <1>7, <2>1
<1> QED
  BY <1>2, <1>8

\* From st, a reader gets to the end of the text in j rounds, with the time v.
Takes(st, v, j) ==
    \E h : /\ h[0] = st
           /\ \A i \in 1 .. j : h[i] = TimeRead(h[i - 1], 1)
           /\ h[j].s = <<>> /\ h[j].t = v /\ h[j].ok = TRUE

\* Nothing is left to be read.
LEMMA TakesNone ==
    ASSUME NEW state, NEW t
    PROVE  Takes(Later(<<>>, state, t), t, 0)
<1>1. PICK st : st = Later(<<>>, state, t)
  OBVIOUS
<1>2. st.s = <<>> /\ st.t = t /\ st.ok = TRUE
  BY <1>1 DEF Later
<1>3. PICK h : h = [i \in {0} |-> st]
  OBVIOUS
<1>4. h[0] = st
  BY <1>3
<1>5. \A i \in 1 .. 0 : FALSE
  OBVIOUS
<1>6. Takes(st, t, 0)
  BY <1>2, <1>4, <1>5, Zenon DEF Takes
<1> QED
  BY <1>1, <1>6

\* One round more.
LEMMA TakesOneMore ==
    ASSUME NEW st, NEW next, NEW v, NEW j \in Nat, Round(st, next), Takes(next, v, j)
    PROVE  Takes(st, v, j + 1)
<1>1. PICK h : /\ h[0] = next
               /\ \A i \in 1 .. j : h[i] = TimeRead(h[i - 1], 1)
               /\ h[j].s = <<>> /\ h[j].t = v /\ h[j].ok = TRUE
  BY DEF Takes
<1>2. PICK g : g = [i \in 0 .. j + 1 |-> IF i = 0 THEN st ELSE h[i - 1]]
  OBVIOUS
<1>3. g[0] = st
  BY <1>2
<1>4. \A i \in 1 .. j + 1 : g[i] = h[i - 1]
  BY <1>2
<1>5. ASSUME NEW i \in 1 .. j + 1 PROVE g[i] = TimeRead(g[i - 1], 1)
  <2>1. CASE i = 1
    BY <1>1, <1>3, <1>4, <2>1 DEF Round
  <2>2. CASE i # 1
    <3>1. i - 1 \in 1 .. j /\ i - 1 \in 1 .. j + 1
      BY <2>2
    <3> QED
      BY <1>1, <1>4, <3>1
  <2> QED
    BY <2>1, <2>2
<1>6. g[j + 1] = h[j]
  BY <1>4
<1>7. g[j + 1].s = <<>> /\ g[j + 1].t = v /\ g[j + 1].ok = TRUE
  BY <1>1, <1>6
<1> QED
  BY <1>3, <1>5, <1>7 DEF Takes

\* What the rounds add up to is the result.
LEMMA TakesTime ==
    ASSUME NEW s, s # <<>>, Len(s) \in Nat, NEW v, NEW j \in Nat, j <= Len(s),
           Takes(Before(s), v, j)
    PROVE  parse_time(s, 1) = [ok |-> TRUE, t |-> v]
<1>1. PICK h : /\ h[0] = Before(s)
               /\ \A i \in 1 .. j : h[i] = TimeRead(h[i - 1], 1)
               /\ h[j].s = <<>> /\ h[j].t = v /\ h[j].ok = TRUE
  BY DEF Takes
<1>2. j \in 0 .. Len(s)
  OBVIOUS
<1>3. ReadTime(s, 1) = h[j]
  BY <1>1, <1>2, TimeEnds
<1> QED
  BY <1>1, <1>3 DEF parse_time

\* A number, a unit or a colon, and the rest.
LEMMA TakesUnit ==
    ASSUME NEW V, NEW r \in Seq(V), NEW n \in Nat, NEW u \in Nat, NEW state, NEW t \in Nat,
           NEW t1, t1 = t + n * u, NEW st, IsAt(st, Pair(n, "unit", u, r), state, t),
           NEW v, NEW j \in Nat, NEW k, k = j + 1, Takes(Later(r, state, t1), v, j)
    PROVE  Takes(st, v, k)
<1>1. Round(st, Later(r, state, t1))
  BY UnitRead
<1> QED
  BY <1>1, TakesOneMore, Zenon

\* A round for a number and a colon.
LEMMA TakesColon ==
    ASSUME NEW V, NEW r \in Seq(V), NEW n \in Nat, NEW state \in 1 .. 3, NEW t \in Nat,
           NEW u \in Nat, u = Colon[state], NEW t1, t1 = t + n * u, NEW next, next = state + 1,
           NEW st, IsAt(st, Pair(n, "colon", 0, r), state, t),
           NEW v, NEW j \in Nat, NEW k, k = j + 1, Takes(Later(r, next, t1), v, j)
    PROVE  Takes(st, v, k)
<1>1. t1 = t + n * Colon[state]
  OBVIOUS
<1>2. Round(st, Later(r, next, t1))
  BY <1>1, ColonRead
<1> QED
  BY <1>2, TakesOneMore, Zenon

\* A round for the last number of a clock.
LEMMA TakesLast ==
    ASSUME NEW n \in Nat, NEW state \in 1 .. 3, NEW t \in Nat, NEW t1,
           t1 = t + n * Colon[state]
    PROVE  Takes(Later(Single(n), state, t), t1, 1)
<1>1. Takes(Later(<<>>, state + 1, t1), t1, 0)
  BY TakesNone
<1>3. Round(Later(Single(n), state, t), Later(<<>>, state + 1, t1))
  BY LastRead
<1>4. Takes(Later(Single(n), state, t), t1, 0 + 1)
  BY <1>1, <1>3, TakesOneMore, Zenon
<1>5. 0 + 1 = 1
  OBVIOUS
<1> QED
  BY <1>4, <1>5, Zenon

TokenSet == [k : {"number", "unit", "colon"}, n : Nat]

Typed(s, n) == s \in Seq(TokenSet) /\ Len(s) = n

\* A number and a token are tokens.
LEMMA PairType ==
    ASSUME NEW n \in Nat, NEW k \in {"unit", "colon"}, NEW u \in Nat, NEW r \in Seq(TokenSet)
    PROVE  Typed(Pair(n, k, u, r), Len(r) + 2)
<1>1. PICK x, y : x = Token("number", n) /\ y = Token(k, u)
  OBVIOUS
<1>2. x \in TokenSet /\ y \in TokenSet
  BY <1>1 DEF Token, TokenSet
<1>3. <<x, y>> \o r \in Seq(TokenSet) /\ Len(<<x, y>> \o r) = Len(r) + 2
  BY <1>2
<1> QED
  BY <1>1, <1>3 DEF Pair, Typed

\* A number is a token.
LEMMA SingleType ==
    ASSUME NEW n \in Nat
    PROVE  Single(n) \in Seq(TokenSet) /\ Len(Single(n)) = 1
<1>1. PICK x : x = Token("number", n)
  OBVIOUS
<1>2. x \in TokenSet
  BY <1>1 DEF Token, TokenSet
<1>3. <<x>> \in Seq(TokenSet) /\ Len(<<x>>) = 1
  BY <1>2
<1> QED
  BY <1>1, <1>3 DEF Single

\* No token.
LEMMA NoneType == <<>> \in Seq(TokenSet) /\ Len(<<>>) = 0
OBVIOUS

\* s is read to its end, from the time t up to v.
TakesFrom(s, t, v) ==
    /\ s \in Seq(TokenSet) /\ s # <<>>
    /\ \A st : IsAt(st, s, 1, t) => \E j \in Nat : j <= Len(s) /\ Takes(st, v, j)

\* The places of a clock: hours, minutes, seconds.
LEMMA ColonValues == 3600 = Colon[1] /\ 60 = Colon[2] /\ 1 = Colon[3]
BY DEF Colon

\* Numbers that the lemmas below are used with.
LEMMA SmallNumbers ==
    /\ 1 \in 1 .. 3 /\ 2 \in 1 .. 3 /\ 3 \in 1 .. 3 /\ 1 = 0 + 1 /\ 2 = 1 + 1 /\ 3 = 2 + 1
    /\ 3600 \in Nat /\ 60 \in Nat /\ 0 \in Nat /\ 1 \in Nat /\ 2 \in Nat /\ 3 \in Nat
OBVIOUS

\* Hours, minutes and seconds are read back.
LEMMA TakesThree ==
    ASSUME NEW h \in Nat, NEW m \in Nat, NEW s \in Nat, NEW t \in Nat, NEW v,
           v = t + h * 3600 + m * 60 + s
    PROVE  TakesFrom(Pair(h, "colon", 0, Pair(m, "colon", 0, Single(s))), t, v)
<1>1. PICK a, b, c : /\ c = Single(s) /\ b = Pair(m, "colon", 0, c)
                     /\ a = Pair(h, "colon", 0, b)
  OBVIOUS
<1>2. c \in Seq(TokenSet) /\ Len(c) = 1
  BY <1>1, SingleType
<1>3. b \in Seq(TokenSet) /\ Len(b) = 3
  <2>1. Typed(b, Len(c) + 2)
    BY <1>1, <1>2, PairType
  <2> QED
    BY ONLY <1>2, <2>1 DEF Typed
<1>4. a \in Seq(TokenSet) /\ Len(a) = 5
  <2>1. Typed(a, Len(b) + 2)
    BY <1>1, <1>3, PairType
  <2> QED
    BY ONLY <1>3, <2>1 DEF Typed
<1>5. PICK t1 \in Nat, t2 \in Nat : t1 = t + h * 3600 /\ t2 = t1 + m * 60
  OBVIOUS
<1>6. v = t2 + s * Colon[3]
  BY <1>5, ColonValues
<1>7. Takes(Later(c, 3, t2), v, 1)
  BY <1>1, <1>6, SmallNumbers, TakesLast
<1>8. Takes(Later(b, 2, t1), v, 2)
  <2>1. IsAt(Later(b, 2, t1), b, 2, t1)
    BY LaterIsAt, Zenon
  <2> QED
    BY <1>1, <1>2, <1>5, <1>7, <2>1, ColonValues, SmallNumbers, TakesColon
<1>9. ASSUME NEW st, IsAt(st, a, 1, t) PROVE Takes(st, v, 3)
  BY <1>1, <1>3, <1>5, <1>8, <1>9, ColonValues, SmallNumbers, TakesColon
<1>10. a # <<>> /\ 3 \in Nat /\ 3 <= Len(a)
  BY <1>4, NoneType
<1>11. TakesFrom(a, t, v)
  BY <1>4, <1>9, <1>10 DEF TakesFrom
<1> QED
  BY <1>1, <1>11

\* Hours and minutes are read back.
LEMMA TakesTwo ==
    ASSUME NEW h \in Nat, NEW m \in Nat, NEW t \in Nat, NEW v, v = t + h * 3600 + m * 60
    PROVE  TakesFrom(Pair(h, "colon", 0, Single(m)), t, v)
<1>1. PICK a, b : b = Single(m) /\ a = Pair(h, "colon", 0, b)
  OBVIOUS
<1>2. b \in Seq(TokenSet) /\ Len(b) = 1
  BY <1>1, SingleType
<1>3. a \in Seq(TokenSet) /\ Len(a) = 3
  <2>1. Typed(a, Len(b) + 2)
    BY <1>1, <1>2, PairType
  <2> QED
    BY ONLY <1>2, <2>1 DEF Typed
<1>4. PICK t1 \in Nat : t1 = t + h * 3600
  OBVIOUS
<1>5. v = t1 + m * Colon[2]
  BY <1>4, ColonValues
<1>6. Takes(Later(b, 2, t1), v, 1)
  BY <1>1, <1>5, SmallNumbers, TakesLast
<1>7. ASSUME NEW st, IsAt(st, a, 1, t) PROVE Takes(st, v, 2)
  BY <1>1, <1>2, <1>4, <1>6, <1>7, ColonValues, SmallNumbers, TakesColon
<1>8. a # <<>> /\ 2 \in Nat /\ 2 <= Len(a)
  BY <1>3, NoneType
<1>9. TakesFrom(a, t, v)
  BY <1>3, <1>7, <1>8 DEF TakesFrom
<1> QED
  BY <1>1, <1>9

\* A number with its unit is read back.
LEMMA TakesOne ==
    ASSUME NEW n \in Nat, NEW u \in Nat, NEW t \in Nat, NEW v, v = t + n * u
    PROVE  TakesFrom(Pair(n, "unit", u, <<>>), t, v)
<1>1. PICK a, b : b = <<>> /\ a = Pair(n, "unit", u, b)
  OBVIOUS
<1>2. b \in Seq(TokenSet) /\ Len(b) = 0
  BY <1>1, NoneType
<1>3. a \in Seq(TokenSet) /\ Len(a) = 2
  <2>1. Typed(a, Len(b) + 2)
    BY <1>1, <1>2, PairType
  <2> QED
    BY ONLY <1>2, <2>1 DEF Typed
<1>4. PICK zero \in Nat, one \in Nat : zero = 0 /\ one = 1
  OBVIOUS
<1>5. Takes(Later(b, one, v), v, zero)
  BY <1>1, <1>4, TakesNone
<1>6. one = zero + 1
  BY <1>4
<1>7. ASSUME NEW st, IsAt(st, a, one, t) PROVE Takes(st, v, one)
  <2>1. a = Pair(n, "unit", u, b)
    BY <1>1
  <2>2. b \in Seq(TokenSet) /\ IsAt(st, Pair(n, "unit", u, b), one, t)
    BY <1>2, <1>7, <2>1
  <2>3. Round(st, Later(b, one, v))
    BY <2>2, UnitRead
  <2> QED
    BY <1>5, <1>6, <2>3, TakesOneMore
<1>8. a # <<>> /\ one \in Nat /\ one <= Len(a)
  BY <1>3, <1>4, NoneType
<1>9. TakesFrom(a, t, v)
  BY <1>3, <1>4, <1>7, <1>8 DEF TakesFrom
<1> QED
  BY <1>1, <1>9

\* A unit before a text that is read.
LEMMA TakesBehind ==
    ASSUME NEW n \in Nat, NEW u \in Nat, NEW r, NEW t \in Nat, NEW t1, t1 = t + n * u,
           NEW v, TakesFrom(r, t1, v)
    PROVE  TakesFrom(Pair(n, "unit", u, r), t, v)
<1>1. PICK a : a = Pair(n, "unit", u, r)
  OBVIOUS
<1>2. r \in Seq(TokenSet)
  BY DEF TakesFrom
<1>3. PICK j \in Nat : j <= Len(r) /\ Takes(Later(r, 1, t1), v, j)
  BY LaterIsAt DEF TakesFrom
<1>4. a \in Seq(TokenSet) /\ Len(a) = Len(r) + 2 /\ Len(r) \in Nat
  <2>1. Typed(a, Len(r) + 2)
    BY <1>1, <1>2, PairType
  <2> QED
    BY <1>2, <2>1 DEF Typed
<1>5. ASSUME NEW st, IsAt(st, a, 1, t) PROVE Takes(st, v, j + 1)
  BY <1>1, <1>2, <1>3, <1>5, TakesUnit
<1>6. a # <<>> /\ j + 1 \in Nat /\ j + 1 <= Len(a)
  BY <1>3, <1>4, NoneType
<1>7. TakesFrom(a, t, v)
  BY <1>4, <1>5, <1>6 DEF TakesFrom
<1> QED
  BY <1>1, <1>7

\* What is printed, token by token.
LEMMA JoinedThree ==
    ASSUME NEW a, NEW b, NEW c, NEW x
    PROVE  <<a, x, b>> \o <<x, c>> = <<a, x>> \o (<<b, x>> \o <<c>>)
<1>1. <<b, x, c>> = <<b, x>> \o <<c>>
  OBVIOUS
<1>2. <<a, x, b, x, c>> = <<a, x>> \o <<b, x, c>>
  OBVIOUS
<1>3. <<a, x, b, x, c>> = <<a, x, b>> \o <<x, c>>
  OBVIOUS
<1> QED
  BY <1>1, <1>2, <1>3, Zenon

\* The same, for hours and minutes.
LEMMA JoinedTwo == ASSUME NEW a, NEW b, NEW x PROVE <<a, x, b>> = <<a, x>> \o <<b>>
OBVIOUS

\* The same, for a number with its unit.
LEMMA JoinedNone == ASSUME NEW a, NEW x PROVE <<a, x>> = <<a, x>> \o <<>>
OBVIOUS

Printed(h, m, s, u) ==
    /\ Clock(h, m) \o Seconds(s) = Pair(h, "colon", 0, Pair(m, "colon", 0, Single(s)))
    /\ Clock(h, m) = Pair(h, "colon", 0, Single(m))
    /\ Timed(h, u) = Pair(h, "unit", u, <<>>)

\* The three together.
LEMMA TokensPrinted ==
    ASSUME NEW h, NEW m, NEW s, NEW u
    PROVE  Printed(h, m, s, u)
<1>1. PICK a, b, c, x, y : /\ a = Token("number", h) /\ b = Token("number", m) /\ c = Token("number", s)
                          /\ x = Token("colon", 0) /\ y = Token("unit", u)
  OBVIOUS
<1>2. Clock(h, m) = <<a, x, b>> /\ Seconds(s) = <<x, c>> /\ Timed(h, u) = <<a, y>>
  BY <1>1, Zenon DEF Clock, Seconds, Timed, Token
<1>3. Single(m) = <<b>> /\ Single(s) = <<c>>
  BY <1>1, Zenon DEF Single
<1>4. Pair(m, "colon", 0, Single(s)) = <<b, x>> \o <<c>>
  BY <1>1, <1>3, Zenon DEF Pair
<1>5. Pair(h, "colon", 0, Pair(m, "colon", 0, Single(s))) = <<a, x>> \o (<<b, x>> \o <<c>>)
  BY <1>1, <1>4, Zenon DEF Pair
<1>6. Pair(h, "colon", 0, Single(m)) = <<a, x>> \o <<b>>
  BY <1>1, <1>3, Zenon DEF Pair
<1>7. Pair(h, "unit", u, <<>>) = <<a, y>> \o <<>>
  BY <1>1, Zenon DEF Pair
<1>8. <<a, x, b>> \o <<x, c>> = <<a, x>> \o (<<b, x>> \o <<c>>)
  BY JoinedThree, SMT
<1>9. <<a, x, b>> = <<a, x>> \o <<b>> /\ <<a, y>> = <<a, y>> \o <<>>
  BY JoinedTwo, JoinedNone, Zenon
<1>10. Clock(h, m) \o Seconds(s) = Pair(h, "colon", 0, Pair(m, "colon", 0, Single(s)))
  BY <1>2, <1>5, <1>8, Zenon
<1>11. Clock(h, m) = Pair(h, "colon", 0, Single(m))
  BY <1>2, <1>6, <1>9, Zenon
<1>12. Timed(h, u) = Pair(h, "unit", u, <<>>)
  BY <1>2, <1>7, <1>9, Zenon
<1> QED
  BY <1>10, <1>11, <1>12, Zenon DEF Printed

\* Hours and minutes, as printed.
LEMMA ClockPrinted ==
    ASSUME NEW h, NEW m
    PROVE  Clock(h, m) = Pair(h, "colon", 0, Single(m))
<1>1. Printed(h, m, 0, 0)
  BY TokensPrinted, Zenon
<1> QED
  BY <1>1, Zenon DEF Printed

\* Hours, minutes and seconds, as printed.
LEMMA SecondsPrinted ==
    ASSUME NEW h, NEW m, NEW s
    PROVE  Clock(h, m) \o Seconds(s) = Pair(h, "colon", 0, Pair(m, "colon", 0, Single(s)))
<1>1. Printed(h, m, s, 0)
  BY TokensPrinted, Zenon
<1> QED
  BY <1>1, Zenon DEF Printed

\* A number with its unit, as printed.
LEMMA UnitPrinted ==
    ASSUME NEW h, NEW u
    PROVE  Timed(h, u) = Pair(h, "unit", u, <<>>)
<1>1. Printed(h, 0, 0, u)
  BY TokensPrinted, Zenon
<1> QED
  BY <1>1, Zenon DEF Printed

\* Days, and what is printed behind them.
LEMMA DaysPrinted ==
    ASSUME NEW d, NEW u, NEW r
    PROVE  Timed(d, u) \o r = Pair(d, "unit", u, r)
BY Zenon DEF Timed, Pair, Token

ShapeOf(time, d, h, m, s, day) ==
    /\ d = 0 => make_time_spec(time) = WithinDay(h, m, s)
    /\ d # 0 /\ time % 86400 # 0
         => make_time_spec(time) = Pair(d, "unit", day, WithinDay(h, m, s))
    /\ d # 0 /\ time % 86400 = 0 => make_time_spec(time) = Pair(d, "unit", day, <<>>)

\* The three things make_time_spec may print.
LEMMA SpecShape ==
    ASSUME NEW time \in Nat, NEW d \in Nat, NEW h \in Nat, NEW m \in Nat, NEW s \in Nat, NEW day \in Nat,
           d = time \div 86400, h = (time % 86400) \div 3600, m = (time % 3600) \div 60, s = time % 60,
           day = 86400
    PROVE  ShapeOf(time, d, h, m, s, day)
<1>1. Timed(d, day) \o WithinDay(h, m, s) = Pair(d, "unit", day, WithinDay(h, m, s))
  BY ONLY DaysPrinted, Zenon
<1>2. Timed(d, day) = Pair(d, "unit", day, <<>>)
  BY ONLY UnitPrinted, Zenon
<1>3. CASE d = 0
  BY <1>3, SMT DEF make_time_spec, ShapeOf
<1>4. CASE d # 0 /\ time % 86400 # 0
  <2>1. make_time_spec(time) = Timed(d, day) \o WithinDay(h, m, s)
    BY <1>4, SMT DEF make_time_spec
  <2> QED
    BY <1>1, <1>4, <2>1, SMT DEF ShapeOf
<1>5. CASE d # 0 /\ time % 86400 = 0
  <2>1. make_time_spec(time) = Timed(d, day)
    BY <1>5, SMT DEF make_time_spec
  <2> QED
    BY <1>2, <1>5, <2>1, SMT DEF ShapeOf
<1> QED
  BY <1>3, <1>4, <1>5, SMT

\* A time of less than a day is read back.
LEMMA WithinDayReads ==
    ASSUME NEW h \in Nat, NEW m \in Nat, NEW s \in Nat, NEW t \in Nat, NEW v,
           v = t + h * 3600 + m * 60 + s
    PROVE  TakesFrom(WithinDay(h, m, s), t, v)
<1>1. CASE h > 0 /\ s > 0
  <2>1. WithinDay(h, m, s) = Pair(h, "colon", 0, Pair(m, "colon", 0, Single(s)))
    BY <1>1, ClockPrinted, SecondsPrinted, UnitPrinted, SMT DEF WithinDay
  <2> QED
    BY <2>1, TakesThree, SMT
<1>2. CASE h > 0 /\ ~ (s > 0) /\ m > 0
  <2>1. WithinDay(h, m, s) = Pair(h, "colon", 0, Single(m))
    BY <1>2, ClockPrinted, SecondsPrinted, UnitPrinted, SMT DEF WithinDay
  <2>2. v = t + h * 3600 + m * 60
    BY <1>2, SMT
  <2>3. TakesFrom(Pair(h, "colon", 0, Single(m)), t, v)
    BY ONLY <2>2, h \in Nat, m \in Nat, s \in Nat, t \in Nat, TakesTwo, SMT
  <2> QED
    BY <2>1, <2>3, SMT
<1>3. CASE h > 0 /\ ~ (s > 0) /\ ~ (m > 0)
  <2>1. WithinDay(h, m, s) = Pair(h, "unit", 3600, <<>>)
    BY <1>3, ClockPrinted, SecondsPrinted, UnitPrinted, SMT DEF WithinDay
  <2>2. v = t + h * 3600
    BY <1>3, SMT
  <2>3. TakesFrom(Pair(h, "unit", 3600, <<>>), t, v)
    BY ONLY <2>2, h \in Nat, m \in Nat, s \in Nat, t \in Nat, TakesOne, SMT
  <2> QED
    BY <2>1, <2>3, SMT
<1>4. CASE ~ (h > 0) /\ s = 0
  <2>1. WithinDay(h, m, s) = Pair(m, "unit", 60, <<>>)
    BY <1>4, ClockPrinted, SecondsPrinted, UnitPrinted, SMT DEF WithinDay
  <2>2. v = t + m * 60
    BY <1>4, SMT
  <2>3. TakesFrom(Pair(m, "unit", 60, <<>>), t, v)
    BY ONLY <2>2, h \in Nat, m \in Nat, s \in Nat, t \in Nat, TakesOne, SMT
  <2> QED
    BY <2>1, <2>3, SMT
<1>5. CASE ~ (h > 0) /\ s # 0 /\ m = 0
  <2>1. WithinDay(h, m, s) = Pair(s, "unit", 1, <<>>)
    BY <1>5, ClockPrinted, SecondsPrinted, UnitPrinted, SMT DEF WithinDay
  <2>2. v = t + s * 1
    BY <1>5, SMT
  <2>3. TakesFrom(Pair(s, "unit", 1, <<>>), t, v)
    BY ONLY <2>2, h \in Nat, m \in Nat, s \in Nat, t \in Nat, TakesOne, SMT
  <2> QED
    BY <2>1, <2>3, SMT
<1>6. CASE ~ (h > 0) /\ s # 0 /\ m # 0
  <2>1. WithinDay(h, m, s) = Pair(0, "colon", 0, Pair(m, "colon", 0, Single(s)))
    BY <1>6, ClockPrinted, SecondsPrinted, UnitPrinted, SMT DEF WithinDay
  <2>2. v = t + 0 * 3600 + m * 60 + s
    BY <1>6, SMT
  <2>3. TakesFrom(Pair(0, "colon", 0, Pair(m, "colon", 0, Single(s))), t, v)
    BY ONLY <2>2, h \in Nat, m \in Nat, s \in Nat, t \in Nat, TakesThree, SMT
  <2> QED
    BY <2>1, <2>3, SMT
<1> QED
  BY <1>1, <1>2, <1>3, <1>4, <1>5, <1>6, SMT

\* Days, hours, minutes and seconds.
Parts(t, d, h, m, s) ==
    /\ d \in Nat /\ h \in Nat /\ m \in Nat /\ s \in Nat
    /\ t = d * 86400 + h * 3600 + m * 60 + s
    /\ t % 86400 = h * 3600 + m * 60 + s

\* A time is the sum of its days, hours, minutes and seconds.
LEMMA TimeParts ==
    ASSUME NEW t \in Nat, NEW d \in Nat, NEW h \in Nat, NEW m \in Nat, NEW s \in Nat,
           d = t \div 86400, h = (t % 86400) \div 3600, m = (t % 3600) \div 60, s = t % 60
    PROVE  Parts(t, d, h, m, s)
<1>1. d \in Nat /\ h \in Nat /\ m \in Nat /\ s \in Nat
  BY SMT
<1>2. t = 86400 * d + (t % 86400)
  BY SMT
<1>3. t % 86400 = h * 3600 + m * 60 + s
  BY SMT
<1> QED
  BY <1>1, <1>2, <1>3, SMT DEF Parts

\* Every time that make_time_spec prints, parse_time reads back: for every time,
\* with no bound on the days.
THEOREM EveryTimeReadBack == \A t \in Nat : parse_time(make_time_spec(t), 1) = [ok |-> TRUE, t |-> t]
<1>1. SUFFICES ASSUME NEW t \in Nat PROVE parse_time(make_time_spec(t), 1) = [ok |-> TRUE, t |-> t]
  OBVIOUS
<1>2. PICK text : text = make_time_spec(t)
  OBVIOUS
<1>3. PICK d \in Nat, h \in Nat, m \in Nat, s \in Nat, day \in Nat :
          /\ d = t \div 86400 /\ h = (t % 86400) \div 3600
          /\ m = (t % 3600) \div 60 /\ s = t % 60 /\ day = 86400
  <2>1. /\ t \div 86400 \in Nat /\ (t % 86400) \div 3600 \in Nat
        /\ (t % 3600) \div 60 \in Nat /\ t % 60 \in Nat /\ 86400 \in Nat
    BY SMT
  <2> QED
    BY <2>1, SMT
<1>4. t = d * 86400 + h * 3600 + m * 60 + s /\ t % 86400 = h * 3600 + m * 60 + s
  <2>1. Parts(t, d, h, m, s)
    BY <1>3, TimeParts, SMT
  <2> QED
    BY ONLY <2>1, SMT DEF Parts
<1>5. /\ d = 0 => text = WithinDay(h, m, s)
      /\ d # 0 /\ t % 86400 # 0 => text = Pair(d, "unit", day, WithinDay(h, m, s))
      /\ d # 0 /\ t % 86400 = 0 => text = Pair(d, "unit", day, <<>>)
  <2>1. ShapeOf(t, d, h, m, s, day)
    BY <1>3, SpecShape, SMT
  <2> QED
    BY ONLY <1>2, <2>1, SMT DEF ShapeOf
<1>6. TakesFrom(text, 0, t)
  <2>1. CASE d = 0
    <3>1. t = 0 + h * 3600 + m * 60 + s
      BY <1>4, <2>1, SMT
    <3>2. TakesFrom(WithinDay(h, m, s), 0, t)
      BY ONLY <3>1, h \in Nat, m \in Nat, s \in Nat, WithinDayReads, SMT
    <3> QED
      BY <1>5, <2>1, <3>2, SMT
  <2>2. CASE d # 0 /\ t % 86400 # 0
    <3>1. d * 86400 \in Nat
      BY SMT
    <3>2. PICK t1 \in Nat : t1 = d * 86400
      BY <3>1, SMT
    <3>3. t = t1 + h * 3600 + m * 60 + s
      BY <1>4, <3>2, SMT
    <3>4. TakesFrom(WithinDay(h, m, s), t1, t)
      BY ONLY <3>3, h \in Nat, m \in Nat, s \in Nat, t1 \in Nat, WithinDayReads, SMT
    <3>5. t1 = 0 + d * day
      BY <1>3, <3>2, SMT
    <3>6. TakesFrom(Pair(d, "unit", day, WithinDay(h, m, s)), 0, t)
      BY ONLY <3>4, <3>5, d \in Nat, day \in Nat, t1 \in Nat, TakesBehind, SMT
    <3> QED
      BY <1>5, <2>2, <3>6, SMT
  <2>3. CASE d # 0 /\ t % 86400 = 0
    <3>1. t = 0 + d * day
      BY <1>3, <1>4, <2>3, SMT
    <3>2. TakesFrom(Pair(d, "unit", day, <<>>), 0, t)
      BY ONLY <3>1, d \in Nat, day \in Nat, TakesOne, SMT
    <3> QED
      BY <1>5, <2>3, <3>2, SMT
  <2> QED
    BY <2>1, <2>2, <2>3, SMT
<1>7. PICK j \in Nat : j <= Len(text) /\ Takes(Before(text), t, j)
  BY <1>6, BeforeIsAt DEF TakesFrom
<1>8. text # <<>> /\ Len(text) \in Nat
  BY <1>6 DEF TakesFrom
<1>9. parse_time(text, 1) = [ok |-> TRUE, t |-> t]
  BY <1>7, <1>8, TakesTime
<1> QED
  BY <1>2, <1>9

\* ConfigurationRight holds of any files, command lines and reloads.
THEOREM ConfigurationStaysRight == ConfigurationSpec => []ConfigurationRight
<1>1. TimesRoundTrip
  <2>1. Times \subseteq Nat
    BY SMT DEF Times
  <2> QED
    BY <2>1, EveryTimeReadBack DEF TimesRoundTrip
<1>2. /\ RulesAsRead /\ TemplatesAsRead /\ CacheAsRead /\ PortAsRead /\ LengthsInOrder
      => ConfigurationRight
  BY <1>1, Zenon DEF ConfigurationRight
<1> QED
  BY <1>2, ConfigurationIsAsRead, PTL

-----------------------------------------------------------------------------
(* The loop and its children.                                              *)

\* A process that collects is the one in gc_pid, or the one just forked whose
\* id is about to be assigned.
Forked(z) == pid = z /\ (loop_pc = "store_gc" \/ (loop_pc = "parent" /\ do_gc))

GcKnown ==
    \A z \in Pid : child[z] \in Collecting => gc_pid = z \/ Forked(z)

\* Where the loop is about to fork a process that collects, or has just done
\* so, gc_pid is still zero.
GcUnset ==
    \/ loop_pc \in {"select", "store_gc"}
    \/ loop_pc \in {"fork", "parent"} /\ do_gc
    => gc_pid = NoPid

\* The loop does not fork while sig_child() runs: a process id that is being
\* accounted for is not given to a new child.
Unused ==
    /\ loop_pc # "reap" => frame["main"].at = "off"
    /\ \A f \in Context : frame[f].at = "check" =>
          child[frame[f].z] = "none"
    /\ \A f \in Context :
          frame[f].at \in {"check", "load", "store"} => frame[f].z \in Pid

IInv == DaemonTypeOK /\ GcKnown /\ GcUnset /\ Unused

USE DEF Context, Collecting, Zombie, Running

\* Where nothing but the loop's own state changes.
Moves == Top \/ SelectReady \/ AcceptConnection \/ Connect

\* A call of sig_child() stays one as it moves on.
LEMMA FrameMoves ==
    ASSUME DaemonTypeOK, NEW f \in Context,
           NEW a \in {"off", "wait", "check", "load", "store"},
           NEW z \in Pid \cup {NoPid}, NEW n \in Nat
    PROVE  /\ [frame EXCEPT ![f].at = a] \in [Context -> Frame]
           /\ [frame EXCEPT ![f].at = a, ![f].z = z] \in [Context -> Frame]
           /\ [frame EXCEPT ![f].at = a, ![f].old = n] \in [Context -> Frame]
<1>1. frame \in [Context -> Frame]
  BY DEF DaemonTypeOK
<1>2. /\ [frame[f] EXCEPT !.at = a] \in Frame
      /\ [[frame[f] EXCEPT !.at = a] EXCEPT !.z = z] \in Frame
      /\ [[frame[f] EXCEPT !.at = a] EXCEPT !.old = n] \in Frame
  BY <1>1 DEF Frame
<1> QED
  BY <1>1, <1>2

\* Every operation keeps the types.
LEMMA NextTypeOK ==
    ASSUME DaemonTypeOK, Unused, [DaemonNext]_daemonVars PROVE DaemonTypeOK'
<1> USE DaemonAssumption DEF DaemonTypeOK, bounds, process, loop
<1>1. CASE Top \/ SelectReady \/ Connect
  BY <1>1 DEF Top, SelectReady, Connect
<1>2. CASE AcceptConnection
  <2>1. do_gc' \in BOOLEAN
    BY <1>2 DEF AcceptConnection
  <2>2. queue' \in Nat
    BY <1>2 DEF AcceptConnection
  <2> QED
    BY <1>2, <2>1, <2>2 DEF AcceptConnection
<1>3. CASE SelectTimeout
  <2>1. pid' \in Pid \cup {NoPid}
    BY <1>3 DEF SelectTimeout, ForkInto
  <2>2. child' \in [Pid -> {"none"} \cup Running \cup Zombie]
    BY <1>3 DEF SelectTimeout, ForkInto
  <2> QED
    BY <1>3, <2>1, <2>2 DEF SelectTimeout
<1>4. CASE ForkChild
  BY <1>4 DEF ForkChild, ForkInto
<1>5. CASE StoreGc
  BY <1>5 DEF StoreGc
<1>6. CASE AfterFork
  <2>1. frame' \in [Context -> Frame]
    BY <1>6, FrameMoves DEF AfterFork
  <2>2. gc_pid' \in Pid \cup {NoPid} /\ do_gc' \in BOOLEAN
    BY <1>6 DEF AfterFork
  <2> QED
    BY <1>6, <2>1, <2>2 DEF AfterFork
<1>7. ASSUME NEW f \in Context, Waitpid(f) PROVE DaemonTypeOK'
  <2>1. CASE \A z \in Pid : child[z] \notin Zombie
    <3>1. Return(f)
      BY <1>7, <2>1 DEF Waitpid
    <3>2. Idle \in Frame
      BY DEF Idle, Frame
    <3>3. frame' \in [Context -> Frame]
      BY <3>1, <3>2 DEF Return
    <3> QED
      BY <1>7, <2>1, <3>1, <3>3 DEF Waitpid, Return
  <2>2. CASE ~(\A z \in Pid : child[z] \notin Zombie)
    <3>1. PICK z \in Pid :
             /\ child' = [child EXCEPT ![z] = "none"]
             /\ frame' = [frame EXCEPT ![f].at = "check", ![f].z = z]
             /\ UNCHANGED loop_pc
      BY <1>7, <2>2 DEF Waitpid
    <3>2. frame' \in [Context -> Frame]
      <4>1. frame[f] \in Frame
        OBVIOUS
      <4>2. [[frame[f] EXCEPT !.at = "check"] EXCEPT !.z = z] \in Frame
        BY <4>1 DEF Frame
      <4> QED
        BY <3>1, <4>2
    <3>3. child' \in [Pid -> {"none"} \cup Running \cup Zombie]
      BY <3>1
    <3> QED
      BY <1>7, <3>1, <3>2, <3>3 DEF Waitpid
  <2> QED
    BY <2>1, <2>2
<1>8. ASSUME NEW f \in Context, CheckGc(f) PROVE DaemonTypeOK'
  <2>1. frame' \in [Context -> Frame]
    BY <1>8, FrameMoves DEF CheckGc
  <2> QED
    BY <1>8, <2>1 DEF CheckGc
<1>9. ASSUME NEW f \in Context, LoadUsage(f) PROVE DaemonTypeOK'
  <2>1. frame' = [frame EXCEPT ![f].at = "store", ![f].old = HTCacheUsage] /\ HTCacheUsage \in Nat
    BY <1>9 DEF LoadUsage
  <2>2. frame[f] \in Frame
    OBVIOUS
  <2>3. [[frame[f] EXCEPT !.at = "store"] EXCEPT !.old = HTCacheUsage] \in Frame
    BY <2>1, <2>2 DEF Frame
  <2>4. frame' \in [Context -> Frame]
    BY <2>1, <2>3
  <2> QED
    BY <1>9, <2>4 DEF LoadUsage
<1>10. ASSUME NEW f \in Context, StoreUsage(f) PROVE DaemonTypeOK'
  <2>1. HTCacheUsage' \in Nat
    <3>1. frame[f].old \in Nat /\ frame[f].z \in Pid
      BY <1>10 DEF StoreUsage, Unused, Frame
    <3>2. exit_status[frame[f].z] \in Nat
      BY <3>1
    <3> QED
      BY <1>10, <3>1, <3>2 DEF StoreUsage
  <2>2. frame' \in [Context -> Frame]
    BY <1>10, FrameMoves DEF StoreUsage, NextChild
  <2> QED
    BY <1>10, <2>1, <2>2 DEF StoreUsage, NextChild
<1>11. CASE DeliverSigcld
  <2>1. frame' \in [Context -> Frame]
    BY <1>11, FrameMoves DEF DeliverSigcld
  <2> QED
    BY <1>11, <2>1 DEF DeliverSigcld
<1>12. ASSUME NEW z \in Pid, Exit(z) PROVE DaemonTypeOK'
  BY <1>12 DEF Exit
<1>13. CASE UNCHANGED daemonVars
  BY <1>13 DEF daemonVars
<1> QED
  BY <1>1, <1>2, <1>3, <1>4, <1>5, <1>6, <1>7, <1>8, <1>9, <1>10, <1>11,
     <1>12, <1>13
  DEF DaemonNext, Loop, SigChild

\* Every operation keeps what gc_pid tells of the processes that collect.
LEMMA NextGcKnown ==
    ASSUME IInv, [DaemonNext]_daemonVars PROVE GcKnown'
<1> USE DaemonAssumption
    DEF IInv, DaemonTypeOK, Frame, GcKnown, Forked, bounds, process, loop
<1>1. CASE Moves
  BY <1>1 DEF Moves, Top, SelectReady, AcceptConnection, Connect
<1>2. CASE SelectTimeout
  BY <1>2 DEF SelectTimeout, ForkInto, GcUnset
<1>3. CASE ForkChild
  BY <1>3 DEF ForkChild, ForkInto, GcUnset
<1>4. CASE StoreGc \/ AfterFork
  BY <1>4 DEF StoreGc, AfterFork, GcUnset
<1>5. ASSUME NEW f \in Context, Waitpid(f) PROVE GcKnown'
  BY <1>5 DEF Waitpid, Return, Runs, Unused
<1>6. ASSUME NEW f \in Context, CheckGc(f) PROVE GcKnown'
  BY <1>6 DEF CheckGc, Unused
<1>7. ASSUME NEW f \in Context, LoadUsage(f) \/ StoreUsage(f) PROVE GcKnown'
  BY <1>7 DEF LoadUsage, StoreUsage, NextChild
<1>8. CASE DeliverSigcld
  BY <1>8 DEF DeliverSigcld
<1>9. ASSUME NEW z \in Pid, Exit(z) PROVE GcKnown'
  BY <1>9 DEF Exit
<1>10. CASE UNCHANGED daemonVars
  BY <1>10 DEF daemonVars
<1> QED
  BY <1>1, <1>2, <1>3, <1>4, <1>5, <1>6, <1>7, <1>8, <1>9, <1>10
  DEF DaemonNext, Loop, SigChild, Moves

\* Every operation leaves gc_pid zero where the loop relies on it.
LEMMA NextGcUnset ==
    ASSUME IInv, [DaemonNext]_daemonVars PROVE GcUnset'
<1> USE DEF IInv, DaemonTypeOK, Frame, GcUnset, bounds, process, loop
<1>1. CASE Moves
  BY <1>1 DEF Moves, Top, SelectReady, AcceptConnection, Connect
<1>2. CASE SelectTimeout \/ ForkChild \/ StoreGc \/ AfterFork
  BY <1>2 DEF SelectTimeout, ForkChild, ForkInto, StoreGc, AfterFork
<1>3. ASSUME NEW f \in Context, Waitpid(f) PROVE GcUnset'
  BY <1>3 DEF Waitpid, Return
<1>4. ASSUME NEW f \in Context, CheckGc(f) \/ LoadUsage(f) \/ StoreUsage(f)
      PROVE  GcUnset'
  BY <1>4 DEF CheckGc, LoadUsage, StoreUsage, NextChild
<1>5. CASE DeliverSigcld
  BY <1>5 DEF DeliverSigcld
<1>6. ASSUME NEW z \in Pid, Exit(z) PROVE GcUnset'
  BY <1>6 DEF Exit
<1>7. CASE UNCHANGED daemonVars
  BY <1>7 DEF daemonVars
<1> QED
  BY <1>1, <1>2, <1>3, <1>4, <1>5, <1>6, <1>7 DEF DaemonNext, Loop, SigChild, Moves

\* No operation gives away a process id that is being accounted for.
LEMMA NextUnused ==
    ASSUME IInv, [DaemonNext]_daemonVars PROVE Unused'
<1> USE DaemonAssumption DEF IInv, DaemonTypeOK, Frame, Unused, bounds, process, loop, Idle
<1>1. CASE Moves
  BY <1>1 DEF Moves, Top, SelectReady, AcceptConnection, Connect
<1>2. CASE SelectTimeout \/ ForkChild
  BY <1>2 DEF SelectTimeout, ForkChild, ForkInto, LoopRuns
<1>3. CASE StoreGc \/ AfterFork
  BY <1>3 DEF StoreGc, AfterFork
<1>4. ASSUME NEW f \in Context, Waitpid(f) PROVE Unused'
  BY <1>4 DEF Waitpid, Return, Runs
<1>5. ASSUME NEW f \in Context, CheckGc(f) \/ LoadUsage(f) PROVE Unused'
  BY <1>5 DEF CheckGc, LoadUsage
<1>6. ASSUME NEW f \in Context, StoreUsage(f) PROVE Unused'
  BY <1>6 DEF StoreUsage, NextChild
<1>7. CASE DeliverSigcld
  BY <1>7 DEF DeliverSigcld
<1>8. ASSUME NEW z \in Pid, Exit(z) PROVE Unused'
  BY <1>8 DEF Exit
<1>9. CASE UNCHANGED daemonVars
  BY <1>9 DEF daemonVars
<1> QED
  BY <1>1, <1>2, <1>3, <1>4, <1>5, <1>6, <1>7, <1>8, <1>9
  DEF DaemonNext, Loop, SigChild, Moves

\* The initial states.
LEMMA InitIInv == DaemonInit => IInv
<1> SUFFICES ASSUME DaemonInit PROVE IInv
  OBVIOUS
<1> USE DaemonAssumption
<1>1. frame \in [Context -> Frame]
  BY DEF DaemonInit, Idle, Frame
<1>2. DaemonTypeOK
  <2>1. HTCacheUsage \in Nat
    BY DEF DaemonInit
  <2>2. /\ child \in [Pid -> {"none"} \cup Running \cup Zombie]
        /\ exit_status \in [Pid -> {0, 1}]
    BY DEF DaemonInit
  <2> QED
    BY <1>1, <2>1, <2>2 DEF DaemonInit, DaemonTypeOK
<1>3. GcKnown /\ GcUnset /\ Unused
  BY DEF DaemonInit, GcKnown, GcUnset, Unused, Idle
<1> QED
  BY <1>2, <1>3 DEF IInv

LEMMA NextIInv == IInv /\ [DaemonNext]_daemonVars => IInv'
BY NextTypeOK, NextGcKnown, NextGcUnset, NextUnused DEF IInv

-----------------------------------------------------------------------------
\* The types of the parent's state.
THEOREM DaemonTypeCorrect == DaemonSpec => []DaemonTypeOK
<1>1. IInv => DaemonTypeOK
  BY DEF IInv
<1> QED
  BY <1>1, InitIInv, NextIInv, PTL DEF DaemonSpec

\* However the signals fall, there are never two processes that collect, for
\* any number of processes and connections.
THEOREM OneGc == DaemonSpec => []SingleGc
<1>1. IInv => SingleGc
  BY DaemonAssumption DEF IInv, DaemonTypeOK, GcKnown, GcUnset, Forked, SingleGc
<1> QED
  BY <1>1, InitIInv, NextIInv, PTL DEF DaemonSpec

=============================================================================
