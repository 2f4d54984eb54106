----------------------------- MODULE AccessFiles ------------------------------
(***************************************************************************)
(* The files of access authorization, in two parts: group files, by the    *)
(* lexical analyser HTLex.c and the parser and membership test of          *)
(* HTGroup.c (Daemon/Implementation); and, further down, protection set-   *)
(* ups and access control lists.                                           *)
(*                                                                         *)
(* A group file is a sequence of lexical items: names (LEX_ALPH_STR),      *)
(* address templates (LEX_TMPL_STR), "(", ")", ":", ",", "@", "}" and "nl" *)
(* (LEX_REC_SEP).  White space is left out: lex() skips it.  Lists are     *)
(* HTLists: the object that was added last comes first.                    *)
(***************************************************************************)
EXTENDS SequencesExt, Integers

CONSTANTS
    Name,        \* names of users, groups and hosts
    Template,    \* address templates
    Anybody,     \* the names "Anybody", "Anyone" and "Anonymous"
    AllUsers     \* the names "All" and "Users"

Address == Name \cup Template

Nothing == "nothing"     \* LEX_NONE

-----------------------------------------------------------------------------
(* The lexical analyser: where it is in the file, and the item that unlex  *)
(* has pushed back.                                                        *)

Start == [pos |-> 1, back |-> Nothing]

Item(f, s) ==
    IF s.back # Nothing THEN s.back ELSE IF s.pos > Len(f) THEN "EOF" ELSE f[s.pos]

lex(f, s) ==
    IF s.back # Nothing THEN [s EXCEPT !.back = Nothing]
    ELSE [s EXCEPT !.pos = IF @ > Len(f) THEN @ ELSE @ + 1]

unlex(s, item) == [s EXCEPT !.back = item]

\* do lex while the item is a line end: the place of the next other item.
SkipLines(f, s) ==
    IF s.back \notin {Nothing, "nl"} THEN s
    ELSE [pos |-> Min({p \in s.pos..Len(f) : f[p] # "nl"} \cup {Len(f) + 1}), back |-> Nothing]

\* syntax_error: the rest of the line is skipped; what is pushed back stays.
syntax_error(f, s) ==
    [s EXCEPT !.pos = Min({p \in s.pos..Len(f) : f[p] = "nl"} \cup {Len(f)}) + 1]

-----------------------------------------------------------------------------
(* The parser.  A result is [ok, v, s]; v is of no use unless ok.          *)

Parsed(v, s) == [ok |-> TRUE, v |-> v, s |-> s]
Failed(s) == [ok |-> FALSE, v |-> <<>>, s |-> s]

\* HTList_addObject: x before the rest.
Added(x, rest) == [rest EXCEPT !.v = Append(@, x)]

\* The loops of parse_address_part and parse_user_part, behind a member of the
\* list: lines may end after a comma.
Members(f, kind, s0) ==
    LET more[s \in [pos : Nat, back : {Nothing}]] ==
          LET next == SkipLines(f, lex(f, s)) IN
          IF Item(f, s) = ")" THEN Parsed(<<>>, lex(f, s))
          ELSE IF Item(f, s) # "," THEN Failed(syntax_error(f, lex(f, s)))
          ELSE IF Item(f, next) \notin kind THEN Failed(syntax_error(f, lex(f, next)))
          ELSE Added(Item(f, next), more[lex(f, next)])
    IN  more[s0]

\* One member, or a list in parentheses.  (The two functions of the code differ
\* in the kind of their members.)
parse_part(f, kind, s) ==
    LET inner == lex(f, s) IN
    IF Item(f, s) \in kind THEN Parsed(<<Item(f, s)>>, inner)
    ELSE IF Item(f, s) # "(" THEN Failed(syntax_error(f, inner))
    ELSE IF Item(f, inner) \notin kind THEN Failed(syntax_error(f, lex(f, inner)))
    ELSE Added(Item(f, inner), Members(f, kind, lex(f, inner)))

parse_user_part(f, s) == parse_part(f, Name, s)
parse_address_part(f, s) == parse_part(f, Address, s)

\* parse_item.  A part that cannot be parsed is a null pointer, like one that is
\* not there; an item has one part at least.
Made(f, users, addresses) ==
    IF users.v = <<>> /\ addresses.v = <<>> THEN Failed(syntax_error(f, addresses.s))
    ELSE Parsed([users |-> users.v, addresses |-> addresses.v], addresses.s)

parse_item_at(f, users) ==
    LET at == lex(f, users.s) IN
    IF Item(f, users.s) # "@" THEN Made(f, users, Failed(unlex(at, Item(f, users.s))))
    ELSE IF Item(f, at) \notin Address \cup {"("}
    THEN Failed(syntax_error(f, lex(f, at)))
    ELSE Made(f, users, parse_address_part(f, at))

parse_item(f, s) ==
    parse_item_at(f, IF Item(f, s) \in Name \cup {"("} THEN parse_user_part(f, s) ELSE Failed(s))

parse_item_list(f, s0) ==
    LET items[s \in [pos : Nat, back : STRING]] ==
          LET Behind(item) ==
                LET next == SkipLines(f, lex(f, item.s)) IN
                IF ~item.ok THEN item
                ELSE IF Item(f, item.s) # ","
                THEN Parsed(<<item.v>>, unlex(lex(f, item.s), Item(f, item.s)))
                ELSE Added(item.v, items[unlex(lex(f, next), Item(f, next))])
          IN  Behind(parse_item(f, s))
    IN  items[s0]

\* HTAA_parseGroupDef: garbage after the definition is skipped, not an error.
EndOfDef(f, list) ==
    LET end == lex(f, list.s) IN
    IF ~list.ok THEN list
    ELSE [list EXCEPT !.s = IF Item(f, list.s) = "nl" THEN end ELSE syntax_error(f, end)]

HTAA_parseGroupDef(f, s) == EndOfDef(f, parse_item_list(f, s))

Declared(name, def) ==
    IF ~def.ok THEN def ELSE Parsed([group_name |-> name, item_list |-> def.v], def.s)

parse_group_decl(f, s0) ==
    LET s == SkipLines(f, s0)
        colon == lex(f, s) IN
    IF Item(f, s) = "EOF" THEN Failed(s)
    ELSE IF Item(f, s) \notin Name THEN Failed(syntax_error(f, colon))
    ELSE IF Item(f, colon) # ":" THEN Failed(syntax_error(f, lex(f, colon)))
    ELSE Declared(Item(f, s), HTAA_parseGroupDef(f, lex(f, colon)))

\* parse_group_file: the groups up to the first declaration that cannot be
\* parsed.
parse_group_file(f) ==
    LET groups[s \in [pos : Nat, back : STRING]] ==
          LET Before(decl) == IF decl.ok THEN Append(groups[decl.s], decl.v) ELSE <<>>
          IN  Before(parse_group_decl(f, s))
    IN  groups[Start]

-----------------------------------------------------------------------------
(* Membership.  list is a GroupDefList, the last declaration first.        *)

\* HTAA_resolveGroupReferences, when the group at place i is added: a name is
\* that of a group declared earlier, the latest of them, or of a user (0).
\* (A mask, which is resolved against the whole list, is at place 1 here.)
translation(list, i, name) ==
    LET found == {j \in i + 1..Len(list) : list[j].group_name = name} IN
    IF found = {} THEN 0 ELSE Min(found)

\* Is the client's address in one of the templates?  client is the set of
\* addresses and templates that match it.
\* Mutant: only the first template is compared.
ip_in_def_list_First(addresses, client) == addresses # <<>> /\ addresses[1] \in client

ip_in_def_list(addresses, client) == \E k \in DOMAIN addresses : addresses[k] \in client

\* A name that is not a group's; user is Nothing when nobody is authenticated.
Named(name, user) == name \in Anybody \/ (user # Nothing /\ name \in AllUsers \cup {user})

\* HTAA_userAndInetInGroup for the group at place i.  poss is static: a nested
\* call clears it for its caller.
Continue(reason, poss) == [found |-> FALSE, reason |-> reason, poss |-> poss]
Found(acc) == [acc EXCEPT !.found = TRUE]

HTAA_userAndInetInGroup(list, i0, user, client) ==
    LET in_group[i \in 1..Len(list)] ==
          LET ByUser(acc, name) ==
                LET j == translation(list, i, name) IN
                IF acc.found THEN acc
                ELSE IF j # 0 THEN [in_group[j] EXCEPT !.found = in_group[j].reason = "OK"]
                ELSE IF Named(name, user) THEN Found(acc) ELSE acc
              ByItem(acc, item) ==
                IF acc.found THEN acc
                ELSE IF item.addresses = <<>> \/ ip_in_def_list(item.addresses, client)
                THEN IF item.users = <<>> THEN Found(acc)
                     ELSE FoldLeft(ByUser, [acc EXCEPT !.poss = TRUE], item.users)
                ELSE IF acc.poss THEN acc ELSE Continue("IP_MASK", FALSE)
              all == FoldLeft(ByItem, Continue("NOT_MEMBER", FALSE), list[i].item_list)
          IN  [all EXCEPT !.reason = IF all.found THEN "OK"
                                     ELSE IF all.poss THEN "NOT_MEMBER" ELSE @]
    IN  in_group[i0].reason

-----------------------------------------------------------------------------
(* The files that access authorization reads beside group files:           *)
(* protection set-ups and their cache (Daemon/Implementation/HTAAProt.c),  *)
(* access control lists (HTACL.c with HTAAFile.c), and the templates of    *)
(* both (Library/Implementation/HTAAUtil.c).                               *)
(*                                                                         *)
(* A protection set-up is a sequence of lexical items, like a group file;  *)
(* a template and a file name are sequences of characters.                 *)

CONSTANTS
    FieldKind,   \* of the name of a field: what it sets
    Scheme,      \* names of authentication schemes
    Yes,         \* "on", "yes", "enabled"
    User,        \* the password file of the system: ids of names
    UserGroup    \* its group file

-----------------------------------------------------------------------------
(* Protection set-ups                                                      *)

Method == {"GET", "PUT", "POST", "DELETE"}

NewProt ==
    [valid_schemes |-> <<>>, acl_override |-> FALSE, gen_mask |-> <<>>,
     mask |-> [m \in Method |-> <<>>], values |-> <<>>]

\* What a record does, and where it ends; read: with the end of its line.
Effect(kind, v, s) == [kind |-> kind, v |-> v, s |-> s, read |-> FALSE]

\* After a comma lines may end.
SchemeList(f, s0) ==
    LET more[s \in [pos : Nat, back : STRING]] ==
          LET next == lex(f, s) IN
          IF Item(f, s) \notin Name THEN Parsed(<<>>, s)
          ELSE IF Item(f, next) # "," THEN Parsed(<<Item(f, s)>>, next)
          ELSE Added(Item(f, s), more[SkipLines(f, lex(f, next))])
    IN  more[s0]

\* "groupdef parser read this already": the line end.
MaskField(kind, def) ==
    [Effect(kind, IF def.ok THEN def.v ELSE <<>>, def.s) EXCEPT !.read = TRUE]

ValueField(f, s, kind) ==
    IF Item(f, s) \in Name THEN Effect(kind, Item(f, s), lex(f, s))
    ELSE Effect("nothing", <<>>, s)

SchemeField(list) == Effect("auth", list.v, list.s)

\* Behind the name of a field; a colon is allowed, and not required.
FieldAt(f, s, kind) ==
    IF kind = "auth" THEN SchemeField(SchemeList(f, s))
    ELSE IF kind \in Method \cup {"mask"} THEN MaskField(kind, HTAA_parseGroupDef(f, s))
    ELSE ValueField(f, s, kind)

FieldBehind(f, s, name) ==
    FieldAt(f, IF Item(f, s) = ":" THEN lex(f, s) ELSE s, FieldKind[name])

\* "that line ignored": the rest of the line, if there is any.
RestOfLine(f, e) ==
    IF e.read THEN e
    ELSE IF Item(f, e.s) \in {"nl", "EOF"} THEN [e EXCEPT !.s = lex(f, e.s)]
    ELSE [e EXCEPT !.s = syntax_error(f, lex(f, e.s))]

RecordAt(f, s) ==
    RestOfLine(f, IF Item(f, s) \in Name THEN FieldBehind(f, lex(f, s), Item(f, s))
                  ELSE Effect("nothing", <<>>, s))

Known(schemes) == SelectSeq(schemes, LAMBDA n : n \in Scheme)

\* A later field of the same name counts, but schemes add up.
Set(prot, e) ==
    IF e.kind \in Method THEN [prot EXCEPT !.mask[e.kind] = e.v]
    ELSE IF e.kind = "mask" THEN [prot EXCEPT !.gen_mask = e.v]
    ELSE IF e.kind = "auth" THEN [prot EXCEPT !.valid_schemes = Known(e.v) \o @]
    ELSE IF e.kind = "acl" THEN [prot EXCEPT !.acl_override = e.v \in Yes]
    ELSE IF e.kind = "nothing" THEN prot
    ELSE [prot EXCEPT !.values = <<<<e.kind, e.v>>>> \o @]

\* The records up to the end of the file, or to "}" of one in the configuration.
RECURSIVE Parse_(_, _, _, _)
AfterRecord(f, inlined, prot, e) == Parse_(f, inlined, Set(prot, e), e.s)
Parse_(f, inlined, prot, s) ==
    IF Item(f, SkipLines(f, s)) = "EOF" \/ (Item(f, SkipLines(f, s)) = "}" /\ inlined) THEN prot
    ELSE AfterRecord(f, inlined, prot, RecordAt(f, SkipLines(f, s)))

HTAA_parseProtFile(f, inlined) == Parse_(f, inlined, NewProt, Start)

\* The value added last.
Lookup(values, name) ==
    LET found == SelectSeq(values, LAMBDA v : v[1] = name) IN
    IF found = <<>> THEN Nothing ELSE found[1][2]

\* "Make "Basic" by default if password file defined"
WithDefault(prot) ==
    IF prot.valid_schemes = <<>> /\ Lookup(prot.values, "passw") # Nothing
    THEN [prot EXCEPT !.valid_schemes = <<"basic">>] ELSE prot

HTAAProt_parseInlined(f) == WithDefault(HTAA_parseProtFile(f, TRUE))

NoIds == <<>>

\* A part of "user.group" is a name, a number or not there; 0 is that of no number.
Numbered(u) == IF u # <<>> /\ u[1] = "number" THEN u[2] ELSE 0
NameOf(u) == IF u # <<>> /\ u[1] = "name" THEN u[2] ELSE Nothing

HTUidGid_new(u, g) ==
    IF u = <<>> /\ g = <<>> THEN NoIds
    ELSE [uid |-> Numbered(u), uname |-> NameOf(u), gid |-> Numbered(g), gname |-> NameOf(g)]

\* The first name that the system knows; 65534 if there is none.
KnownId(table, names) ==
    LET known == {k \in DOMAIN names : names[k] \in DOMAIN table} IN
    IF known = {} THEN 65534 ELSE table[names[Min(known)]]

\* Of the set-up, the configured one, nobody.  Number 0 is as good as none.
HTAA_getUid(HTIds, user_id) ==
    IF HTIds # NoIds /\ HTIds.uid > 0 THEN HTIds.uid
    ELSE KnownId(User, (IF HTIds = NoIds THEN <<>> ELSE <<HTIds.uname>>) \o <<user_id, "nobody">>)

HTAA_getGid(HTIds, group_id) ==
    IF HTIds # NoIds /\ HTIds.gid > 0 THEN HTIds.gid
    ELSE KnownId(UserGroup, (IF HTIds = NoIds THEN <<>> ELSE <<HTIds.gname>>)
                         \o <<group_id, "nogroup", "nobody">>)

\* A set-up that is in the cache is given the ids of this rule, wherever else it is
\* in use; one that cannot be opened is empty, and is not cached.
HTAAProt_new(prot_cache, files, name, ids) ==
    [n \in DOMAIN prot_cache \cup ({name} \cap DOMAIN files) |->
        IF n # name THEN prot_cache[n]
        ELSE IF n \in DOMAIN prot_cache THEN [prot_cache[n] EXCEPT !.ids = ids]
        ELSE [prot |-> WithDefault(HTAA_parseProtFile(files[n], FALSE)), ids |-> ids]]

\* A pointer to a set-up: into the cache, or to an empty one with ids of its own.
NoSetup == <<>>

IdsOf(st, p) == IF p[1] \in DOMAIN st.prot_cache THEN st.prot_cache[p[1]].ids ELSE p[2]

NoProtection == [prot_cache |-> <<>>, HTDefProt |-> NoSetup, HTProt |-> NoSetup, HTIds |-> NoIds]

HTAA_setDefaultProtection(st, files, name, ids) ==
    IF name = Nothing THEN [st EXCEPT !.HTDefProt = NoSetup]
    ELSE [st EXCEPT !.prot_cache = HTAAProt_new(@, files, name, ids), !.HTDefProt = <<name, ids>>]

\* Without a file it is the default's set-up, with its ids if it has any.
HTAA_setCurrentProtection(st, files, name, ids) ==
    IF name # Nothing
    THEN [st EXCEPT !.prot_cache = HTAAProt_new(@, files, name, ids),
                    !.HTProt = <<name, ids>>, !.HTIds = ids]
    ELSE IF st.HTDefProt = NoSetup THEN [st EXCEPT !.HTProt = NoSetup]
    ELSE [st EXCEPT !.HTProt = st.HTDefProt,
                    !.HTIds = IF IdsOf(st, st.HTDefProt) = NoIds THEN @ ELSE IdsOf(st, st.HTDefProt)]

-----------------------------------------------------------------------------
(* Access control lists                                                    *)

\* The list of the file's directory.
HTAA_getAclFilename(pathname) ==
    (IF Len(pathname) = 1 THEN <<".">> ELSE Front(pathname)) \o <<".www_acl">>

\* One wildcard: what is before it is the same, and what is behind it.
HTAA_templateMatch(template, filename) ==
    LET differ == {k \in 1..Max({Len(template), Len(filename)}) :
                     k > Len(template) \/ k > Len(filename) \/ template[k] # filename[k]}
        p == Min(differ)
        tail == SubSeq(template, p + 1, Len(template))
        rest == SubSeq(filename, p, Len(filename))
    IN  differ = {} \/ (p <= Len(template) /\ template[p] = "*" /\ IsSuffix(tail, rest))

\* HTAAFile_readField: a field that is too long loses its end.
HTAAFile_readField(field, max_len) == SubSeq(field, 1, Min({max_len, Len(field)}))

\* The buffer for a template is one longer than the file name.
TemplateRead(entry, filename) == HTAAFile_readField(entry.template, Len(filename) + 1)

\* The next entry for the file and the method, from place i; behind the end if there
\* is none.
HTAA_getAclEntry(acl, i, filename, method) ==
    Min({k \in i..Len(acl) :
            HTAA_templateMatch(TemplateRead(acl[k], filename), filename) /\ method \in acl[k].methods}
        \cup {Len(acl) + 1})

\* The first entry for the file, with all its methods.
HTAA_getFullAclEntry(acl, filename) ==
    Min({k \in DOMAIN acl : HTAA_templateMatch(TemplateRead(acl[k], filename), filename)}
        \cup {Len(acl) + 1})

\* The loop of check_authorization: all entries, in order.
Authorized(acl, filename, method) ==
    LET from[i \in 1..Len(acl) + 1] ==
          LET k == HTAA_getAclEntry(acl, i, filename, method) IN
          IF k > Len(acl) THEN <<>> ELSE <<k>> \o from[k + 1]
    IN  from[1]

=============================================================================
