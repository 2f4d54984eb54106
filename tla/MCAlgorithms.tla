---------------------------- MODULE MCAlgorithms ----------------------------
(***************************************************************************)
(* The sequential algorithms of the daemon and the library against         *)
(* references, on every bounded input: a behaviour is about one family of  *)
(* them, and grows one input of it a piece at a time.  Here are the files  *)
(* that an administrator writes, the programs beside the daemon, patterns, *)
(* group files and paths; MCTexts has the other families.                  *)
(***************************************************************************)
EXTENDS Names, MCTexts, AccessFiles, Integers, SequencesExt, FiniteSetsExt, Functions

-----------------------------------------------------------------------------
(* AccessFiles against what its files mean: protection set-ups a setting at  *)
(* a time, sequences of the rules that name them, and access control lists   *)
(* an entry at a time.                                                       *)

CONSTANTS
    MaxSettings,   \* the bound of a set-up's settings
    MaxRules,      \* of the rules of one request
    MaxEntries     \* of the entries of an access control list

VARIABLES
    setup,   \* the settings of a set-up, as meant
    rules,   \* the rules that a request has met
    acl      \* the entries of an access control list

accessVars == <<setup, rules, acl>>

AccessInit == setup = <<>> /\ rules = <<>> /\ acl = <<>>

\* What a field is called, and what it sets.
Kinds == [Get |-> "GET", Put |-> "PUT", Mask |-> "mask", AuthType |-> "auth",
          ACLOverride |-> "acl", PasswordFile |-> "passw", ServerId |-> "server"]
MCFieldKind == [n \in Name |-> IF n \in DOMAIN Kinds THEN Kinds[n] ELSE "other"]
MCUser == [www |-> 80, nobody |-> 99, alice |-> 7]
MCUserGroup == [nogroup |-> 98, staff |-> 6]

\* A setting: the field and its list.  A list that begins with a comma is a mistake:
\* the field is without a value.
Setting(field, list) == [field |-> field, list |-> list]

Settings ==
    {Setting(f, l) : f \in {"Get", "Mask"}, l \in {<<"u">>, <<"u", "g">>, <<",", "u">>}}
    \cup {Setting("Put", <<"g">>), Setting("PasswordFile", <<"u">>),
          Setting("ACLOverride", <<"g">>), Setting("ACLOverride", <<"u">>),
          Setting("AuthType", <<"basic">>), Setting("AuthType", <<"u", "basic">>)}

\* The ids of a rule: none, numbers, and a name that the system knows or not.
Ids == {NoIds, HTUidGid_new(<<"number", 0>>, <<>>), HTUidGid_new(<<"number", 5>>, <<"number", 0>>),
        HTUidGid_new(<<"name", "alice">>, <<"name", "staff">>),
        HTUidGid_new(<<"name", "unknown">>, <<"number", 4>>)}

\* A default or a current protection; the file is optional.
RulesOf == {[default |-> d, name |-> n, ids |-> i] :
              d \in BOOLEAN, n \in {"f1", "missing"}, i \in Ids}
           \cup {[default |-> d, name |-> Nothing, ids |-> NoIds] : d \in BOOLEAN}

AclTemplates == {<<"*">>, <<"a">>, <<"a", "*">>, <<"*", "b">>, <<"a", "*", "b">>, <<"a", "b", "*">>}
Filenames == {<<"a">>, <<"b">>, <<"a", "b">>, <<"b", "a">>, <<"a", "b", "b">>}
AclEntry == [template : AclTemplates, methods : SUBSET {"GET", "PUT"} \ {{}}]

AccessNext ==
    \/ /\ rules = <<>> /\ acl = <<>> /\ Len(setup) < MaxSettings
       /\ \E x \in Settings : setup' = Append(setup, x)
       /\ UNCHANGED <<rules, acl>>
    \/ /\ setup = <<>> /\ acl = <<>> /\ Len(rules) < MaxRules
       /\ \E x \in RulesOf : rules' = Append(rules, x)
       /\ UNCHANGED <<setup, acl>>
    \/ /\ setup = <<>> /\ rules = <<>> /\ Len(acl) < MaxEntries
       /\ \E x \in AclEntry : acl' = Append(acl, x)
       /\ UNCHANGED <<setup, rules>>

-----------------------------------------------------------------------------

\* A line as an administrator may write it: the colon is optional, lines end after
\* commas, and there may be something behind the setting.
WrittenLine(x, colon, split, behind) ==
    LET comma == IF split THEN <<",", "nl">> ELSE <<",">> IN
    <<x.field>> \o (IF colon THEN <<":">> ELSE <<>>) \o <<x.list[1]>>
    \o (IF Len(x.list) = 1 THEN <<>> ELSE IF x.list[1] = "," THEN <<x.list[2]>>
        ELSE comma \o <<x.list[2]>>)
    \o behind \o <<"nl">>

\* Lines without a meaning: an empty one, no field, and a field with no value.
JunkLines == {<<>>, <<"nl", ",", "u", "nl">>, <<"ServerId", ":", "nl">>}

WrittenSetup(colon, split, behind, junk) ==
    FlattenSeq([k \in DOMAIN setup |-> junk \o WrittenLine(setup[k], colon, split, behind)]) \o junk

Given(field) == SelectSeq(setup, LAMBDA x : x.field = field)

\* The mask of the last setting, as HTLists.
MeantMask(field) ==
    LET given == Given(field)
        users == Last(given).list
    IN  IF given = <<>> THEN <<>> ELSE IF users[1] = "," THEN <<>>
        ELSE Reverse([k \in DOMAIN users |-> [users |-> <<users[k]>>, addresses |-> <<>>]])

MeantSchemes ==
    LET given == Given("AuthType")
        all == Reverse(FlattenSeq([k \in DOMAIN given |-> given[k].list]))
        known == SelectSeq(all, LAMBDA n : n = "basic")
    IN  IF known = <<>> /\ Given("PasswordFile") # <<>> THEN <<"basic">> ELSE known

Mistaken == \E k \in DOMAIN setup : setup[k].list[1] = ","

\* A set-up is read as it is meant, however it is laid out, in a file of its own or
\* within the configuration: a mask with a mistake costs no setting but itself, if a
\* line without a meaning is behind it.  (The line behind it is lost.)
SetupRead ==
    \A colon, split \in BOOLEAN, behind \in {<<>>, <<"(">>}, junk \in JunkLines, inlined \in BOOLEAN :
        LET lines == WrittenSetup(colon, split, behind, junk)
            prot == IF inlined THEN HTAAProt_parseInlined(lines \o <<"}", "Get", "g", "nl">>)
                    ELSE WithDefault(HTAA_parseProtFile(lines, FALSE))
        IN
        (junk = <<>> => ~Mistaken) =>
            /\ prot.mask["GET"] = MeantMask("Get") /\ prot.mask["PUT"] = MeantMask("Put")
            /\ prot.gen_mask = MeantMask("Mask")
            /\ prot.valid_schemes = MeantSchemes
            /\ prot.acl_override <=>
                  Given("ACLOverride") # <<>> /\ Last(Given("ACLOverride")).list = <<"g">>

SetupFiles == [f1 |-> <<"Mask", ":", "g", "nl", "PasswordFile", "u", "nl">>]

Protect(st, r) ==
    IF r.default THEN HTAA_setDefaultProtection(st, SetupFiles, r.name, r.ids)
    ELSE HTAA_setCurrentProtection(st, SetupFiles, r.name, r.ids)

\* Before rule i: the last one that names the default.
DefaultAt(i) == Max({k \in 1..i - 1 : rules[k].default} \cup {0})

NameAt(i) ==
    IF rules[i].name # Nothing THEN rules[i].name
    ELSE IF DefaultAt(i) = 0 THEN Nothing ELSE rules[DefaultAt(i)].name

IdsMeant ==
    LET after[i \in 0..Len(rules)] ==
          IF i = 0 THEN NoIds
          ELSE IF rules[i].default THEN after[i - 1]
          ELSE IF rules[i].name # Nothing THEN rules[i].ids
          ELSE IF DefaultAt(i) = 0 THEN after[i - 1]
          ELSE IF rules[DefaultAt(i)].ids = NoIds THEN after[i - 1] ELSE rules[DefaultAt(i)].ids
    IN  after[Len(rules)]

\* The set-up in force is that of the last protection rule; the user ids too, if every
\* rule that names a file names it with the same ids: a set-up has one pair of ids.
RulesProtect ==
    LET st == FoldLeft(Protect, NoProtection, rules)
        current == {k \in DOMAIN rules : ~rules[k].default}
        consistent == \A j, k \in DOMAIN rules :
                         rules[j].name = rules[k].name => rules[j].ids = rules[k].ids
        ids == IdsMeant
    IN
    /\ (IF st.HTProt = NoSetup THEN Nothing ELSE st.HTProt[1])
          = IF current = {} THEN Nothing ELSE NameAt(Max(current))
    /\ consistent => st.HTIds = ids
    /\ consistent => HTAA_getUid(st.HTIds, "www") =
                        IF ids # NoIds /\ ids.uid = 5 THEN 5
                        ELSE IF ids # NoIds /\ ids.uname = "alice" THEN 7 ELSE 80
    /\ consistent => HTAA_getGid(st.HTIds, "unknown") =
                        IF ids # NoIds /\ ids.gid = 4 THEN 4
                        ELSE IF ids # NoIds /\ ids.gname = "staff" THEN 6 ELSE 98

\* What a template means; one that is longer than the name and the wildcard cannot
\* match.
MeansName(t, name) ==
    \/ t = name
    \/ \E i \in DOMAIN t :
          /\ t[i] = "*"
          /\ Len(t) <= Len(name) + 1
          /\ SubSeq(t, 1, i - 1) = SubSeq(name, 1, i - 1)
          /\ IsSuffix(SubSeq(t, i + 1, Len(t)), name)

\* The entries that are used are those whose template matches and that allow the
\* method, in order; the full entry is the first whose template matches.  (Where a
\* template does not fit the buffer, its end is not compared.)
EntriesRight ==
    \A name \in Filenames, method \in {"GET", "PUT"} :
        LET fits == \A k \in DOMAIN acl : Len(acl[k].template) <= Len(name) + 1
            meant == {k \in DOMAIN acl : MeansName(acl[k].template, name)}
            allowed == {k \in meant : method \in acl[k].methods}
        IN  fits =>
            /\ Authorized(acl, name, method) = SetToSortSeq(allowed, <)
            /\ HTAA_getFullAclEntry(acl, name) = Min(meant \cup {Len(acl) + 1})

\* All three: what an administrator wrote is what protects.
AccessFilesRight ==
    /\ setup # <<>> => SetupRead
    /\ rules # <<>> => RulesProtect
    /\ acl # <<>> => EntriesRight

-----------------------------------------------------------------------------
(* The password file under every sequence of htadm's commands, against the *)
(* users and passwords that the commands gave.                             *)

CONSTANTS
    Time,         \* when a password is encrypted
    MaxPieces,    \* the bound of a password's pieces
    MaxCommands   \* of the commands that change it

VARIABLES
    pwfile, backup, tmp, admin,
    users,        \* the password of every user of the file
    users1,       \* of the file that a command has begun to put in its place
    commands      \* how many there were

passwordVars == <<pwfile, backup, tmp, admin, users, users1, commands>>

\* MAX_PASSWORD_LEN is 4*13, and 13 what crypt makes of a piece.
PiecesKept == 4

\* The longest entry, with a real name and its line end, just fills newentry, and
\* fgets reads it in two.
File == INSTANCE PasswordFile WITH
    User <- {"u", "v"}, Piece <- {"p", "q"}, Salt <- Time,
    MAX_LINE_LEN <- MaxPieces + 5, MAX_PASSWORD_LEN <- PiecesKept

NoUsers == [u \in {} |-> <<>>]

PasswordInit == File!Init /\ users = NoUsers /\ users1 = NoUsers /\ commands = 0

\* The longest is of more pieces than are kept of it.
Password == {<<>>, <<"p">>, <<"q", "p">>, [k \in 1..MaxPieces |-> "p"]}

\* What a client may give for one.
Tried == {<<>>} \cup {<<first>> \o [k \in 1..n |-> other] :
                        first, other \in {"p", "q"}, n \in 0..MaxPieces - 1}

\* A command on one user's entry: there or not, and what becomes of it.
Command(username, there, contents, after) ==
    LET found == File!Search(<<>>, pwfile, username) IN
    /\ pwfile # File!Missing
    /\ IF (found.line # <<>>) # there THEN File!Refuse /\ UNCHANGED <<users, users1>>
       ELSE \/ /\ File!Write(contents)
               /\ users1' = after
               /\ UNCHANGED users
            \/ File!WriteFails(contents) /\ UNCHANGED <<users, users1>>
    /\ commands < MaxCommands /\ commands' = commands + 1

EntryOf(username) == File!Search(<<>>, pwfile, username)

AddUser(username, password, salt, realname) ==
    Command(username, FALSE,
            File!HTADM_ADDUSER(EntryOf(username), username, password, salt, realname),
            [u \in DOMAIN users \cup {username} |-> IF u = username THEN password ELSE users[u]])

Passwd(username, password, salt) ==
    Command(username, TRUE, File!HTADM_PASSWD(EntryOf(username), username, password, salt),
            [u \in DOMAIN users \cup {username} |-> IF u = username THEN password ELSE users[u]])

DelUser(username) ==
    Command(username, TRUE, File!HTADM_DELUSER(EntryOf(username)),
            Restrict(users, DOMAIN users \ {username}))

PasswordNext ==
    \/ File!HTADM_CREATE /\ users' = NoUsers /\ UNCHANGED <<users1, commands>>
    \/ \E u \in {"u", "v"}, password \in Password, salt \in Time :
          \/ \E realname \in {<<>>, <<File!Word>>} : AddUser(u, password, salt, realname)
          \/ Passwd(u, password, salt)
    \/ \E u \in {"u", "v"} : DelUser(u)
    \/ File!RenameOld /\ UNCHANGED <<users, users1, commands>>
    \/ File!RenameNew /\ users' = users1 /\ UNCHANGED <<users1, commands>>
    \/ File!Stop /\ UNCHANGED <<users, users1, commands>>

-----------------------------------------------------------------------------
\* A password is good if its first piece is the user's, and it is not shorter, in
\* pieces, than what is kept of the user's; a user without one needs none.
Good(of, u, given) ==
    /\ u \in DOMAIN of
    /\ \/ of[u] = <<>>
       \/ Len(given) >= Min({Len(of[u]), PiecesKept}) /\ given[1] = of[u][1]

Answers(file, of) ==
    \A u \in {"u", "v"}, given \in Tried : File!Check(file, 1, u, given) <=> Good(of, u, given)

\* Whatever commands were given, failed for lack of space or were stopped: the
\* file is that of the last one that was completed; and where there is none for
\* a moment, or for good since htadm was stopped, the one before and the next are
\* kept beside it.
PasswordsRight ==
    IF pwfile # File!Missing THEN Answers(pwfile, users)
    ELSE backup # File!Missing => Answers(backup, users) /\ Answers(tmp, users1)

-----------------------------------------------------------------------------
(* Pictures: what htimage makes of a configuration file and of a click.    *)

CONSTANTS
    NoValue,      \* a variable or option that is not there
    Coordinate,   \* the coordinates of shapes
    Radius,       \* of circles
    MaxPoints,    \* the bound of the corners of a polygon
    MaxTotal      \* of the points of the other shapes of a picture

VARIABLE picture  \* the shapes of a picture, as meant, in order

imageVars == picture

Program == INSTANCE Programs WITH Letter <- {"a", "b"}, None <- NoValue

Point == [x : Coordinate, y : Coordinate]

\* Clicks at the coordinates of shapes, between and beyond them.
Click == Min(Coordinate) - 1 .. Max(Coordinate) + 1

ImageInit == picture = <<>>

Points == FoldLeft(LAMBDA n, shape : n + Len(shape.coords), 0, picture)

Alone == picture # <<>> /\ picture[1].type = "poly"

AddShape(type, coords, radius) ==
    /\ picture # <<>> => ~Alone /\ Points + Len(coords) <= MaxTotal
    /\ picture' = Append(picture, [type |-> type, coords |-> coords, radius |-> radius])

\* A polygon, alone in its picture, and one more corner of it.
AddPolygon(p) ==
    /\ picture = <<>>
    /\ picture' = <<[type |-> "poly", coords |-> <<p>>, radius |-> 0]>>

AddCorner(p) ==
    /\ Alone /\ Points < MaxPoints
    /\ picture' = [picture EXCEPT ![1].coords = Append(@, p)]

ImageNext ==
    \/ \E p, q \in Point : AddShape("rect", <<p, q>>, 0)
    \/ \E p \in Point, radius \in Radius : AddShape("circ", <<p>>, radius)
    \/ \E p \in Point : AddPolygon(p)
    \/ \E p \in Point : AddCorner(p)

-----------------------------------------------------------------------------
\* The items of a picture's file; again: each pair of a polygon stands twice,
\* and the first once more at its end.
Url(k) == <<"str", <<"u1", "u2", "u3", "u4">>[k]>>
Pair(p) == << <<"(">>, <<"int", p.x>>, <<",">>, <<"int", p.y>>, <<")">> >>
Pairs(coords) == FlattenSeq([k \in DOMAIN coords |-> Pair(coords[k])])

ShapeItems(shape, k, again) ==
    IF shape.type = "rect" THEN << <<"str", "rectangle">> >> \o Pairs(shape.coords) \o <<Url(k)>>
    ELSE IF shape.type = "circ"
    THEN << <<"str", "circle">> >> \o Pairs(shape.coords) \o << <<"int", shape.radius>>, Url(k)>>
    ELSE IF ~again THEN << <<"str", "polygon">> >> \o Pairs(shape.coords) \o <<Url(k)>>
    ELSE << <<"str", "polygon">> >>
         \o FlattenSeq([i \in DOMAIN shape.coords |->
                          Pair(shape.coords[i]) \o Pair(shape.coords[i])])
         \o Pair(shape.coords[1]) \o <<Url(k)>>

Default == << <<"str", "default">>, <<"str", "u0">> >>

PictureFile(again) ==
    Default \o FlattenSeq([k \in DOMAIN picture |-> ShapeItems(picture[k], k, again)])

\* A click is inside a polygon that is on a line of it, or from where an odd
\* number of lines is crossed to the right; a line has its lower end only.
Lines(coords) == {<<coords[k], coords[(k % Len(coords)) + 1]>> : k \in DOMAIN coords}

Area(p, q, x, y) == (q.x - p.x) * (y - p.y) - (x - p.x) * (q.y - p.y)

On(p, q, x, y) ==
    /\ Area(p, q, x, y) = 0
    /\ Min({p.x, q.x}) <= x /\ x <= Max({p.x, q.x})
    /\ Min({p.y, q.y}) <= y /\ y <= Max({p.y, q.y})

RightOf(p, q, x, y) ==
    \/ p.y <= y /\ y < q.y /\ Area(p, q, x, y) > 0
    \/ q.y <= y /\ y < p.y /\ Area(p, q, x, y) < 0

Crossings(coords, x, y) ==
    Cardinality({k \in DOMAIN coords : RightOf(coords[k], coords[(k % Len(coords)) + 1], x, y)})

Holds(shape, x, y) ==
    LET c == shape.coords IN
    IF shape.type = "rect"
    THEN \E i, j \in 1..2 : c[i].x <= x /\ x <= c[3 - i].x /\ c[j].y <= y /\ y <= c[3 - j].y
    ELSE IF shape.type = "circ"
    THEN (c[1].x - x) ^ 2 + (c[1].y - y) ^ 2 <= shape.radius ^ 2
    ELSE (\E line \in Lines(c) : On(line[1], line[2], x, y)) \/ Crossings(c, x, y) % 2 = 1

Meant(x, y) ==
    LET k == SelectInSeq(picture, LAMBDA shape : Holds(shape, x, y)) IN
    IF k = 0 THEN "u0" ELSE Url(k)[2]

Queries(x, y) ==
    {<< <<"int", x>>, <<",">>, <<"int", y>> >>,
     << <<"name", "x">>, <<"=">>, <<"int", x>>, <<"&">>, <<"name", "y">>, <<"=">>, <<"int", y>> >>,
     << <<"name", "y">>, <<"=">>, <<"int", y>>, <<"&">>, <<"name", "x">>, <<"=">>, <<"int", x>> >>}

\* A polygon of one corner; or a click as high as a corner, and on none.
Level(shape, x, y) ==
    /\ shape.type = "poly"
    /\ \/ Cardinality(Range(shape.coords)) = 1
       \/ /\ \E p \in Range(shape.coords) : p.y = y
          /\ [x |-> x, y |-> y] \notin Range(shape.coords)

\* A click leads to the first shape that contains it, in either form of a query,
\* however often the file repeats a corner and whether or not it closes a path;
\* clicks level with a corner of a polygon, and polygons of one corner, are left
\* to the program.
ImagesRight ==
    LET pict == Program!parse_picture(PictureFile(FALSE)).value
        x1 == Min(Click)
        y1 == Max(Click) IN
    picture # <<>> =>
    /\ Program!parse_picture(PictureFile(TRUE)).value = pict
    /\ \A x, y \in Click :
          \/ \E k \in DOMAIN picture : Level(picture[k], x, y)
          \/ Program!get_url(pict, x, y) = Meant(x, y)
    /\ \A query \in Queries(x1, y1) :
          Program!htimage(PictureFile(FALSE), query) = Program!get_url(pict, x1, y1)

-----------------------------------------------------------------------------
(* Forms and keywords: what cgiparse gives a script, against what a client *)
(* filled in.                                                              *)

CONSTANTS
    MaxPairs,     \* the bound of the fields of a form
    MaxValues     \* of the characters in all their values

VARIABLE form     \* the names and values of a form, as filled in

formVars == form

FormInit == form = <<>>

Typed == {"a", " ", "'", "=", "&", "+"}
FormName == {<<<<"a">>>>, <<<<"a">>, <<"b">>>>, <<<<"=">>>>}

AddField(name) ==
    /\ Len(form) < MaxPairs
    /\ form' = Append(form, [name |-> name, value |-> <<>>])

AddToValue(c) ==
    /\ form # <<>>
    /\ FoldLeft(LAMBDA n, f : n + Len(f.value), 0, form) < MaxValues
    /\ form' = [form EXCEPT ![Len(form)].value = Append(@, <<c>>)]

FormNext ==
    \/ \E name \in FormName : AddField(name)
    \/ \E c \in Typed : AddToValue(c)

-----------------------------------------------------------------------------
\* A client sends codes for what has a meaning, or for all; plusses for spaces.
Code(t, all) ==
    [k \in DOMAIN t |-> IF t[k] = <<" ">> /\ ~all THEN <<"+">>
                        ELSE IF all \/ t[k] \in {<<"=">>, <<"&">>, <<"+">>} THEN <<"%", t[k][1]>>
                        ELSE t[k]]

Joined(texts, separator) ==
    FlattenSeq([k \in DOMAIN texts |-> IF k = 1 THEN texts[k] ELSE separator \o texts[k]])

FormQuery(all) ==
    Joined([k \in DOMAIN form |-> Code(form[k].name, all) \o <<<<"=">>>> \o Code(form[k].value, all)],
           <<<<"&">>>>)

\* Keywords are the values, spaces by codes.
KeywordQuery ==
    Joined([k \in DOMAIN form |-> Code(form[k].value, TRUE)], <<<<"+">>>>)

\* The same query comes in the environment, or in a body that has no end.
Environments(query) ==
    {[request_method |-> "GET", query_string |-> query, content_length |-> NoValue,
      stdin |-> <<>>]}
    \cup {[request_method |-> "POST", query_string |-> q, content_length |-> Len(query),
           stdin |-> query \o <<<<"&">>>>] : q \in {NoValue, <<>>}}

Options(what) ==
    [what |-> {what}, value |-> NoValue, separator |-> NoValue, count |-> FALSE, nth |-> 0]

Filled(name) ==
    LET found == SelectSeq(form, LAMBDA f : f.name = name) IN
    [k \in DOMAIN found |-> found[k].value]

\* Fields by their first places.
FieldNames == FoldLeft(LAMBDA names, f : IF SelectInSeq(names, LAMBDA n : n = f.name) > 0 THEN names
                                    ELSE Append(names, f.name), <<>>, form)

\* What a shell reads: quotes enclose, outside them a backslash takes the next.
RECURSIVE Unquoted(_, _, _)
Unquoted(text, quoted, read) ==
    IF text = <<>> THEN IF quoted THEN <<<<"open">>>> ELSE read
    ELSE IF text[1] = <<"'">> THEN Unquoted(Tail(text), ~quoted, read)
    ELSE IF text[1] = <<"\\">> /\ ~quoted
    THEN Unquoted(Tail(Tail(text)), FALSE, Append(read, text[2]))
    ELSE Unquoted(Tail(text), quoted, Append(read, text[1]))

ForShell(name) == name # <<<<"=">>>>

FormGiven(env) ==
    LET result == Program!cgiparse(Options("form"), env)
        variables == SelectSeq(FieldNames, ForShell) IN
    /\ [k \in DOMAIN result.lines |->
          <<result.lines[k].name, Unquoted(result.lines[k].text, FALSE, <<>>)>>]
       = [k \in DOMAIN variables |->
            <<variables[k], Joined(Filled(variables[k]), <<<<",">>, <<" ">>>>)>>]
    /\ ForShell(FieldNames[1]) =>
          \A k \in DOMAIN result.lines : result.lines[k].semicolon <=> k > 1
    /\ Program!cgiparse([Options("form") EXCEPT !.count = TRUE], env).number = Len(FieldNames)

ValuesGiven(env) ==
    \A name \in FormName :
        LET o == [Options("value") EXCEPT !.value = name]
            values == Filled(name) IN
        IF values = <<>> THEN Program!cgiparse(o, env) = [status |-> 3]
        ELSE /\ Program!cgiparse(o, env).lines = values
             /\ Program!cgiparse([o EXCEPT !.count = TRUE], env).number = Len(values)
             /\ \A n \in DOMAIN values :
                   Program!cgiparse([o EXCEPT !.nth = n], env).lines = <<values[n]>>

\* A script gets every field and every value as they were filled in, in order,
\* however they were encoded and whichever way they came; what a shell evaluates
\* gives the values back. And a list of keywords is not taken for a form.
FormsRight ==
    form # <<>> =>
    /\ \A all \in BOOLEAN : \A env \in Environments(FormQuery(all)) :
          FormGiven(env) /\ ValuesGiven(env)
    /\ \A env \in Environments(KeywordQuery) :
          /\ Program!cgiparse(Options("keywords"), env).lines = [k \in DOMAIN form |-> form[k].value]
          /\ KeywordQuery # <<>> => Program!cgiparse(Options("form"), env) = [status |-> 3]

-----------------------------------------------------------------------------
\* The files that say who may do what are read as they are meant, and those of
\* passwords survive being changed.
FilesRight == AccessFilesRight /\ PasswordsRight

\* The programs beside the daemon: a click finds its shape, and a shell gets the
\* fields of a form.
ProgramsRight == ImagesRight /\ FormsRight

-----------------------------------------------------------------------------
(* Names: patterns, group files and paths, and all the families together.    *)

CONSTANTS
    Alphabets,     \* the sets of characters of one pattern
    Member,        \* the names that occur in a group file
    MaxPattern,    \* the bound of a pattern's length
    MaxText,       \* of the length of a text compared with it
    MaxGroups,     \* of the declarations in a group file
    MaxItems,      \* of the items of a declaration
    MaxMembers,    \* of the names and addresses in the whole file
    MaxSegments,   \* of the segments of a path
    MaxRelated     \* of the segments of a path it is related to

VARIABLES
    pattern,   \* a rule's pattern, not compiled
    written,   \* the declarations of a group file, as meant
    path,      \* the segments of a path
    family     \* which of the algorithms this behaviour is about

texts == <<pattern, written, path>>
vars == <<family, texts, formatVars, treeVars, listingVars,
          fieldVars, markupVars, converterVars, accessVars,
          imageVars, anchorVars, passwordVars, formVars, conditionalVars>>

\* The wildcard between letters, with the escape, and before user directories.
MCAlphabets == {{"a", "b", "*"}, {"a", "*", "\\"}, {"/", "~", "*"}}

\* LowerCase, for the characters used here (none has two cases).
Itself == [c \in UNION MCAlphabets \cup {NewLine} |-> c]

\* The inputs of the other families stay as they are.
Init ==
    /\ family \in {"pattern", "groups", "path", "format", "tree", "listing",
                   "fields", "markup", "converter", "access",
                   "image", "anchors", "passwords", "form", "conditional"}
    /\ pattern = <<>> /\ written = <<>> /\ path = <<>>
    /\ IF family = "format" THEN FormatInit ELSE dir = <<>> /\ accepted = NoneAccepted
    /\ TreeInit
    /\ IF family = "listing" THEN ListingInit
       ELSE server = "UNIX" /\ now = 0 /\ listed = <<>> /\ reply = <<>>
    /\ FieldInit /\ MarkupInit /\ ConverterInit /\ AccessInit
    /\ ImageInit /\ AnchorInit /\ PasswordInit /\ FormInit /\ ConditionalInit

\* Characters of one alphabet.
AddCharacter(c) ==
    /\ Len(pattern) < MaxPattern
    /\ \E A \in Alphabets : Range(pattern) \cup {c} \subseteq A
    /\ pattern' = Append(pattern, c)
    /\ UNCHANGED <<written, path>>

\* Addresses and users of the file, to bound it.
Size(item) == Len(item.users) + Len(item.addresses)
Total(groups) ==
    FoldLeft(LAMBDA n, g : FoldLeft(LAMBDA m, item : m + Size(item), n, g.item_list), 0, groups)

Items == {item \in [users : BoundedSeq(Member, 2), addresses : BoundedSeq(Template, 2)] :
            Size(item) > 0}

AddGroup(name, item) ==
    /\ Len(written) < MaxGroups
    /\ written' = Append(written, [group_name |-> name, item_list |-> <<item>>])
    /\ Total(written') <= MaxMembers
    /\ UNCHANGED <<pattern, path>>

AddItem(item) ==
    /\ written # <<>>
    /\ Len(Last(written).item_list) < MaxItems
    /\ written' = [written EXCEPT ![Len(written)].item_list = Append(@, item)]
    /\ Total(written') <= MaxMembers
    /\ UNCHANGED <<pattern, path>>

AddSegment(s) ==
    /\ Len(path) < MaxSegments
    /\ path' = Append(path, s)
    /\ UNCHANGED <<pattern, written>>

TextNext ==
    \/ /\ family = "pattern"
       /\ \E c \in UNION Alphabets : AddCharacter(c)
    \/ /\ family = "groups"
       /\ \/ \E name \in Member, item \in Items : AddGroup(name, item)
          \/ \E item \in Items : AddItem(item)
    \/ /\ family = "path"
       /\ \E s \in Segment : AddSegment(s)

\* One family's input grows, the others stay.
Next ==
    /\ UNCHANGED family
    /\ IF family \in {"pattern", "groups", "path"} THEN TextNext ELSE UNCHANGED texts
    /\ IF family = "format" THEN FormatNext ELSE UNCHANGED formatVars
    /\ IF family = "tree" THEN TreeNext ELSE UNCHANGED treeVars
    /\ IF family = "listing" THEN ListingNext ELSE UNCHANGED listingVars
    /\ IF family = "fields" THEN FieldNext ELSE UNCHANGED fieldVars
    /\ IF family = "markup" THEN MarkupNext ELSE UNCHANGED markupVars
    /\ IF family = "converter" THEN ConverterNext ELSE UNCHANGED converterVars
    /\ IF family = "access" THEN AccessNext ELSE UNCHANGED accessVars
    /\ IF family = "image" THEN ImageNext ELSE UNCHANGED imageVars
    /\ IF family = "anchors" THEN AnchorNext ELSE UNCHANGED anchorVars
    /\ IF family = "passwords" THEN PasswordNext ELSE UNCHANGED passwordVars
    /\ IF family = "form" THEN FormNext ELSE UNCHANGED formVars
    /\ IF family = "conditional" THEN ConditionalNext ELSE UNCHANGED conditionalVars

Spec == Init /\ [][Next]_vars

-----------------------------------------------------------------------------
(* Patterns.                                                               *)

Texts == BoundedSeq(Range(pattern) \cup {NewLine}, MaxText)

\* What a pattern means, by the text of the rule: "*" is any text, "\" takes
\* the next character as it is (and is a line end, at the end).
Glob(p, s) ==
    LET g[i \in 1..Len(p) + 1, j \in 1..Len(s) + 1] ==
          IF i > Len(p) THEN j > Len(s)
          ELSE IF p[i] = "*" THEN \E k \in j..Len(s) + 1 : g[i + 1, k]
          ELSE IF p[i] = "\\" /\ i < Len(p)
          THEN j <= Len(s) /\ s[j] = p[i + 1] /\ g[i + 2, j + 1]
          ELSE /\ j <= Len(s)
               /\ s[j] = IF p[i] = "\\" THEN NewLine ELSE p[i]
               /\ g[i + 1, j + 1]
    IN  g[1, 1]

Overlaps(text) ==
    \E n \in 1..Len(text) - 1 : SubSeq(text, 1, n) = SubSeq(text, Len(text) - n + 1, Len(text))

UserDirs(s) == {j \in DOMAIN s : is_user_dir(SubSeq(s, j, Len(s)))}

\* A translation to the rule's own pattern gives the name back: each wildcard
\* of the equivalent gets the text its counterpart stood for.
WildRoundTrip ==
    LET pat == HTPattern_new(pattern) IN
    \A act \in Texts : HTPattern_match(pat, pat, act) \subseteq {act}

\* A name that a pattern matches is one that the pattern means; and it matches
\* every such name, if no text behind a wildcard overlaps itself and there is no
\* user directory in the name.
MatchesGlob ==
    LET pat == HTPattern_new(pattern)
        overlaps == \E k \in DOMAIN pat : pat[k].wild /\ Overlaps(pat[k].text) IN
    pattern # <<>> =>
        \A act \in Texts :
            IF HTPattern_match(pat, <<>>, act) # {} THEN Glob(pattern, act)
            ELSE Glob(pattern, act) => overlaps \/ UserDirs(act) # {}

-----------------------------------------------------------------------------
(* Groups.                                                                 *)

\* A list of members: one by itself or in parentheses, more of them in
\* parentheses, with line ends after the commas if split.
Printed(members, parentheses, split) ==
    LET comma == IF split THEN <<",", "nl">> ELSE <<",">>
        tail == FlattenSeq([k \in 1..Len(members) - 1 |-> comma \o <<members[k + 1]>>]) IN
    IF members = <<>> THEN <<>>
    ELSE IF Len(members) = 1 /\ ~parentheses THEN members
    ELSE <<"(", members[1]>> \o tail \o <<")">>

PrintedItem(item, parentheses, split) ==
    Printed(item.users, parentheses, split)
    \o (IF item.addresses = <<>> THEN <<>>
        ELSE <<"@">> \o Printed(item.addresses, parentheses, split))

PrintedGroup(g, parentheses, split) ==
    LET comma == IF split THEN <<",", "nl">> ELSE <<",">> IN
    <<g.group_name, ":">> \o PrintedItem(g.item_list[1], parentheses, split)
    \o FlattenSeq([k \in 1..Len(g.item_list) - 1 |->
                     comma \o PrintedItem(g.item_list[k + 1], parentheses, split)])
    \o <<"nl">>

PrintedFile(groups, parentheses, split) ==
    FlattenSeq([k \in DOMAIN groups |-> PrintedGroup(groups[k], parentheses, split)])

\* As HTLists: the last one first.
Listed(groups) ==
    Reverse([k \in DOMAIN groups |->
               [group_name |-> groups[k].group_name,
                item_list |-> Reverse([i \in DOMAIN groups[k].item_list |->
                    [users |-> Reverse(groups[k].item_list[i].users),
                     addresses |-> Reverse(groups[k].item_list[i].addresses)]])]])

\* What may follow: nothing, a stray item, and beginnings of a declaration.
Garbage ==
    LET n == CHOOSE n \in Member : TRUE IN
    {<<>>, <<",", "nl">>, <<n, ":">>, <<n, ":", "(", n, "nl", n>>}

\* A group file is read as it is meant, however its lists are laid out; what
\* comes behind the declarations neither changes nor hides one of them.
GroupsParsed ==
    \A parentheses, split \in BOOLEAN, garbage \in Garbage :
        IsSuffix(Listed(written),
                 parse_group_file(PrintedFile(written, parentheses, split) \o garbage))

\* Whom a group admits: an item of it admits the client's address and the user,
\* whose name it may give through groups declared earlier.
Admits(list, i0, user, client) ==
    LET admits[i \in DOMAIN list] ==
          \E k \in DOMAIN list[i].item_list :
              LET item == list[i].item_list[k] IN
              /\ item.addresses = <<>> \/ Range(item.addresses) \cap client # {}
              /\ \/ item.users = <<>>
                 \/ \E u \in Range(item.users) :
                      LET earlier == {j \in i + 1..Len(list) : list[j].group_name = u} IN
                      IF earlier = {} THEN Named(u, user)
                      ELSE \E j \in earlier : admits[j] /\ \A n \in earlier : j <= n
    IN  admits[i0]

\* The membership test admits exactly those: neither the order in which items
\* and members are tried nor what a nested call leaves behind decides it.
Membership ==
    LET list == Listed(written) IN
    \A i \in DOMAIN list, user \in Member \cup {Nothing}, client \in SUBSET Template :
        (HTAA_userAndInetInGroup(list, i, user, client) = "OK") <=> Admits(list, i, user, client)

\* Both: a group file admits whom its writer meant.
GroupsRight == written # <<>> => GroupsParsed /\ Membership

-----------------------------------------------------------------------------
(* Paths.                                                                  *)

\* The directory a path names, from the root: "." and empty segments stay, ".."
\* goes up.  above: it has been above the root.
Walk(at, s) ==
    IF s \in {".", ""} THEN at
    ELSE IF s # ".." THEN [at EXCEPT !.dir = Append(@, s)]
    ELSE IF at.dir = <<>> THEN [at EXCEPT !.above = TRUE]
    ELSE [at EXCEPT !.dir = Front(@)]

Resolve(p) == FoldLeft(Walk, [dir |-> <<>>, above |-> FALSE], p)

Absolute(p) == Len(p) > 1 /\ p[1] = ""

\* A path that the server accepts never leads above the root, and simplifying
\* has not changed what it names.
AcceptedResolves ==
    LET simple == HTSimplify(path) IN
    Absolute(path) /\ ~Dotted(simple) =>
        /\ Resolve(simple) = Resolve(path)
        /\ ~Resolve(path).above

\* HTSimplify never looks behind the end of a path.
NoOverread == path # <<>> => ~Simplify(path).beyond

URL(p) == [access |-> "http", host |-> "host", path |-> p, anchor |-> None]

Related == {r \in BoundedSeq(Segment \ Dots, MaxRelated) :
              Absolute(r) /\ HTSimplify(r) = r /\ (r[2] # "" \/ Len(r) = 2)}

\* A name relative to another gives the name back, parsed relative to that:
\* of simplified absolute names without dot segments.  There is no relative name
\* of the root, and none for a directory in itself: it would be empty.
RelativeInverse ==
    Absolute(path) /\ HTSimplify(path) = path /\ path[2] # "" /\ Range(path) \cap Dots = {} =>
        \A r \in Related :
            LET name == HTRelative(URL(path), URL(r)) IN
            name.path # <<"">> => HTParse(name, URL(r)) = URL(path)

\* Names: what HTWild.c makes of a rule is what the rule says; accepted paths stay
\* below the root and are read within their bounds, and relative ones lead back.
NamesRight ==
    /\ pattern # <<>> => WildRoundTrip /\ MatchesGlob
    /\ AcceptedResolves /\ NoOverread /\ RelativeInverse

=============================================================================
