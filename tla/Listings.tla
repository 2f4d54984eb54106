------------------------------- MODULE Listings -------------------------------
(***************************************************************************)
(* Directory listings, in two parts: the sorted tree that holds them, and  *)
(* the newsgroups and bookmarks (Library/Implementation/HTBTree.c), where  *)
(* an element is added at its place and the way back to the top is         *)
(* balanced by single rotations; and, further down, how the FTP client     *)
(* reads listings (HTFTP.c).                                               *)
(***************************************************************************)
EXTENDS Integers, SequencesExt, FiniteSetsExt

CONSTANTS
    Object,      \* the objects, ordered as the comparer orders them
    MaxElements  \* the bound of a tree's elements

VARIABLES
    tree,        \* the elements, in the order in which they were added
    top,         \* tree->top, NULL if the tree is empty
    father,      \* father_of_element while the tree is balanced, else NULL
    corrections  \* rotations of this HTBTree_add

treeVars == <<tree, top, father, corrections>>

NULL == 0
Side == {"left", "right"}
Other(s) == IF s = "left" THEN "right" ELSE "left"

NewElement(object, up) ==
    [object |-> object, up |-> up,
     child |-> [s \in Side |-> NULL], depth |-> [s \in Side |-> 0]]

\* 1 + MAXIMUM(left_depth, right_depth)
Height(t, e) ==
    1 + IF t[e].depth["left"] > t[e].depth["right"]
        THEN t[e].depth["left"] ELSE t[e].depth["right"]

TreeInit == tree = <<>> /\ top = NULL /\ father = NULL /\ corrections = 0

\* The element under which the object comes, and the side.
Place(object) ==
    LET from[e \in DOMAIN tree] ==
          LET s == IF object < tree[e].object THEN "left" ELSE "right" IN
          IF tree[e].child[s] = NULL THEN [up |-> e, side |-> s] ELSE from[tree[e].child[s]]
    IN  from[top]

RECURSIVE Deepened_One(_, _, _, _)
RECURSIVE Deepened(_, _, _, _)

\* Mutant: only the father's depth is changed.
Deepened_One(t, e, child, height) ==
    LET s == IF t[e].child["left"] = child THEN "left" ELSE "right" IN
    [t EXCEPT ![e].depth[s] = height]

\* The child of e, which stands in its place, has another height: the depths on
\* the way up, until one has not changed.
Deepened(t, e, child, height) ==
    LET s == IF t[e].child["left"] = child THEN "left" ELSE "right"
        t1 == [t EXCEPT ![e].depth[s] = height]
    IN  IF t[e].depth[s] = height \/ t[e].up = NULL THEN t1
        ELSE Deepened(t1, t[e].up, e, Height(t1, e))

\* HTBTree_add, first part.
HTBTree_add(object) ==
    LET n == Len(tree) + 1
        place == Place(object)
        grown == Append([tree EXCEPT ![place.up].child[place.side] = n],
                        NewElement(object, place.up))
    IN
    /\ father = NULL /\ Len(tree) < MaxElements
    /\ IF top = NULL
       THEN /\ tree' = <<NewElement(object, NULL)>> /\ top' = 1
            /\ UNCHANGED <<father, corrections>>
       ELSE /\ tree' = Deepened(grown, place.up, n, 1)
            /\ father' = place.up /\ corrections' = 0
            /\ UNCHANGED top

Unbalanced(t, e) == t[e].depth["left"] - t[e].depth["right"] \notin -1..1

\* Up to the next element.
Climb ==
    /\ father # NULL /\ corrections < 7
    /\ ~Unbalanced(tree, father) /\ tree[father].up # NULL
    /\ father' = tree[father].up
    /\ UNCHANGED <<tree, top, corrections>>

\* A single element on one side that hangs on the wrong side: rotating that would
\* go on for ever.
Zigzag(e, s) ==
    LET a == tree[e].child[s] IN
    /\ tree[e].child[Other(s)] = NULL
    /\ tree[a].child[s] = NULL
    /\ LET b == tree[a].child[Other(s)] IN
       tree[b].child["left"] = NULL /\ tree[b].child["right"] = NULL

\* The child a of f on side s takes its place.  First the depths are corrected.
Corrected(t, f, s) ==
    LET o == Other(s)
        a == t[f].child[s]
        t1 == [t EXCEPT ![f].depth[s] = t[a].depth[o]]
        t2 == [t1 EXCEPT ![a].depth[o] = Height(t1, f)]
    IN  IF t[f].up = NULL THEN t2 ELSE Deepened(t2, t[f].up, f, Height(t2, a))

\* Then the links are: a gets f on the other side, and f what a had there.
Relinked(t, f, s) ==
    LET o == Other(s)
        a == t[f].child[s]
        g == t[f].up
        inner == t[a].child[o]
        t1 == [t EXCEPT ![f].child[s] = inner, ![f].up = a,
                        ![a].child[o] = f, ![a].up = g]
        t2 == IF inner = NULL THEN t1 ELSE [t1 EXCEPT ![inner].up = f]
    IN  IF g = NULL THEN t2
        ELSE [t2 EXCEPT ![g].child = [x \in Side |-> IF t[g].child[x] = f THEN a ELSE @[x]]]

Rotated(t, f, s) == Relinked(Corrected(t, f, s), f, s)

Balance ==
    LET s == IF tree[father].depth["left"] > tree[father].depth["right"]
             THEN "left" ELSE "right" IN
    /\ father # NULL /\ corrections < 7
    /\ Unbalanced(tree, father)
    /\ tree' = Rotated(tree, father, s)
    /\ corrections' = IF Zigzag(father, s) THEN 7 ELSE corrections + 1
    /\ UNCHANGED <<top, father>>

\* The element without a father is the top.
WithObject ==
    LET root[e \in DOMAIN tree] == IF tree[e].up = NULL THEN e ELSE root[tree[e].up] IN
    /\ father # NULL
    /\ corrections >= 7 \/ (~Unbalanced(tree, father) /\ tree[father].up = NULL)
    /\ top' = root[father]
    /\ father' = NULL /\ corrections' = 0
    /\ UNCHANGED tree

TreeNext ==
    \/ \E object \in Object : HTBTree_add(object)
    \/ Climb
    \/ Balance
    \/ WithObject

-----------------------------------------------------------------------------

\* HTBTree_next: the next element to the right, of NULL the leftmost one.
HTBTree_next(ele) ==
    LET leftmost[e \in DOMAIN tree] ==
          IF tree[e].child["left"] = NULL THEN e ELSE leftmost[tree[e].child["left"]]
        back[e \in DOMAIN tree] ==
          LET up == tree[e].up IN
          IF up # NULL /\ tree[up].child["right"] = e THEN back[up] ELSE up
    IN  IF ele = NULL THEN IF top = NULL THEN NULL ELSE leftmost[top]
        ELSE IF tree[ele].child["right"] # NULL THEN leftmost[tree[ele].child["right"]]
        ELSE back[ele]

\* The elements as HTBTree_next shows them (one more step than there are elements).
Listing ==
    LET list[n \in 0..Len(tree) + 1] ==
          IF n = 0 THEN <<>>
          ELSE LET l == list[n - 1]
                   next == HTBTree_next(IF l = <<>> THEN NULL ELSE Last(l))
               IN  IF n > 1 /\ l = <<>> THEN l ELSE
                   IF next = NULL THEN l ELSE Append(l, next)
    IN  list[Len(tree) + 1]

-----------------------------------------------------------------------------
(* How the FTP client reads what servers of different kinds answer         *)
(* (Library/Implementation/HTFTP.c): the lines of a directory listing, the *)
(* dates in it, and replies of several lines.                              *)
(*                                                                         *)
(* A line is the sequence of its columns: words, numbers and dates.  Dates  *)
(* are counted in units of which a year has twelve.                        *)

Word(w) == [kind |-> "word", is |-> w]
Number(n) == [kind |-> "number", is |-> n]
\* The year is 0 where "ls" gives the time of the day.
Date(unit, year) == [kind |-> "date", is |-> <<unit, year>>]

IsNumber(column) == column.kind = "number"
Says(line, w) == {i \in DOMAIN line : line[i].kind = "word" /\ line[i].is = w}

Bad == <<>>   \* NO: not an entry

-----------------------------------------------------------------------------
(* Dates                                                                   *)

\* Mutant: a date that has not come yet is taken for one to come.
HTStrpTime_NotBack(now, date) ==
    LET unit == date[1]  year == date[2] IN
    IF year # 0 THEN 12 * year + unit ELSE 12 * (now \div 12) + unit

\* A date without a year is this year's, or last year's if that has not come yet.
HTStrpTime(now, date) ==
    LET unit == date[1]
        year == date[2]
        thisYear == 12 * (now \div 12) + unit
    IN  IF year # 0 THEN 12 * year + unit
        ELSE IF thisYear > now THEN thisYear - 12 ELSE thisYear

-----------------------------------------------------------------------------
(* Lines                                                                   *)

Info(name, mode, size, date) == << [name |-> name, mode |-> mode, size |-> size, date |-> date] >>

\* HTFTPFilePerm: anything but "d" and "l" is a file.
HTFTPFilePerm(permission) ==
    IF permission = "d" THEN "IFDIR" ELSE IF permission = "l" THEN "IFLNK" ELSE "IFREG"

\* strstr(" -> "): what is in front of it.
WithoutLink(words) ==
    LET arrows == Says(words, "->") \ {1} IN
    IF arrows = {} THEN words ELSE SubSeq(words, 1, Min(arrows) - 1)

\* Date and name, behind the size.
AfterSize(mode, size, rest, now) ==
    IF rest = <<>> \/ Head(rest).kind # "date" THEN Bad
    ELSE Info(IF mode = "IFLNK" THEN WithoutLink(Tail(rest)) ELSE Tail(rest),
              mode, size, HTStrpTime(now, Head(rest).is))

\* The fourth column is a group, which may be left out and may be a number, or the
\* size: a month does not start with a digit.
parse_unix_line(line, now) ==
    LET mode == HTFTPFilePerm(line[1].is)
        group == ~IsNumber(line[4]) \/ (Len(line) > 4 /\ IsNumber(line[5]))
        size == IF group THEN line[5] ELSE line[4]
    IN  IF Len(line) < 4 \/ (~IsNumber(line[4]) /\ Len(line) < 5) THEN Bad
        ELSE AfterSize(mode, IF IsNumber(size) THEN size.is ELSE 0,
                       SubSeq(line, IF group THEN 6 ELSE 5, Len(line)), now)

\* A name and its version; a line without a version is not an entry.  Of a size
\* that is given as used and allocated one that is not more than what is allocated
\* is in blocks; so is one that stands alone.
parse_vms_line(line) ==
    LET slash == Says(line, "/")
        used == line[Min(slash) - 1].is
        allocated == line[Min(slash) + 1].is
        alone == {i \in Min(Says(line, ";")) + 2..Len(line) : IsNumber(line[i])}
        size == IF slash # {} THEN IF used <= allocated THEN used * 512 ELSE used
                ELSE IF alone # {} THEN line[Min(alone)].is * 512 ELSE 0
    IN  IF Says(line, ";") = {} THEN Bad
        ELSE Info(<<line[1]>>, IF 2 \in Says(line, ".dir") THEN "IFDIR" ELSE "IFREG", size, 0)

\* Names only; a server of the NCSA kind marks directories.
parse_name(line, marks) ==
    LET directory == marks /\ Len(line) \in Says(line, "/") IN
    Info(IF directory THEN Front(line) ELSE line, IF directory THEN "IFDIR" ELSE "IFREG", 0, 0)

\* The first line of a UNIX server's listing is never an entry; a Windows NT server
\* may leave out that line.
parse_dir_entry(server, line, first, now) ==
    IF server = "UNIX" THEN IF first THEN Bad ELSE parse_unix_line(line, now)
    ELSE IF server = "WINDOWS_NT"
    THEN IF first /\ 1 \in Says(line, "total") THEN Bad ELSE parse_unix_line(line, now)
    ELSE IF server = "VMS" THEN parse_vms_line(line)
    ELSE parse_name(line, server = "NCSA")

\* One line more of the listing: a VMS server's line that ends with a digit goes on
\* with the next; an empty line says nothing.
Taken(st, line, server, now) ==
    LET chunk == st.chunk \o line
        entry == parse_dir_entry(server, chunk, st.first, now)
    IN
    IF chunk = <<>> THEN st
    ELSE IF server = "VMS" /\ IsNumber(Last(chunk)) THEN [st EXCEPT !.chunk = chunk]
    ELSE [chunk |-> <<>>, first |-> FALSE, entries |-> st.entries \o entry]

\* HTFTP_get_dir_string, until the connection is closed.
HTFTP_get_dir(server, lines, now) ==
    FoldLeft(LAMBDA st, line : Taken(st, line, server, now),
             [chunk |-> <<>>, first |-> TRUE, entries |-> <<>>], lines).entries

-----------------------------------------------------------------------------
(* Replies: of each line the code in front, or 0, whether "-" follows it, and *)
(* the text.                                                                  *)

\* (The first character of a line without a code is lost.)

\* HTFTPParseWelcome: the texts of a reply of several lines, but the last.  A line
\* that starts with another number ends it if a blank follows the number.
HTFTPParseWelcome(reply) ==
    LET text[i \in 1..Len(reply) + 1] ==
          IF i > Len(reply) \/ (reply[i].code # 0 /\ ~reply[i].more) THEN <<>>
          ELSE <<reply[i].text>> \o text[i + 1]
    IN  text[1]

\* HTFTPParseError: all the texts; the code of the reply is taken away in front of
\* each line.
HTFTPParseError(reply) ==
    [i \in DOMAIN reply |-> [code |-> IF reply[i].code = reply[1].code THEN 0 ELSE reply[i].code,
                             text |-> reply[i].text]]

=============================================================================
