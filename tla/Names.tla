-------------------------------- MODULE Names ---------------------------------
(***************************************************************************)
(* The two languages of names: the wildcard patterns of rules, caching and *)
(* address masks (Daemon/Implementation/HTWild.c); and, further down, URLs *)
(* (Library/Implementation/HTParse.c).                                     *)
(*                                                                         *)
(* A string is a sequence of characters ("file:" counts as one).  A        *)
(* compiled pattern, the list of HTPattern nodes, is a sequence of pieces  *)
(* [wild, text]: a text, after a wildcard or not.  What may be a null      *)
(* pointer in the code is a set with at most one member.                   *)
(***************************************************************************)
EXTENDS SequencesExt, Integers

CONSTANTS
    HTRuleCaseSense,   \* BOOLEAN
    LowerCase          \* a function on the characters

NewLine == "\n"

\* HTPattern_new: a backslash takes the next character as it is, adjacent
\* wildcards are one.  A backslash at the end becomes a line end.
PatternPiece(wild, text) == [wild |-> wild, text |-> text]

Scanned(st, c) ==
    IF st.escaped THEN [st EXCEPT !.text = Append(@, c), !.escaped = FALSE]
    ELSE IF c = "\\" THEN [st EXCEPT !.escaped = TRUE]
    ELSE IF c # "*" THEN [st EXCEPT !.text = Append(@, c)]
    ELSE [st EXCEPT !.pieces = IF st.text = <<>> THEN @
                               ELSE Append(@, PatternPiece(st.wild, st.text)),
                    !.text = <<>>, !.wild = TRUE]

HTPattern_new(str) ==
    LET st == FoldLeft(Scanned, [pieces |-> <<>>, text |-> <<>>, wild |-> FALSE,
                                 escaped |-> FALSE], str)
        text == IF st.escaped THEN Append(st.text, NewLine) ELSE st.text
    IN  IF st.wild \/ text # <<>> THEN Append(st.pieces, PatternPiece(st.wild, text)) ELSE st.pieces

is_user_dir(s) == IsPrefix(<<"/", "~">>, s) \/ IsPrefix(<<"file:", "/", "~">>, s)

\* strncmp or strncasecomp: text is found in act at position j.
Equal(c, d) == IF HTRuleCaseSense THEN c = d ELSE LowerCase[c] = LowerCase[d]

At(text, act, j) ==
    /\ j + Len(text) <= Len(act) + 1
    /\ \A k \in DOMAIN text : Equal(text[k], act[j + k - 1])

\* The positions where the search for text stops, from j on: after a place
\* that does not lead to a match it goes on behind the text found there.
Stops(text, act, j) ==
    LET stops[k \in Nat] ==
            LET found == {c \in k..Len(act) : At(text, act, c)} IN
            IF found = {} THEN {} ELSE {Min(found)} \cup stops[Min(found) + Len(text)]
    IN  stops[j]

\* match: the texts that the wildcards stand for.
\* Mutant: only the first place of a text is tried.
match_First(pat, act) ==
    LET m[i \in 1..Len(pat) + 1, j \in 1..Len(act) + 1] ==
          LET rest == SubSeq(act, j, Len(act))
              text == pat[i].text
              stops == Stops(text, act, j) IN
          IF i > Len(pat)
          THEN IF rest = <<>> THEN {<<>>} ELSE {}
          ELSE IF is_user_dir(rest) /\ ~is_user_dir(text)
          THEN {}
          ELSE IF ~pat[i].wild
          THEN IF At(text, act, j) THEN m[i + 1, j + Len(text)] ELSE {}
          ELSE IF text = <<>>
          THEN {<<rest>>}
          ELSE IF stops = {} THEN {}
          ELSE {<<SubSeq(act, j, Min(stops) - 1)>> \o w : w \in m[i + 1, Min(stops) + Len(text)]}
    IN  m[1, 1]

match(pat, act) ==
    LET m[i \in 1..Len(pat) + 1, j \in 1..Len(act) + 1] ==
          LET rest == SubSeq(act, j, Len(act))
              text == pat[i].text
              good == {c \in Stops(text, act, j) : m[i + 1, c + Len(text)] # {}} IN
          IF i > Len(pat)
          THEN IF rest = <<>> THEN {<<>>} ELSE {}
          ELSE IF is_user_dir(rest) /\ ~is_user_dir(text)
          THEN {}
          ELSE IF ~pat[i].wild
          THEN IF At(text, act, j) THEN m[i + 1, j + Len(text)] ELSE {}
          ELSE IF text = <<>>
          THEN {<<rest>>}
          ELSE IF good = {} THEN {}
          ELSE {<<SubSeq(act, j, Min(good) - 1)>> \o w : w \in m[i + 1, Min(good) + Len(text)]}
    IN  m[1, 1]

\* replace: wildcards that have nothing to stand for are left out.
Substituted(st, p) ==
    IF p.wild /\ st.left # <<>>
    THEN [out |-> st.out \o Head(st.left) \o p.text, left |-> Tail(st.left)]
    ELSE [st EXCEPT !.out = @ \o p.text]

replace(eqv, texts) == FoldLeft(Substituted, [out |-> <<>>, left |-> texts], eqv).out

HTPattern_match(pat, eqv, act) ==
    IF pat = <<>> THEN {}
    ELSE IF eqv = <<>> THEN {act : w \in match(pat, act)}
    ELSE {replace(eqv, w) : w \in match(pat, act)}

-----------------------------------------------------------------------------
(* URLs: HTParse(), HTSimplify() and HTRelative() of HTParse.c, and what   *)
(* compute_server_env() (HTDaemon.c) accepts.                              *)
(*                                                                         *)
(* A path is the sequence of its segments, the texts between slashes: an   *)
(* absolute one begins with an empty segment.  Hosts are in the form that  *)
(* HTCanon gives them, so that it leaves them alone; there are no search   *)
(* parts.                                                                  *)

CONSTANTS
    None,        \* a null pointer
    Segment,     \* names of files and directories
    OneLetter    \* those of one letter (and dots behind it)

Dots == {".", ".."}

-----------------------------------------------------------------------------
(* HTSimplify.                                                             *)

\* The first pass: the number of "real" segments.  The loop looks behind each
\* slash, and behind the first character of a path without one.
Real(path) ==
    {i \in 2..Len(path) : path[i] \notin Dots \cup {""}}
    \cup {i \in {1} : path[1] \notin Dots \cup OneLetter \cup {""}}

\* What is before slash i stays, and so does the ".." behind it.
Kept(s, i) ==
    IF i = 1 /\ s[1] = "" THEN Len(s) > 2
    ELSE IF i = 1 THEN s[1] = "."
    ELSE s[i] \in Dots

\* The second pass, one turn at slash i, between segments i and i + 1.  ".." is
\* taken away with the directory before it, unless that is a dot segment or
\* one segment only would be left.  beyond: the copy began behind the end of
\* the text.
Turn(st) ==
    LET s == st.path
        i == st.i
        top == i = 1 /\ s[1] = ""
        rest == SubSeq(s, i + 2, Len(s))
        named == Min({j \in i + 1..Len(s) : s[j] # "" \/ j = Len(s)}) IN
    IF s[i + 1] = "." /\ ~top
    THEN [st EXCEPT !.path = SubSeq(s, 1, i) \o rest]
    ELSE IF st.segments > 1 /\ s[i + 1] = ".."
    THEN IF Kept(s, i) THEN [st EXCEPT !.i = @ + 1]
         ELSE [path |-> IF i = 1 /\ rest = <<>> THEN <<"">> ELSE SubSeq(s, 1, i - 1) \o rest,
               i |-> IF i = 1 THEN 1 ELSE i - 1,
               segments |-> st.segments - 1,
               beyond |-> st.beyond \/ (i = 1 /\ ~top /\ rest = <<>>)]
    ELSE [st EXCEPT !.i = @ + 1,
                    !.path = SubSeq(s, 1, i) \o SubSeq(s, named, Len(s))]

Simplify(path) ==
    LET pass[st \in [path : Seq(STRING), i : Nat, segments : Int, beyond : BOOLEAN]] ==
            IF st.i >= Len(st.path) THEN st ELSE pass[Turn(st)]
    IN  pass[[path |-> path, i |-> 1, segments |-> Cardinality(Real(path)), beyond |-> FALSE]]

\* The first of two slashes at the beginning is left alone.
HTSimplify(path) ==
    IF Len(path) > 2 /\ path[1] = "" /\ path[2] = ""
    THEN <<"">> \o Simplify(Tail(path)).path
    ELSE Simplify(path).path

\* compute_server_env: the simplified path leaves the top directory (DOTDOT).
\* Paths that begin with a name of two dots and more are refused, too.
Dotted(path) ==
    \/ \E i \in 2..Len(path) : path[1] = "" /\ path[i] = ".."
    \/ \E i \in 3..Len(path) : path[i] = ".."
    \/ path[1] = ".."
    \/ Len(path) = 2 /\ path[2] = ".."

-----------------------------------------------------------------------------
(* HTParse and HTRelative.  A name is [access, host, path, anchor], any of *)
(* them None.                                                              *)

\* scan: an absolute path without its slash, or a relative one.
scan(name) ==
    [access |-> name.access, host |-> name.host, anchor |-> name.anchor,
     absolute |-> IF name.path # None /\ name.path[1] = "" /\ Len(name.path) > 1
                  THEN Tail(name.path) ELSE None,
     relative |-> IF name.path # None /\ name.path[1] # "" THEN name.path ELSE None]

Or(x, y) == IF x # None THEN x ELSE y

\* HTSimplify on the text composed so far: without a host the path begins
\* behind the slash.
SimplifyName(access, host, path) ==
    IF access # None /\ host = None THEN <<"">> \o HTSimplify(Tail(path)) ELSE HTSimplify(path)

\* A relative name takes the place of the last segment.
Merged(access, host, absolute, relative) ==
    SimplifyName(access, host, <<"">> \o SubSeq(absolute, 1, Len(absolute) - 1) \o relative)

\* HTParse, when all parts are wanted.
HTParse(aName, relatedName) ==
    LET given == scan(aName)
        r0 == scan(relatedName)
        Differ(part) == given[part] # None /\ r0[part] # None /\ given[part] # r0[part]
        r1 == IF Differ("access")
              THEN [r0 EXCEPT !.host = None, !.absolute = None, !.relative = None, !.anchor = None]
              ELSE r0
        host == Or(given.host, r1.host)
        r == IF given.host # None /\ r1.host # None /\ given.host # r1.host
             THEN [r1 EXCEPT !.absolute = None, !.relative = None, !.anchor = None]
             ELSE r1
        access == Or(given.access, r0.access) IN
    [access |-> access, host |-> host, anchor |-> Or(given.anchor, r.anchor),
     path |-> IF given.absolute # None THEN <<"">> \o given.absolute
              ELSE IF r.absolute # None
              THEN IF given.relative = None THEN <<"">> \o r.absolute
                   ELSE Merged(access, host, r.absolute, given.relative)
              ELSE Or(given.relative, Or(r.relative, <<"", "">>))]

\* HTRelative, for names with an absolute path: the slashes that the two have
\* in common, in the path.
Common(a, r) ==
    Max({i \in 1..Len(a) - 1 : i < Len(r) /\ SubSeq(a, 1, i) = SubSeq(r, 1, i)})

Up(n) == [i \in 1..n |-> ".."]

HTRelative(aName, related) ==
    LET a == aName.path
        r == related.path
        slashes == IF aName.host = None THEN Common(a, r) ELSE Common(a, r) + 2 IN
    IF aName.access # related.access THEN aName
    ELSE IF aName.host # related.host \/ slashes < 3 THEN [aName EXCEPT !.access = None]
    ELSE [access |-> None, host |-> None, anchor |-> None,
          path |-> Up(Len(r) - Common(a, r) - 1) \o SubSeq(a, Common(a, r) + 1, Len(a))]

=============================================================================
