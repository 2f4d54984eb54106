------------------------------- MODULE Programs -------------------------------
(***************************************************************************)
(* Two of the programs beside the daemon: htimage, which finds what a      *)
(* click on an image leads to, by the configuration file of a picture, the *)
(* shapes in it, and the coordinates of a query                            *)
(* (Daemon/Implementation/HTImage.c); and, further down, cgiparse          *)
(* (CGIParse.c).                                                           *)
(*                                                                         *)
(* A file is the sequence of its lexical items, <<"int", n>>, <<"str", s>> *)
(* and <<c>> for a character; a query one of names, numbers and            *)
(* characters. Coordinates are small enough for a float to hold what       *)
(* inside_poly puts into one.                                              *)
(***************************************************************************)
EXTENDS Integers, SequencesExt, FiniteSetsExt

Eof == <<"eof">>
lex(file, k) == IF k <= Len(file) THEN file[k] ELSE Eof

Is(kind, item) == item[1] = kind

\* A parse gives what it read and the place behind it; syntax_error() is fatal.
Parsed(k, value) == [at |-> k, value |-> value]
Fatal == Parsed(0, <<>>)
NoCoord == <<>>

parse_coord(file, k) ==
    IF ~Is("(", lex(file, k)) THEN Parsed(k, NoCoord)
    ELSE IF /\ Is("int", lex(file, k + 1)) /\ Is(",", lex(file, k + 2))
            /\ Is("int", lex(file, k + 3)) /\ Is(")", lex(file, k + 4))
    THEN Parsed(k + 5, [x |-> file[k + 1][2], y |-> file[k + 3][2]])
    ELSE Fatal

\* The URL that ends a mapping.
Mapping(file, k, type, coords, radius) ==
    IF k > 0 /\ Is("str", lex(file, k))
    THEN Parsed(k + 1, [type |-> type, coords |-> coords, radius |-> radius,
                        url |-> file[k][2]])
    ELSE Fatal

Given(coord) == coord.at > 0 /\ coord.value # NoCoord

parse_rectangle(file, k) ==
    LET first == parse_coord(file, k) IN
    IF ~Given(first) THEN Fatal
    ELSE LET second == parse_coord(file, first.at) IN
         IF ~Given(second) THEN Fatal
         ELSE Mapping(file, second.at, "rect", <<first.value, second.value>>, 0)

parse_circle(file, k) ==
    LET center == parse_coord(file, k) IN
    IF Given(center) /\ Is("int", lex(file, center.at))
    THEN Mapping(file, center.at + 1, "circ", <<center.value>>, file[center.at][2])
    ELSE Fatal

\* A list has its newest object first; a pair given twice in a row counts once.
RECURSIVE Vertices(_, _, _)
Vertices(file, k, coords) ==
    LET coord == parse_coord(file, k) IN
    IF ~Given(coord) THEN Parsed(coord.at, coords)
    ELSE Vertices(file, coord.at,
                  IF coords # <<>> /\ Head(coords) = coord.value THEN coords
                  ELSE <<coord.value>> \o coords)

\* A path is closed with its first coordinates.
Closed(coords) ==
    IF coords # <<>> /\ Last(coords) # Head(coords) THEN <<Last(coords)>> \o coords ELSE coords

parse_polygon(file, k) ==
    LET vertices == Vertices(file, k, <<>>) IN
    Mapping(file, vertices.at, "poly", Closed(vertices.value), 0)

NoUrl == "none"
NewPict == [default_url |-> NoUrl, mappings |-> <<>>]

\* Fields by their first letters; mappings in the order of the file.
RECURSIVE Fields(_, _, _)
Fields(file, k, pict) ==
    LET field == lex(file, k)
        mapping == IF field = <<"str", "rectangle">> THEN parse_rectangle(file, k + 1)
                   ELSE IF field = <<"str", "circle">> THEN parse_circle(file, k + 1)
                   ELSE IF field = <<"str", "polygon">> THEN parse_polygon(file, k + 1)
                   ELSE Fatal IN
    IF field = Eof THEN Parsed(k, pict)
    ELSE IF field = <<"str", "default">>
    THEN IF Is("str", lex(file, k + 1))
         THEN Fields(file, k + 2, [pict EXCEPT !.default_url = file[k + 1][2]])
         ELSE Fatal
    ELSE IF mapping.at = 0 THEN Fatal
    ELSE Fields(file, mapping.at, [pict EXCEPT !.mappings = Append(@, mapping.value)])

parse_picture(file) == Fields(file, 1, NewPict)

-----------------------------------------------------------------------------
(* Inside or outside.                                                      *)

Between(n, a, b) == Min({a, b}) <= n /\ n <= Max({a, b})
SQR(n) == n * n

inside_rect(coords, x, y) ==
    /\ Between(x, coords[1].x, coords[2].x)
    /\ Between(y, coords[1].y, coords[2].y)

inside_circ(center, radius, x, y) == SQR(center.x - x) + SQR(center.y - y) <= SQR(radius)

\* cross_x, where the line from a to b has height y, less x; its sign counts.
CrossX(a, b, x, y) == ((y - a.y) * (b.x - a.x) - (x - a.x) * (b.y - a.y)) * (b.y - a.y)

OtherSides(p, a, b) == (p.y < a.y /\ a.y < b.y) \/ (p.y > a.y /\ a.y > b.y)

\* The lines from the i-th vertex on, to the right of the point; check_previous
\* is the other end of a line that was crossed where it ends.
RECURSIVE Crossed(_, _, _, _, _, _)
Crossed(coords, i, x, y, crossings, check_previous) ==
    IF i >= Len(coords)
    THEN LET sides == /\ check_previous # NoCoord
                      /\ OtherSides(check_previous, coords[i], coords[1]) IN
         (crossings + IF sides THEN 1 ELSE 0) % 2 = 1
    ELSE
    LET a == coords[i]
        b == coords[i + 1]
        cross == CrossX(a, b, x, y)
        next(more, previous) == Crossed(coords, i + 1, x, y, crossings + more, previous) IN
    IF x = a.x /\ y = a.y THEN TRUE
    ELSE IF a.y = b.y THEN (y = a.y /\ Between(x, a.x, b.x)) \/ next(0, check_previous)
    ELSE IF check_previous # NoCoord
    THEN next(IF OtherSides(check_previous, a, b) THEN 1 ELSE 0, NoCoord)
    ELSE IF ~Between(y, a.y, b.y) \/ x > Max({a.x, b.x}) THEN next(0, check_previous)
    ELSE IF a.x # b.x /\ y = b.y THEN next(0, a)
    ELSE cross = 0 \/ next(IF cross > 0 THEN 1 ELSE 0, check_previous)

inside_poly(coords, x, y) == Len(coords) > 1 /\ Crossed(coords, 1, x, y, 0, NoCoord)

Inside(mapping, x, y) ==
    IF mapping.type = "rect" THEN inside_rect(mapping.coords, x, y)
    ELSE IF mapping.type = "circ" THEN inside_circ(mapping.coords[1], mapping.radius, x, y)
    ELSE inside_poly(mapping.coords, x, y)

get_url(pict, x, y) ==
    LET k == SelectInSeq(pict.mappings, LAMBDA mapping : Inside(mapping, x, y)) IN
    IF k > 0 THEN pict.mappings[k].url ELSE pict.default_url

-----------------------------------------------------------------------------
(* The query, and the program.                                             *)

\* strchr from the k-th item on; 0: there is none.
Strchr(text, k, c) ==
    LET places == {i \in k..Len(text) : text[i] = c} IN IF places = {} THEN 0 ELSE Min(places)

atoi(text) == IF text # <<>> /\ Is("int", text[1]) THEN text[1][2] ELSE 0

\* x=x&y=y, from the k-th item on.
RECURSIVE FormFields(_, _, _)
FormFields(query, k, at) ==
    LET end1 == Strchr(query, k, <<"=">>)
        end2 == IF end1 > 0 THEN Strchr(query, end1, <<"&">>) ELSE 0
        name == SubSeq(query, k, end1 - 1)
        value == atoi(SubSeq(query, end1 + 1, IF end2 > 0 THEN end2 - 1 ELSE Len(query)))
        got == IF end1 > 0 /\ name = <<<<"name", "x">>>> THEN [at EXCEPT !.x = value]
               ELSE IF end1 > 0 /\ name = <<<<"name", "y">>>> THEN [at EXCEPT !.y = value]
               ELSE at IN
    IF end2 > 0 THEN FormFields(query, end2 + 1, got) ELSE got

Coords(query) ==
    LET comma == Strchr(query, 1, <<",">>) IN
    IF Strchr(query, 1, <<"=">>) > 0 THEN FormFields(query, 1, [x |-> -1, y |-> -1])
    ELSE [x |-> atoi(SubSeq(query, 1, comma - 1)), y |-> atoi(SubSeq(query, comma + 1, Len(query)))]

bad_query_string(query) ==
    IF Strchr(query, 1, <<"=">>) > 0
    THEN Coords(query).x = -1 \/ Coords(query).y = -1
    ELSE Strchr(query, 1, <<",">>) = 0

\* The location that the program answers with, or NoUrl with a message.
htimage(file, query) ==
    LET pict == parse_picture(file) IN
    IF bad_query_string(query) \/ pict.at = 0 THEN NoUrl
    ELSE get_url(pict.value, Coords(query).x, Coords(query).y)

-----------------------------------------------------------------------------
(* cgiparse, the program by which a shell script gets the keywords and the *)
(* fields of a request.                                                    *)
(* src/Daemon/Implementation/CGIParse.c, HTUnEscape of HTParse.c           *)
(*                                                                         *)
(* A text is a sequence of characters, <<c>>; <<"%", c>> is the escape code*)
(* of one.                                                                 *)

CONSTANTS
    Letter,      \* the characters of a shell variable's name
    None         \* an environment variable or option that is not there

Equals == <<"=">>
Ampersand == <<"&">>
Plus == <<"+">>
Blank == <<" ">>
Quote == <<"'">>
Backslash == <<"\\">>

HTUnEscape(text) == [k \in DOMAIN text |-> <<Last(text[k])>>]

plusses_to_spaces(text) == [k \in DOMAIN text |-> IF text[k] = Plus THEN Blank ELSE text[k]]

\* Mutant: codes first, so that a plus by its code becomes a space as well.
Value_Codes(text) == plusses_to_spaces(HTUnEscape(text))

\* Spaces first: a plus that is meant comes as its code.
Value(text) == HTUnEscape(plusses_to_spaces(text))

valid_varname(name) == name # <<>> /\ \A k \in DOMAIN name : name[k] \in {<<c>> : c \in Letter}

\* In quotes; a quote ends them, stands behind a backslash and begins them anew.
sh_escape(text) ==
    <<Quote>>
    \o FlattenSeq([k \in DOMAIN text |->
                     IF text[k] = Quote THEN <<Quote, Backslash, Quote, Quote>>
                     ELSE <<text[k]>>])
    \o <<Quote>>

\* The pairs of a form as they were sent; the last one may lack its value.
RECURSIVE Pairs(_, _)
Pairs(query, k) ==
    LET end1 == Strchr(query, k, Equals)
        end2 == Strchr(query, end1, Ampersand) IN
    IF end1 = 0 THEN <<>>
    ELSE << [name |-> HTUnEscape(SubSeq(query, k, end1 - 1)),
             value |-> SubSeq(query, end1 + 1, IF end2 = 0 THEN Len(query) ELSE end2 - 1)] >>
         \o IF end2 = 0 THEN <<>> ELSE Pairs(query, end2 + 1)

\* formvec: each name once, its values joined.
Field(formvec, pair, separator) ==
    LET k == SelectInSeq(formvec, LAMBDA f : f.name = pair.name) IN
    IF k = 0 THEN Append(formvec, [pair EXCEPT !.value = Value(@)])
    ELSE [formvec EXCEPT ![k].value = @ \o separator \o Value(pair.value)]

Form(query, separator) ==
    FoldLeft(LAMBDA formvec, pair : Field(formvec, pair, separator), <<>>, Pairs(query, 1))

RECURSIVE Keywords(_)
Keywords(query) ==
    LET end == Strchr(query, 1, Plus) IN
    IF end = 0 THEN <<HTUnEscape(query)>>
    ELSE <<HTUnEscape(SubSeq(query, 1, end - 1))>>
         \o Keywords(SubSeq(query, end + 1, Len(query)))

\* What the program prints: a number, lines, or assignments for a shell, each
\* but the first of the form behind a semicolon; and its exit status.
Printed(lines) == [status |-> 0, lines |-> lines]
Counted(n) == [status |-> 0, number |-> n]
fatal(status) == [status |-> status]

parse_keywords(query, o) ==
    LET keywordvec == Keywords(query) IN
    IF o.count THEN Counted(Len(keywordvec))
    ELSE IF o.nth = 0 THEN Printed(keywordvec)
    ELSE IF o.nth <= Len(keywordvec) THEN Printed(<<keywordvec[o.nth]>>) ELSE fatal(3)

Assignment(formvec, k, o) ==
    [semicolon |-> o.nth = 0 /\ k > 1, name |-> formvec[k].name,
     text |-> sh_escape(formvec[k].value)]

parse_form(query, o) ==
    LET formvec == Form(query, IF o.separator = None THEN <<<<",">>, Blank>> ELSE o.separator)
        valid(k) == valid_varname(formvec[k].name) IN
    IF o.count THEN Counted(Len(formvec))
    ELSE IF o.nth > 0
    THEN IF o.nth <= Len(formvec) /\ valid(o.nth) THEN Printed(<<Assignment(formvec, o.nth, o)>>)
         ELSE fatal(3)
    ELSE Printed([i \in 1..Cardinality({k \in DOMAIN formvec : valid(k)}) |->
            LET k == CHOOSE k \in DOMAIN formvec :
                       valid(k) /\ Cardinality({j \in 1..k : valid(j)}) = i
            IN  Assignment(formvec, k, o)])

parse_value(query, o) ==
    LET values == SelectSeq(Pairs(query, 1), LAMBDA pair : pair.name = o.value)
        lines == [k \in DOMAIN values |-> Value(values[k].value)] IN
    IF o.count THEN Counted(Len(values))
    ELSE IF values = <<>> THEN fatal(3)
    ELSE Printed(IF o.nth = 0 THEN lines ELSE SubSeq(lines, o.nth, Min({o.nth, Len(lines)})))

\* The query: of the environment, or as much of the body as there is.
Body(env) == SubSeq(env.stdin, 1, Min({env.content_length, Len(env.stdin)}))
FromBody(env) == env.content_length # None /\ env.query_string \in {None, <<>>}
Query(env) == IF FromBody(env) THEN Body(env) ELSE env.query_string

FormRequest(query) == Strchr(query, 1, Equals) > 0

cgiparse(o, env) ==
    IF Cardinality(o.what) > 1 THEN fatal(1)
    ELSE IF o.what = {"read"} /\ env.request_method \in {"GET", "HEAD"} THEN fatal(3)
    ELSE IF env.content_length = None /\ (env.query_string = None \/ o.what = {"read"})
    THEN fatal(2)
    ELSE IF o.what = {"read"} THEN Printed(<<Body(env)>>)
    ELSE IF o.what = {"init"} /\ env.content_length # None
    THEN Printed(IF FromBody(env) THEN <<Body(env)>> ELSE <<>>)
    ELSE IF FormRequest(Query(env)) = (o.what = {"keywords"}) /\ Query(env) # <<>> THEN fatal(3)
    ELSE IF o.what = {"keywords"} THEN parse_keywords(Query(env), o)
    ELSE IF o.what = {"form"} THEN parse_form(Query(env), o)
    ELSE IF o.what = {"value"} THEN parse_value(Query(env), o)
    ELSE fatal(1)

=============================================================================
