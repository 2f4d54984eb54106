------------------------------- MODULE MCTexts --------------------------------
(* Streams of text and header sections, and what is to come out of them;     *)
(* trees, anchors, directories and listings, and what they are to keep.      *)
EXTENDS Markup, Converters, RequestFields, Listings, Formats,
        Integers, FiniteSets, Sequences, SequencesExt, FiniteSetsExt, TLC

-----------------------------------------------------------------------------
(* Markup: every short document, an event at a time, through the generator   *)
(* and into the parser; and every short text straight into the parser.       *)

CONSTANTS
    MaxEvents,   \* the bound of a document's events
    MaxRaw       \* of the characters of a text

VARIABLES
    document,    \* the events put into the generator
    generator,   \* me of HTMLGen.c
    parser,      \* context of SGML.c
    raw          \* characters put into the parser directly

markupVars == <<document, generator, parser, raw>>

B == <<"B">>
P == <<"P">>
MCPRE == <<"P", "R", "E">>
MCTag == {B, P, MCPRE}
MCEmpty == {P}
MCAttr == {<<"H">>, <<"T">>}
MCEntity == {<<"a", "m", "p">>, <<"l", "t">>, <<"e", "t", "h">>}
MCAlnum == {"x", "a", "m", "p", "l", "t", "e", "h", "B", "P", "R", "E", "H", "T"}

MarkupInit ==
    /\ document = <<>> /\ generator = NewGenerator /\ parser = NewParser /\ raw = <<>>

\* The elements that are open, the innermost one last.
OpenIn(events) ==
    FoldLeft(LAMBDA open, e : IF e[1] = "start" /\ e[2] \notin Empty THEN Append(open, e[2])
                              ELSE IF e[1] = "end" THEN Front(open) ELSE open,
             <<>>, events)

Events ==
    {<<"char", c>> : c \in {"x", " ", ".", nl, "&"}} \cup {<<"entity", <<"e", "t", "h">>>>}
    \cup {<<"start", B, <<>>>>, <<"start", MCPRE, <<>>>>,
          <<"start", B, <<<<<<"H">>, <<"x">>>>>>>>,
          <<"start", P, <<<<<<"H">>, <<>>>>, <<<<"T">>, <<"x", "x">>>>>>>>}

\* What the generator puts out goes on to the parser.
PutEvent(e) ==
    /\ raw = <<>> /\ Len(document) < MaxEvents
    /\ LET g == HTMLGen_put(generator, e) IN
       /\ document' = Append(document, e)
       /\ generator' = [g EXCEPT !.output = <<>>]
       /\ parser' = SGML_string(parser, g.output)
    /\ UNCHANGED raw

PutRaw(c) ==
    /\ document = <<>> /\ Len(raw) < MaxRaw
    /\ raw' = Append(raw, c)
    /\ parser' = SGML_character(parser, c)
    /\ UNCHANGED <<document, generator>>

MarkupNext ==
    \/ \E e \in Events : PutEvent(e)
    \/ OpenIn(document) # <<>> /\ PutEvent(<<"end", Last(OpenIn(document))>>)
    \/ \E c \in {"<", "/", "B", "P", ">", "&", "=", " "} : PutRaw(c)

-----------------------------------------------------------------------------

\* Documents that say the same: a blank or a line end outside PRE is only layout, in
\* PRE a line end is layout next to a tag.
Layout(events, i) ==
    LET e == events[i] IN
    /\ e[1] = "char" /\ e[2] \in White
    /\ \/ ~\E k \in DOMAIN OpenIn(SubSeq(events, 1, i)) : OpenIn(SubSeq(events, 1, i))[k] = PRE
       \/ /\ e[2] = nl
          /\ \/ \E j \in 1..i - 1 :
                  /\ events[j][1] = "start" /\ events[j][2] \notin Empty
                  /\ \A k \in j + 1..i - 1 : events[k] = <<"char", nl>>
             \/ \E j \in i + 1..Len(events) :
                  /\ events[j][1] = "end"
                  /\ \A k \in i + 1..j - 1 : events[k] = <<"char", nl>>

\* "&" is put as an entity, and attributes have no order.
Meaning(e) ==
    IF e = <<"char", "&">> THEN <<"entity", <<"a", "m", "p">>>>
    ELSE IF e[1] = "start"
    THEN <<"start", e[2], [a \in {e[3][k][1] : k \in DOMAIN e[3]} |->
            LET k == CHOOSE k \in DOMAIN e[3] : e[3][k][1] = a IN e[3][k][2]]>>
    ELSE e

Significant(events) ==
    LET all == [i \in DOMAIN events |-> IF Layout(events, i) THEN <<>> ELSE <<events[i]>>] IN
    FlattenSeq(all)

\* A document comes back as it was, wherever its lines had to be broken.
MarkupKept ==
    LET written == HTMLGen_free(generator).output
        meant == Significant(document)
    IN  Significant(SGML_string(parser, written).events)
            = [i \in DOMAIN meant |-> Meaning(meant[i])]

\* The line stays in its buffer.
LineInBuffer == Len(generator.buffer) <= BUFFER_SIZE

\* Any text at all starts and ends elements in pairs: what receives the events never
\* gets an end that no start goes with, and nothing but elements of the DTD.
WellNested ==
    LET nested[i \in 0..Len(parser.events)] ==
          IF i = 0 THEN <<>>
          ELSE LET e == parser.events[i] IN
               IF e[1] = "start" /\ e[2] \notin Empty THEN <<e[2]>> \o nested[i - 1]
               ELSE IF e[1] = "end"
               THEN IF nested[i - 1] # <<>> /\ nested[i - 1][1] = e[2] THEN Tail(nested[i - 1])
                    ELSE <<"wrong">> \o nested[i - 1]
               ELSE nested[i - 1]
    IN  nested[Len(parser.events)] = parser.element_stack

\* All three: markup is written and read without loss.
MarkupRight ==
    /\ document # <<>> => MarkupKept /\ LineInBuffer
    /\ raw # <<>> => WellNested

-----------------------------------------------------------------------------
(* Converters against what they are to do: header sections a line at a time, *)
(* and texts a character at a time, cut into blocks.                         *)

CONSTANTS
    MaxLines,        \* the bound of a header section's lines
    MaxCharacters    \* of the characters of a text

VARIABLES
    header,   \* the lines of a header section, with what they mean
    body      \* a text

converterVars == <<header, body>>

ConverterInit == header = <<>> /\ body = <<>>

HeaderLine(words, format, encoding) ==
    [words |-> words, format |-> format, encoding |-> encoding]

TypeField == <<"c", "ontent-t", "ype:">>
EncodingField == <<"c", "ontent-t", "ransfer-encoding:">>
Eol == {<<LF>>, <<CR, LF>>}

\* A field may be folded in front of its value, and other fields may look like it.
HeaderLines ==
    {HeaderLine(TypeField \o gap \o <<type>>, <<type>>, <<>>) :
        gap \in {<<>>, <<" ">>, <<LF, " ">>}, type \in {"text/html", "image/gif"}}
    \cup {HeaderLine(EncodingField \o <<" ", "8bit">>, <<>>, <<"8bit">>)}
    \cup {HeaderLine(w, <<>>, <<>>) :
             w \in {<<"x">>, <<"c", "x">>, <<"c", "ontent-t", "x">>, <<"x", " ", "c">>}}

AddLine(line) ==
    /\ Len(header) < MaxLines /\ body = <<>>
    /\ header' = Append(header, line)
    /\ UNCHANGED body

AddText(c) ==
    /\ Len(body) < (IF header = <<>> THEN MaxCharacters ELSE 1)
    /\ body' = Append(body, c)
    /\ UNCHANGED header

BodyCharacters == {LF, CR, ".", "x", "ctrl", "high", "<html>", "GIF"}

ConverterNext ==
    \/ \E line \in HeaderLines : AddLine(line)
    \/ \E c \in BodyCharacters : AddText(c)

-----------------------------------------------------------------------------

\* The last of the lines that means something.
LastMeant(values, default) ==
    LET meant == SelectSeq(values, LAMBDA v : v # <<>>) IN
    IF meant = <<>> THEN default ELSE Last(meant)

\* A header section gives the type and the encoding that it names, and what follows
\* it passes unchanged, line ends and all; on the network lines end in CR LF.
HeaderRead ==
    \A net_ascii \in BOOLEAN :
        LET eol == IF net_ascii THEN <<CR, LF>> ELSE <<LF>>
            lines == FlattenSeq([k \in DOMAIN header |-> header[k].words \o eol])
            me == HTMIME_write(NewMIME(net_ascii), lines \o eol \o body)
        IN  /\ me.format = LastMeant([k \in DOMAIN header |-> header[k].format], <<"text/plain">>)
            /\ me.encoding = LastMeant([k \in DOMAIN header |-> header[k].encoding], <<>>)
            /\ me.target = body

\* The type that is guessed does not depend on how a text comes in blocks, and the
\* text passes once and whole, or not at all if nothing can present it.
GuessWhole ==
    \A presentable \in {{}, {<<"text/plain">>}, {<<"text/html">>, <<"image/gif">>}},
       cut \in 0..Len(body) :
        LET one == HTGuess_put_block(NewGuess, SubSeq(body, 1, cut), presentable)
            two == HTGuess_put_block(one, SubSeq(body, cut + 1, Len(body)), presentable)
            me == HTGuess_free(two, presentable)
            sample == SubSeq(body, 1, Min({SAMPLE_SIZE, Len(body)}))
        IN  /\ me.type = Guessed(sample).type
            /\ me.output = IF me.type \in presentable THEN body ELSE <<>>

\* Nothing but the carriage returns of line ends is lost.
LineEndsConverted ==
    LET ends == {i \in DOMAIN body : body[i] = CR /\ i < Len(body) /\ body[i + 1] = LF}
        last == {i \in {Len(body)} : i > 0 /\ body[i] = CR}
        all == [i \in DOMAIN body |-> IF i \in ends \cup last THEN <<>> ELSE <<body[i]>>]
    IN  NetToText(body) = FlattenSeq(all)

\* A text without empty lines is read up to its first line of a single dot, and to
\* the end if it has none.
DotEnds ==
    LET text == WithoutReturns(body)
        at(i, c) == i \in DOMAIN text /\ text[i] = c
        dots == {i \in DOMAIN text : at(i, LF) /\ at(i + 1, ".") /\ at(i + 2, LF)}
        emptyLine == \E i \in DOMAIN text : at(i, LF) /\ at(i + 1, LF)
    IN  ~emptyLine =>
            HTParseSocket(FALSE, FALSE, TRUE, body)
                = IF dots = {} THEN text ELSE SubSeq(text, 1, Min(dots) + 2)

\* All four: a conversion loses nothing of a document.
ConvertersRight ==
    /\ header # <<>> => HeaderRead
    /\ header = <<>> /\ body # <<>> => GuessWhole /\ LineEndsConverted /\ DotEnds

-----------------------------------------------------------------------------
(* RequestFields against what a field means: every short header section of   *)
(* the fields that the daemon treats differently, a field at a time.         *)

CONSTANTS
    MaxFields   \* the bound of a request's fields

VARIABLES
    fields,   \* the client's fields, each with the entries that it means
    request   \* what HTParseRequest has made of them

fieldVars == <<fields, request>>

MCBeginsWith ==
    [n \in {"Accept", "Accept-Language", "Connection", "Content-Length", "User-Agent",
            "If-Modified-Since", "Authorization", "Pragma", "From", "Fromage", "X-A", "junk"} |->
        IF n = "Fromage" THEN "From" ELSE IF n \in {"X-A", "junk"} THEN "invalid" ELSE n]

MCAttribute == [w \in {"q=0.5", "mxb=9"} |->
    IF w = "q=0.5" THEN [name |-> "q", value |-> 5] ELSE [name |-> "mxb", value |-> 9]]

Acceptable(rep, quality) == [rep |-> <<rep>>, quality |-> quality]

\* Lists that a field may mean.
Meanings == {<<Acceptable("text/html", 10)>>, <<Acceptable("image/gif", 5)>>,
             <<Acceptable("text/plain", 5), Acceptable("*/*", 10)>>}

\* A list as a client writes it, with or without blanks behind the separators; then
\* with an attribute that the daemon does not use.
WrittenEntry(e, blank) ==
    e.rep \o (IF blank # <<>> THEN <<";">> \o blank \o <<"mxb=9">> ELSE <<>>)
          \o (IF e.quality = 5 THEN <<";">> \o blank \o <<"q=0.5">> ELSE <<>>)

WrittenList(entries, blank) ==
    FlattenSeq([k \in DOMAIN entries |->
                  (IF k > 1 THEN <<",">> \o blank ELSE <<>>)
                  \o WrittenEntry(entries[k], blank)])

\* A field of the client, and what it means.
ClientField(f, meant) == [field |-> f, meant |-> meant]

ListFields ==
    {ClientField(Field(name, WrittenList(meant, blank)), meant) :
        name \in {"Accept", "Accept-Language"}, meant \in Meanings, blank \in {<<>>, <<" ">>}}

PlainFields ==
    {ClientField(f, <<>>) : f \in
        {Field("Connection", <<"close">>), Field("Content-Length", <<"9">>),
         Field("User-Agent", <<"Mosaic">>), Field("If-Modified-Since", <<"date">>),
         Field("If-Modified-Since", <<"bad date">>), Field("Authorization", <<"Basic", " ", "key">>),
         Field("Pragma", <<"no-cache">>), Field("Fromage", <<"brie">>),
         Field("X-A", <<"1">>), Field("X-A", <<"2">>),
         [name |-> "junk", colon |-> FALSE, value |-> <<>>]}}

FieldInit == fields = <<>> /\ request = NoRequest

FieldNext ==
    /\ Len(fields) < MaxFields
    /\ \E f \in ListFields \cup PlainFields :
          /\ fields' = Append(fields, f)
          /\ request' = ParseLine(request, f.field)

-----------------------------------------------------------------------------

Sent == [k \in DOMAIN fields |-> fields[k].field]

FieldsNamed(name) == SelectSeq(fields, LAMBDA f : f.field.name = name)
Replaced == {"User-Agent", "If-Modified-Since", "Via"}
Others(list) == SelectSeq(list, LAMBDA f : f.name \notin Replaced)

\* A remote server gets every field that is not for this connection, once and in
\* order, and the three that the proxy writes itself; a date only if the last one
\* that the client gave is one.
ForwardedRight ==
    LET passed == hbuf_proxy_headers(request)
        dates == FieldsNamed("If-Modified-Since")
        times(name) == Cardinality({k \in DOMAIN passed : passed[k].name = name})
    IN
    /\ Others(passed) = SelectSeq(Others(Sent), LAMBDA f : f.name # "Connection")
    /\ times("User-Agent") = 1 /\ times("Via") = 1
    /\ times("If-Modified-Since") =
          IF dates # <<>> /\ Last(dates).field.value = <<"date">> THEN 1 ELSE 0

Words(value) == SelectSeq(value, LAMBDA w : w # ",")
ValuesOf(name) ==
    LET of == FieldsNamed(name) IN FlattenSeq([k \in DOMAIN of |-> Words(of[k].field.value)])

\* A script gets one variable for each name, with the values of all fields of that
\* name in order; what the server has checked itself is withheld.
VariablesRight ==
    \A user \in BOOLEAN :
        LET vars == hbuf_http_env_vars(request.hbuf, user).vars
            names == {Sent[k].name : k \in {i \in DOMAIN Sent : Sent[i].colon}}
            withheld == {"Connection", "Content-Length"} \cup (IF user THEN {"Authorization"} ELSE {})
        IN  /\ {vars[k].name : k \in DOMAIN vars} = names \ withheld
            /\ \A k \in DOMAIN vars :
                  /\ Words(vars[k].value) = ValuesOf(vars[k].name)
                  /\ \A j \in DOMAIN vars : vars[j].name = vars[k].name => j = k

\* What the client accepts is what its fields mean, in order, and the two formats
\* that every client has to accept.
AcceptedRight ==
    LET meant(name) == LET of == FieldsNamed(name) IN FlattenSeq([k \in DOMAIN of |-> of[k].meant])
        conversions == EndParse(request, TRUE).conversions
        reps == {conversions[k].rep : k \in DOMAIN conversions}
    IN  /\ IsPrefix(meant("Accept"), conversions)
        /\ request.languages = meant("Accept-Language")
        /\ {<<"text/html">>, <<"text/plain">>} \subseteq reps

NothingKnown == [location |-> <<"/", "a">>, content_language |-> Null, content_encoding |-> Null,
                 content_type |-> Null, content_length |-> Null, last_modified |-> Null,
                 expires |-> Null, www_authenticate |-> Null]

\* Nor do fields for one connection pass the server the other way; the others do,
\* once.  A redirection names the same full URL in the head and in the document.
RepliesRight ==
    LET reply == HTReplyHeadersWith(NothingKnown, Sent, <<>>)
        known == {"Server", "Date", "Location"}
        redirected == HTLoadRedirection(NothingKnown, TRUE, FALSE)
    IN
    /\ SelectSeq(reply, LAMBDA f : f.name \notin known)
          = SelectSeq(Sent, LAMBDA f : f.name # "Connection")
    /\ \E k \in DOMAIN redirected.headers :
          redirected.headers[k] = Field("Location", redirected.body)

\* All four: every field of a request and of a reply reaches whom it is for.
FieldsRight ==
    fields # <<>> =>
        ForwardedRight /\ VariablesRight /\ AcceptedRight /\ RepliesRight

-----------------------------------------------------------------------------
(* Conditional requests: replies of some fields, in blocks of any size.    *)

CONSTANT MaxUnits   \* the bound of the texts and line ends of a reply

VARIABLE came       \* the reply, as it was put

conditionalVars == <<state, buffer, sink, came>>

\* A document changed on day 1 or 3, and the client has the one of day 2 (Limit).
Status == [LineEnd EXCEPT !.name = "status"]
Document == [LineEnd EXCEPT !.name = "document"]
Dated(name, format, date) ==
    [name |-> name, format |-> format, date |-> date, comma |-> format # "asctime",
     hyphen |-> name # "Date" \/ format = "rfc850"]

FieldLine ==
    {Dated("Last-Modified", format, date) :
        format \in {"rfc850", "rfc1123", "asctime"}, date \in {1, 3}}
    \cup {Dated("Date", "rfc1123", 2),
          [LineEnd EXCEPT !.name = "Content-Type", !.hyphen = TRUE],
          [LineEnd EXCEPT !.name = "Allow", !.comma = TRUE]}

ConditionalInit == HTIfModSinceStream /\ came = <<>>

\* The status line, fields and an empty line, and the document.
Ended(reply) == \E k \in DOMAIN reply : k > 1 /\ reply[k] = LineEnd /\ reply[k - 1] = LineEnd

NextText(reply) ==
    IF reply = <<>> THEN {Status}
    ELSE IF Last(reply) # LineEnd THEN {LineEnd}
    ELSE IF Ended(reply) THEN {Document} ELSE {LineEnd} \cup FieldLine

RECURSIVE Blocks(_, _)
Blocks(reply, n) ==
    IF n = 0 THEN {<<>>}
    ELSE {<<>>} \cup UNION {{<<t>> \o b : b \in Blocks(Append(reply, t), n - 1)} : t \in NextText(reply)}

PutBlock(b) ==
    /\ Len(came) + Len(b) <= MaxUnits
    /\ IMS_put_block(b)
    /\ came' = came \o b

ConditionalNext == \E b \in Blocks(came, 3) \ {<<>>} : PutBlock(b)

-----------------------------------------------------------------------------
\* A date is plain to read if nothing behind it in the reply looks like another
\* format: a hyphen behind the second one, a comma behind the third.
Followed(reply, k, sign) == \E j \in k + 1..Len(reply) : reply[j][sign]

Readable(reply, k) ==
    \/ reply[k].format = "rfc850"
    \/ reply[k].format = "rfc1123" /\ ~Followed(reply, k, "hyphen")
    \/ reply[k].format = "asctime" /\ ~Followed(reply, k, "comma")

\* The third with a comma behind it: the date of another field may be taken for it.
MistakenDate(reply, k) == reply[k].format = "asctime" /\ Followed(reply, k, "comma")

Header(reply) ==
    LET end == Min({k \in 2..Len(reply) : reply[k] = LineEnd /\ reply[k - 1] = LineEnd}) IN
    SubSeq(reply, 1, end)

Dates(reply) == {k \in DOMAIN reply : reply[k].name = "Last-Modified"}

\* The fields of a reply with another status, and nothing of the document.
AsUnmodified(head) == <<NotModified>> \o SubSeq(head, 3, Len(head))

\* Nothing is sent before the fields are complete. Then the reply is sent as it came, or
\* its fields with another status: always if its date is plain to read and not newer than
\* the client's, and never if it is newer, plain or not, unless the date of another field
\* is taken for it - however the reply is cut into blocks.
ConditionalRight ==
    IF ~Ended(came) THEN sink = <<>>
    ELSE LET head == Header(came)
             old == {k \in Dates(head) : head[k].date <= Limit}
             mistaken == {k \in Dates(head) : MistakenDate(head, k)} IN
         /\ sink \in {came, AsUnmodified(head)}
         /\ (\E k \in old : Readable(head, k)) => sink = AsUnmodified(head)
         /\ sink = AsUnmodified(head) => old \cup mistaken # {}

\* What the head of HTims.c says: a reply is modified "into 304 Not modified response if
\* the Last-Modified field doesn't give a more recent date".  Of dates in the second
\* format, the one that HTTP prefers.
UnmodifiedTold ==
    Ended(came) =>
        LET head == Header(came) IN
        Dates(head) # {} /\ (\A k \in Dates(head) : head[k].date <= Limit /\ head[k].format = "rfc1123")
            => sink = AsUnmodified(head)

-----------------------------------------------------------------------------
\* What is made of a text keeps the text: by the generator and the parser of HTML,
\* the parser of a header section, the converters, and the fields of requests and
\* replies, the conditional one among them.
TextsRight == MarkupRight /\ ConvertersRight /\ FieldsRight /\ ConditionalRight

-----------------------------------------------------------------------------
(* Trees against what a sorted list is.                                      *)

\* The height of the tree under each element, as it is.
HeightOf ==
    LET height[e \in DOMAIN tree] ==
          LET of(s) == IF tree[e].child[s] = NULL THEN 0 ELSE height[tree[e].child[s]] IN
          1 + IF of("left") > of("right") THEN of("left") ELSE of("right")
    IN  height

\* Whatever was rotated, a tree lists all that was put into it, each once, in
\* order and equal ones as they were added.
Sorted ==
    father = NULL =>
        /\ ToSet(Listing) = DOMAIN tree /\ Len(Listing) = Len(tree)
        /\ \A i \in 1..Len(Listing) - 1 :
              LET a == Listing[i]  b == Listing[i + 1] IN
              \/ tree[a].object < tree[b].object
              \/ tree[a].object = tree[b].object /\ a < b

\* The depths by which it is balanced are those of its branches, at every step.
Depths ==
    \A e \in DOMAIN tree, s \in Side :
        tree[e].depth[s] = IF tree[e].child[s] = NULL THEN 0 ELSE HeightOf[tree[e].child[s]]

\* Both: a tree stays one that can be listed and balanced.
TreeRight == tree # <<>> => Sorted /\ Depths

-----------------------------------------------------------------------------
(* Anchors: what a program that reads documents does with them.            *)

CONSTANTS
    MaxAnchors,   \* the bound of the anchors in memory
    MaxLinks,     \* of the links of all of them
    InProxy       \* HTImProxy

VARIABLES
    adult_table,
    anchors,
    asked         \* the documents that were looked for

anchorVars == <<adult_table, anchors, asked>>

Void == "void"

\* Two spellings of one document that fall into one list, the same one not
\* simplified, and another; a tag in two spellings.
Doc == {"a", "A", "./a", "b"}
Upper == [s \in Doc \cup {"t", "T", Void} |->
            IF s = "a" THEN "A" ELSE IF s = "t" THEN "T" ELSE s]
Lists == ("a" :> 1) @@ ("A" :> 1) @@ ("./a" :> 1) @@ ("b" :> 2)
Simple == [d \in Doc |-> IF d = "./a" THEN "a" ELSE d]

Anchor == INSTANCE Anchors WITH
    Tag <- {"t", "T"}, LinkType <- {"made", Void}, TOUPPER <- Upper, Hash <- Lists,
    HTSimplify <- Simple, HTImProxy <- InProxy

Becomes(h) == adult_table' = h.table /\ anchors' = h.anchors

Parents == {a \in DOMAIN anchors : anchors[a].parent = a}
LinksOf(a) ==
    (IF anchors[a].mainLink.dest = 0 THEN <<>> ELSE <<anchors[a].mainLink>>) \o anchors[a].links
RECURSIVE LinksUpTo(_)
LinksUpTo(a) == IF a = 0 THEN 0 ELSE Len(LinksOf(a)) + LinksUpTo(a - 1)

AnchorInit ==
    /\ adult_table = [l \in 1..2 |-> <<>>]
    /\ anchors = <<>>
    /\ asked = {}

FindAddress(doc, tag) ==
    /\ Becomes(Anchor!HTAnchor_findAddress(Anchor!Heap, [doc |-> doc, tag |-> tag]).h)
    /\ asked' = asked \cup {doc}

FindChildAndLink(parent, tag, doc, to) ==
    /\ LinksUpTo(Len(anchors)) < MaxLinks
    /\ Becomes(Anchor!HTAnchor_findChildAndLink(Anchor!Heap, parent, tag,
                                                [doc |-> doc, tag |-> to], Void))
    /\ asked' = asked \cup ({doc} \ {Void})

LinkAnchor(source, destination) ==
    /\ LinksUpTo(Len(anchors)) < MaxLinks
    /\ Becomes(Anchor!HTAnchor_link(Anchor!Heap, source, destination, "made"))
    /\ UNCHANGED asked

MakeMainLink(me, k) ==
    /\ Becomes(Anchor!HTAnchor_makeMainLink(Anchor!Heap, me, k))
    /\ UNCHANGED asked

MakeLastChild(me) ==
    /\ Becomes(Anchor!HTAnchor_makeLastChild(Anchor!Heap, me))
    /\ UNCHANGED asked

AnchorStep ==
    \/ \E doc \in Doc, tag \in {"t", Void} : FindAddress(doc, tag)
    \/ \E parent \in Parents, tag \in {"T", Void}, doc \in {"A", "b", Void}, to \in {"t", Void} :
          FindChildAndLink(parent, tag, doc, to)
    \/ \E source, destination \in DOMAIN anchors : LinkAnchor(source, destination)
    \/ \E me \in DOMAIN anchors : \E k \in DOMAIN anchors[me].links : MakeMainLink(me, k)
    \/ \E me \in DOMAIN anchors : MakeLastChild(me)

\* While there is room.
AnchorNext == AnchorStep /\ Len(anchors') <= MaxAnchors

-----------------------------------------------------------------------------
\* Where a link leads is entered as often as it is made, and nothing else is.
SourcesMatch ==
    \A p \in Parents, a \in DOMAIN anchors :
        Cardinality({k \in DOMAIN anchors[p].sources : anchors[p].sources[k] = a})
        = Cardinality({k \in DOMAIN LinksOf(a) : anchors[LinksOf(a)[k].dest].parent = p})

\* Every child is once among the children of its parent.
InFamily ==
    \A a \in DOMAIN anchors \ Parents :
        \E k \in DOMAIN anchors[anchors[a].parent].children :
            /\ anchors[anchors[a].parent].children[k] = a
            /\ \A j \in DOMAIN anchors[anchors[a].parent].children \ {k} :
                  anchors[anchors[a].parent].children[j] # a

\* What is looked for by its own address is found, and nothing new is made; if
\* no document of that list was asked for under a name not simplified, or the
\* program is a proxy.
FoundAgain ==
    \A a \in DOMAIN anchors :
        LET address == Anchor!HTAnchor_address(Anchor!Heap, a) IN
        (/\ a \in Parents \/ anchors[a].tag # Void
         /\ InProxy \/ \A doc \in asked : Lists[doc] = Lists[address.doc] => Simple[doc] = doc)
        => Anchor!HTAnchor_findAddress(Anchor!Heap, address) = [h |-> Anchor!Heap, anchor |-> a]

\* A link of a type is found if there is one.
TypeFollowed ==
    \A a \in DOMAIN anchors :
        LET dests == {LinksOf(a)[k].dest : k \in {j \in DOMAIN LinksOf(a) :
                                                    LinksOf(a)[j].type = "made"}} IN
        IF dests = {} THEN Anchor!HTAnchor_followTypedLink(Anchor!Heap, a, "made") = 0
        ELSE Anchor!HTAnchor_followTypedLink(Anchor!Heap, a, "made") \in dests

\* The memory of anchors is consistent however it came about: links and sources
\* agree, families are whole, what is known is found again, and links by type.
AnchorsRight == SourcesMatch /\ InFamily /\ FoundAgain /\ TypeFollowed

-----------------------------------------------------------------------------
(* Formats against what the client asks for: every small directory of files   *)
(* in several types, encodings and languages, and every list of what a client *)
(* accepts, an entry at a time.                                               *)

VARIABLES
    dir,       \* the files of a directory, in the order in which it is read
    accepted   \* HTConversions, HTLanguages, HTEncodings of the request

formatVars == <<dir, accepted>>

MC_MULTI == ".multi"
SuffixEntry(type, encoding, language, quality) ==
    [type |-> type, encoding |-> encoding, language |-> language, quality |-> quality]

KnownSuffixes == {".html", ".txt", ".gz", ".fr"}
MCSuffix == [s \in KnownSuffixes |->
    IF s = ".html" THEN SuffixEntry(<<"text", "html">>, Unset, Unset, 10)
    ELSE IF s = ".txt" THEN SuffixEntry(<<"text", "plain">>, <<"7bit">>, Unset, 5)
    ELSE IF s = ".gz" THEN SuffixEntry(Unset, <<"gzip">>, Unset, 10)
    ELSE SuffixEntry(Unset, Unset, <<"fr", "CA">>, 10)]
Plain == <<"text", "plain">>
MCWelcome == << <<"doc", ".txt">>, <<"doc", ".html">> >>

\* In the order in which they are added to a directory.
Files == << <<"doc", ".html">>, <<"doc", ".txt", ".gz">>, <<"doc", ".fr", ".html">>,
            <<"doc", ".txt">>, <<"doc", ".odd">> >>
MaxFiles == 3

Accepted == [types : BoundedSeq([rep : {<<"text", "html">>, <<"text", "*">>, AnyType},
                                 quality : {5, 10}], 2),
             languages : BoundedSeq([rep : {<<"fr">>}, quality : {5}], 1),
             encodings : BoundedSeq([rep : {<<"gzip">>}, quality : {0, 5}], 1)]

NoneAccepted == [types |-> <<>>, languages |-> <<>>, encodings |-> <<>>]

FormatInit == dir = <<>> /\ accepted \in Accepted

Index(name) == CHOOSE i \in DOMAIN Files : Files[i] = name

AddFile(i, readable) ==
    /\ Len(dir) < MaxFiles
    /\ dir # <<>> => Index(Last(dir).name) < i
    /\ readable \/ \A k \in DOMAIN dir : dir[k].readable
    /\ dir' = Append(dir, [name |-> Files[i], readable |-> readable])
    /\ UNCHANGED accepted

FormatNext == \E i \in DOMAIN Files, readable \in BOOLEAN : AddFile(i, readable)

-----------------------------------------------------------------------------

Names == {dir[k].name : k \in DOMAIN dir}
Wanted == {<<"doc">>, <<"doc", MC_MULTI>>, <<"doc", ".html">>, <<"doc", ".gz", MC_MULTI>>}

\* The readable files that a name may stand for and that the client accepts.
Candidates(name) ==
    LET parts == ToSet(name) \ {MC_MULTI} IN
    {c \in {[file |-> dir[k], cd |-> HTGetContentDescription(dir[k].name)] : k \in DOMAIN dir} :
        /\ c.file.readable /\ c.cd # Unset
        /\ Head(c.file.name) = Head(name) /\ parts \subseteq ToSet(c.file.name)
        /\ type_value(c.cd.type, accepted.types) > 0}

\* A name is answered with the file of that name, or with a file that it may stand
\* for and that the client would not like any other better than, of a type that it
\* accepts; with none only if there is none such.
BestChosen ==
    \A name \in Wanted :
        LET best == HTMulti(dir, name, accepted)
            candidates == Candidates(name)
        IN  \/ best = name /\ name \in Names
            \/ best = Unset /\ candidates = {}
            \/ \E c \in candidates :
                  /\ c.file.name = best
                  /\ type_value(HTFileFormat(best), accepted.types) > 0
                  /\ \A d \in candidates : Ranked(d, accepted) <= Ranked(c, accepted)

\* A directory's own document is the one named first in the configuration.
WelcomeChosen ==
    LET best == HTMulti(dir, <<>>, accepted)
        present == {i \in DOMAIN MCWelcome : MCWelcome[i] \in Names}
    IN  IF present = {} THEN best = Unset ELSE best = MCWelcome[Min(present)]

\* The conversion that is taken is for the document's type, no other is for fewer
\* types, and no other for as many is of better quality.
StackRight ==
    \A rep \in {<<"text", "html">>, <<"image", "gif">>} :
        LET list == accepted.types
            applies(i) == list[i].rep = rep \/ wild_match(list[i].rep, rep)
            taken == HTStreamStack(list, rep)
        IN  IF taken = <<>> THEN \A i \in DOMAIN list : ~applies(i)
            ELSE \A i \in DOMAIN list : applies(i) =>
                    /\ Stars(list[i].rep) >= Stars(taken[1].rep)
                    /\ Stars(list[i].rep) = Stars(taken[1].rep) =>
                          list[i].quality <= taken[1].quality

\* All three: the document and its form that suit the client best.
FormatsRight ==
    /\ dir # <<>> => BestChosen /\ WelcomeChosen
    /\ accepted # NoneAccepted => StackRight

-----------------------------------------------------------------------------
(* FTPListing against the listings that servers print: every directory of a  *)
(* few files, in the layout of each kind of server, and every short reply.   *)

CONSTANTS
    MaxListed,   \* the bound of a directory's files
    MaxReply     \* the bound of a reply's lines

VARIABLES
    server,   \* ctrl->server
    now,      \* the date
    listed,   \* the files of the directory
    reply     \* the lines of a reply: code or 0, "-" behind it, text

listingVars == <<server, now, listed, reply>>

Server == {"UNIX", "WINDOWS_NT", "VMS", "NCSA", "GENERIC"}
Now == {12 * 1994, 12 * 1994 + 4, 12 * 1994 + 11}

ListingInit == server \in Server /\ now \in Now /\ listed = <<>> /\ reply = <<>>

FileNames == {<<Word("a")>>, <<Word("b"), Number(2)>>, <<Number(3)>>}
Group == {<<>>, <<Word("group")>>, <<Number(7)>>}

ListFile(file) ==
    /\ reply = <<>> /\ Len(listed) < MaxListed
    /\ listed' = Append(listed, file)
    /\ UNCHANGED <<server, now, reply>>

\* How long ago a file was changed: a UNIX server gives the year of the last one.
Ages == {0, 1, 11, 30}

UnixFile ==
    [name : FileNames, mode : {"IFREG", "IFDIR", "IFLNK"}, group : Group,
     age : Ages, size : {5}]
\* A size in blocks, alone or of how many, or in bytes; the place where the line is
\* wrapped, 0 if it is not.
VMSFile ==
    [name : {<<Word("a")>>, <<Word("b")>>}, mode : {"IFREG", "IFDIR"},
     blocks : {<<Number(2)>>, <<Number(2), Word("/"), Number(3)>>}, wrap : 0..1]
NamedFile == [name : FileNames, mode : {"IFREG", "IFDIR"}]

ReplyLine(line) ==
    /\ listed = <<>> /\ server = "UNIX" /\ now = 12 * 1994
    /\ Len(reply) < MaxReply
    /\ reply' = Append(reply, line)
    /\ UNCHANGED <<server, now, listed>>

ReplyLines == [code : {0, 220, 230}, more : BOOLEAN, text : {"x", "y"}]

ListingNext ==
    \/ /\ server \in {"UNIX", "WINDOWS_NT"}
       /\ \E file \in UnixFile : ListFile(file)
    \/ /\ server = "VMS"
       /\ \E file \in VMSFile : ListFile(file)
    \/ /\ server \in {"NCSA", "GENERIC"}
       /\ \E file \in NamedFile : ListFile(file)
    \/ \E line \in ReplyLines : ReplyLine(line)

-----------------------------------------------------------------------------
(* What the servers print                                                  *)

Permission(mode) ==
    IF mode = "IFDIR" THEN Word("d") ELSE IF mode = "IFLNK" THEN Word("l") ELSE Word("-")

DateOf(file) ==
    LET date == now - file.age IN
    Date(date % 12, IF file.age < 12 THEN 0 ELSE date \div 12)

UnixLine(file) ==
    <<Permission(file.mode), Number(1), Word("owner")>> \o file.group
    \o <<Number(file.size), DateOf(file)>> \o file.name
    \o (IF file.mode = "IFLNK" THEN <<Word("->"), Word("target")>> ELSE <<>>)

\* One line, or two if it is wrapped, behind the version or the size.
VMSLines(file) ==
    LET name == file.name \o (IF file.mode = "IFDIR" THEN <<Word(".dir")>> ELSE <<>>)
                \o <<Word(";"), Number(1)>>
        rest == file.blocks \o <<Word("owner")>>
    IN  IF file.wrap = 0 THEN << name \o rest >>
        ELSE << name, rest >>

NamedLine(file) ==
    file.name \o (IF server = "NCSA" /\ file.mode = "IFDIR" THEN <<Word("/")>> ELSE <<>>)

\* The whole listing; total: a Windows NT server prints that line.
PrintedListing(total) ==
    IF server \in {"UNIX", "WINDOWS_NT"}
    THEN (IF total THEN << <<Word("total"), Number(9)>> >> ELSE <<>>)
         \o [k \in DOMAIN listed |-> UnixLine(listed[k])]
    ELSE IF server = "VMS"
    THEN << <<Word("directory")>>, <<>> >> \o FlattenSeq([k \in DOMAIN listed |-> VMSLines(listed[k])])
         \o << <<Word("total"), Number(9), Word("files")>> >>
    ELSE [k \in DOMAIN listed |-> NamedLine(listed[k])]

Entry(file) ==
    IF server \in {"UNIX", "WINDOWS_NT"}
    THEN Info(file.name, file.mode, file.size, now - file.age)
    ELSE IF server = "VMS" THEN Info(file.name, file.mode, 1024, 0)
    ELSE Info(file.name, IF server = "NCSA" THEN file.mode ELSE "IFREG", 0, 0)

\* A listing is read as what it lists: each file once and in order, with its name,
\* kind and size, and with the date that was meant, the year included.
ListingRead ==
    \A total \in {TRUE} \cup (IF server = "WINDOWS_NT" THEN {FALSE} ELSE {}) :
        HTFTP_get_dir(server, PrintedListing(total), now) =
            FlattenSeq([k \in DOMAIN listed |-> Entry(listed[k])])

\* The texts of a reply's lines are all there, a welcome's but the last, which ends
\* the reply, and no code of the reply is left in them.
ReplyRead ==
    LET final == {i \in 2..Len(reply) : reply[i].code # 0 /\ ~reply[i].more}
        texts == [i \in DOMAIN reply |-> reply[i].text]
    IN
    reply # <<>> /\ reply[1].code # 0 =>
        /\ final = {Len(reply)} /\ reply[1].more =>
              HTFTPParseWelcome(reply) = Front(texts)
        /\ LET error == HTFTPParseError(reply) IN
           /\ [i \in DOMAIN error |-> error[i].text] = texts
           /\ \A i \in DOMAIN error : error[i].code # reply[1].code

\* Both: the FTP client understands what servers tell it.
ListingsRight == (listed # <<>> => ListingRead) /\ ReplyRead

-----------------------------------------------------------------------------
\* What a structure is asked for is what was put into it: a sorted tree and the
\* anchors of documents.
StructuresRight == TreeRight /\ AnchorsRight

=============================================================================
