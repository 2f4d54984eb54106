---------------------------- MODULE RequestFields ----------------------------
(***************************************************************************)
(* The fields of a request and of a reply (Daemon/Implementation/          *)
(* HTRequest.c): what HTParseRequest takes from each field, which fields   *)
(* go on to a remote server and into the environment of a script, and the  *)
(* header section of a reply; and the stream for conditional requests      *)
(* (HTims.c).                                                              *)
(*                                                                         *)
(* A field is a record of name, whether it has a colon, and value, a       *)
(* sequence of words and separators; names are in one case.  A quality is  *)
(* in tenths.                                                              *)
(***************************************************************************)
EXTENDS Integers, Sequences, SequencesExt, FiniteSetsExt

CONSTANTS
    BeginsWith,   \* of each name: the field HTParseRequest takes it for
    Attribute     \* of a word "q=0.5": its name and value

Null == <<>>

-----------------------------------------------------------------------------
(* hbuf: the fields that are kept                                          *)

\* "Don't include keep-alive and connection"
PerHop == {"Connection", "Keep-Alive"}

\* Named fields that are cancelled for the remote server, which gets them in
\* another form, and for scripts, which have variables of their own for them.
ProxyCancelled == {"User-Agent", "If-Modified-Since"}
CgiCancelled == {"Content-Type", "Content-Length"}

HeaderField(f) == IF f.colon THEN BeginsWith[f.name] ELSE "invalid"

hbuf_append(hbuf, f) ==
    IF BeginsWith[f.name] \in PerHop THEN hbuf
    ELSE Append(hbuf, [line |-> f,
                       proxy_header |-> HeaderField(f) \notin ProxyCancelled,
                       cgi_header |-> HeaderField(f) \notin CgiCancelled])

Field(name, value) == [name |-> name, colon |-> TRUE, value |-> value]

\* The header section for a remote server.
hbuf_proxy_headers(req) ==
    LET passed == SelectSeq(req.hbuf, LAMBDA n : n.proxy_header) IN
    (IF req.if_modified_since = Null THEN <<>>
     ELSE <<Field("If-Modified-Since", req.if_modified_since)>>)
    \o [k \in DOMAIN passed |-> passed[k].line]
    \o <<Field("User-Agent", req.user_agent), Field("Via", <<"Nobody">>)>>

\* The value of a variable: those of the parts, with commas between them.
do_it_all(parts) ==
    FlattenSeq([k \in DOMAIN parts |->
                  IF k = 1 THEN parts[k].line.value ELSE <<",">> \o parts[k].line.value])

\* One variable, for the field and those behind it that have its name; they are
\* crossed out.  Not HTTP_AUTHORIZATION, if the server has checked it.
Variable(st, i, user) ==
    LET node == st.hbuf[i]
        same(n) == n.cgi_header /\ n.line.colon /\ n.line.name = node.line.name
        parts == SelectSeq(SubSeq(st.hbuf, i, Len(st.hbuf)), same)
    IN
    IF ~(node.cgi_header /\ node.line.colon) THEN st
    ELSE [hbuf |-> [k \in DOMAIN st.hbuf |->
                      IF k >= i /\ same(st.hbuf[k])
                      THEN [st.hbuf[k] EXCEPT !.cgi_header = FALSE] ELSE st.hbuf[k]],
          vars |-> IF user /\ node.line.name = "Authorization" THEN st.vars
                   ELSE Append(st.vars, [name |-> node.line.name, value |-> do_it_all(parts)])]

hbuf_http_env_vars(hbuf, user) ==
    FoldLeft(LAMBDA st, i : Variable(st, i, user), [hbuf |-> hbuf, vars |-> <<>>],
             [i \in DOMAIN hbuf |-> i])

-----------------------------------------------------------------------------
(* Values                                                                  *)

Separators == {" ", ";", ","}

\* The first place of a word that is, or is not, one of a set; behind the end if none.
PlaceOf(source, words) ==
    Min({i \in DOMAIN source : source[i] \in words} \cup {Len(source) + 1})
PastBlanks(source) ==
    SubSeq(source, Min({i \in DOMAIN source : source[i] # " "} \cup {Len(source) + 1}), Len(source))

\* A text up to one of the separators; the blank is "to understand old Accept:
\* format".
SplitAt(word, p) ==
    [part |-> SubSeq(word, 1, p - 1), separator |-> SubSeq(word, p, Min({p, Len(word)})),
     source |-> SubSeq(word, p + 1, Len(word))]
PartOf(word) == SplitAt(word, PlaceOf(word, Separators))
get_part(source) == PartOf(PastBlanks(source))

FirstWord(word) == IF word = <<>> THEN Null ELSE <<word[1]>>
get_word(source) == FirstWord(PastBlanks(source))

\* One attribute; without "=" it is skipped, and mxb and mxs do not matter here.
WithAttribute(entry, part) ==
    IF \E w \in DOMAIN Attribute : part = <<w>> /\ Attribute[w].name = "q"
    THEN [entry EXCEPT !.quality = Attribute[part[1]].value]
    ELSE entry

\* Attributes of an entry, while there is a ";".
RECURSIVE Attributes(_, _)
NextAttribute(got, entry) == Attributes(got, WithAttribute(entry, got.part))
Attributes(got, entry) ==
    IF got.separator # <<";">> THEN [entry |-> entry, source |-> got.source]
    ELSE NextAttribute(get_part(got.source), entry)

parse_entry(got) == Attributes(got, [rep |-> got.part, quality |-> 10])

\* All entries of a value, up to one without a name.
RECURSIVE Entries(_)
AndTheRest(read) == <<read.entry>> \o Entries(read.source)
EntryAt(got) == IF got.part = <<>> THEN <<>> ELSE AndTheRest(parse_entry(got))
Entries(source) == EntryAt(get_part(source))

-----------------------------------------------------------------------------
(* HTParseRequest                                                          *)

NoRequest == [hbuf |-> <<>>, conversions |-> <<>>, encodings |-> <<>>, languages |-> <<>>,
              content_type |-> Null, content_length |-> Null, authorization |-> Null,
              user_agent |-> Null, from |-> Null, referer |-> Null,
              if_modified_since |-> Null, no_cache_pragma |-> FALSE]

\* "www/source" is any type.
Conversion(entry) == IF entry.rep = <<"www/source">> THEN [entry EXCEPT !.rep = <<"*/*">>] ELSE entry

\* The three fields with exact names.
Accepts(req, name, entries) ==
    IF name = "Accept"
    THEN [req EXCEPT !.conversions = @ \o [k \in DOMAIN entries |-> Conversion(entries[k])]]
    ELSE IF name = "Accept-Encoding" THEN [req EXCEPT !.encodings = @ \o entries]
    ELSE [req EXCEPT !.languages = @ \o entries]

Pragmas(req, entries) ==
    [req EXCEPT !.no_cache_pragma =
        @ \/ \E k \in DOMAIN entries : entries[k].rep = <<"no-cache">>]

\* Of a field that comes again the last one counts, except for Accept fields and
\* Pragma.
Parse(req, f, name) ==
    CASE name \in {"Accept", "Accept-Encoding", "Accept-Language"} ->
            Accepts(req, name, Entries(f.value))
      [] name = "Content-Type" ->
            IF get_word(f.value) = Null THEN req ELSE [req EXCEPT !.content_type = get_word(f.value)]
      [] name = "Content-Length" ->
            IF get_word(f.value) = Null THEN req ELSE [req EXCEPT !.content_length = get_word(f.value)]
      [] name = "Authorization" -> [req EXCEPT !.authorization = f.value]
      [] name = "User-Agent" -> [req EXCEPT !.user_agent = f.value]
      [] name = "If-Modified-Since" ->
            [req EXCEPT !.if_modified_since = IF f.value = <<"bad date">> THEN Null ELSE f.value]
      [] name = "From" -> [req EXCEPT !.from = f.value]
      [] name = "Referer" -> [req EXCEPT !.referer = f.value]
      [] name = "Pragma" -> Pragmas(req, Entries(f.value))
      [] OTHER -> req

\* Conversions that are added behind the client's own.
Assumed(req, http1) ==
    LET names == {req.conversions[k].rep : k \in DOMAIN req.conversions}
        add(rep, quality) == <<[rep |-> rep, quality |-> quality]>>
    IN
    (IF http1 THEN <<>> ELSE add(<<"application/octet-stream">>, 7) \o add(<<"www/source">>, 7))
    \o (IF <<"text/html">> \in names THEN <<>> ELSE add(<<"text/html">>, 10))
    \o (IF <<"text/plain">> \in names THEN <<>> ELSE add(<<"text/plain">>, 10))

\* One line of the request, and what is done behind the last one.
ParseLine(req, f) == [Parse(req, f, HeaderField(f)) EXCEPT !.hbuf = hbuf_append(@, f)]
EndParse(req, http1) == [req EXCEPT !.conversions = @ \o Assumed(req, http1)]

-----------------------------------------------------------------------------
(* Replies                                                                 *)

\* A line of a meta file, unless it is blank.
fix_meta_field(line) == IF line.name = "" THEN <<>> ELSE <<line>>

Optional(name, value) == IF value = Null THEN <<>> ELSE <<Field(name, value)>>

Identities == {<<"7bit">>, <<"8bit">>, <<"binary">>}

\* What the daemon knows of the document, then what a script or a remote server has
\* added, then the challenge, then the meta file.
HTReplyHeadersWith(out, extras, meta) ==
    LET passed == SelectSeq(extras, LAMBDA f : BeginsWith[f.name] \notin PerHop) IN
    <<Field("Server", <<"CERN">>), Field("Date", <<"now">>)>>
    \o Optional("Location", out.location)
    \o Optional("Content-Language", out.content_language)
    \o (IF out.content_encoding \in Identities THEN <<>>
        ELSE Optional("Content-Encoding", out.content_encoding))
    \o Optional("Content-Type", out.content_type)
    \o Optional("Content-Length", out.content_length)
    \o Optional("Last-Modified", out.last_modified)
    \o Optional("Expires", out.expires)
    \o passed
    \o Optional("WWW-Authenticate", out.www_authenticate)
    \o FlattenSeq([k \in DOMAIN meta |-> fix_meta_field(meta[k])])

\* A path on this server becomes a full URL; NULL for one that is full.
HTFullSelfReference(url) ==
    IF url[1] = "/" THEN <<"http:", "host">> \o url ELSE Null

\* A redirection: the head, and a short document for old browsers.
HTLoadRedirection(out, http1, head) ==
    LET full == HTFullSelfReference(out.location)
        location == IF full = Null THEN out.location ELSE full
        message == [out EXCEPT !.location = location, !.content_type = <<"text/html">>,
                               !.content_length = <<"message">>]
    IN  [headers |-> IF http1 THEN HTReplyHeadersWith(message, <<>>, <<>>) ELSE <<>>,
         body |-> IF head THEN <<>> ELSE location]

\* A document that the client did not ask for, with a warning.
HTHackWrapper(out, input_format, http1) ==
    IF ~http1 THEN <<>>
    ELSE HTReplyHeadersWith([out EXCEPT !.content_type = input_format],
                            <<Field("X-httpd-warning", <<"no Accept">>)>>, <<>>)

-----------------------------------------------------------------------------
(* HTims.c: the stream that turns the reply to a conditional request into  *)
(* a 304, if the document has not changed since; and the dates of HTTP     *)
(* (HTSUtils.c).                                                           *)
(*                                                                         *)
(* A reply is a sequence of line ends and of the texts between them: the   *)
(* status line, fields and lines of the document.  Of a text counts the    *)
(* field's name, the format of a date in it ("" if there is none) and the  *)
(* date, and whether a comma or a hyphen is in it.                         *)

CONSTANT Limit         \* If-Modified-Since

VARIABLES
    state,             \* "EOL", "LINE", "BODY" or "JUNK"
    buffer,            \* what came before the first empty line
    sink               \* what was sent on

LineEnd == [name |-> "LF", format |-> "", date |-> 0, comma |-> FALSE, hyphen |-> FALSE]
NotModified == [LineEnd EXCEPT !.name = "304"]

\* The first of the texts with a comma decides where the date is looked for, and
\* a hyphen anywhere behind it which format it is taken for.
parse_http_time(texts) ==
    LET k == SelectInSeq(texts, LAMBDA text : text.comma)
        hyphen == texts[k].format = "rfc850"
                  \/ \E j \in k + 1..Len(texts) : texts[j].hyphen IN
    IF k = 0 THEN IF texts[1].format = "asctime" THEN texts[1].date ELSE 0
    ELSE IF texts[k].format = (IF hyphen THEN "rfc850" ELSE "rfc1123") THEN texts[k].date
    ELSE 0

\* The fields begin behind the first line end.
Since(text) ==
    LET lines == {k \in 2..Len(text) : text[k].name = "Last-Modified"} IN
    {k \in lines : LET t == parse_http_time(SubSeq(text, k, Len(text))) IN t > 0 /\ t <= Limit}

Fields(text) == SubSeq(text, SelectInSeq(text, LAMBDA u : u = LineEnd) + 1, Len(text))

IMS_decide(me) ==
    IF Since(me.buffer) # {}
    THEN [me EXCEPT !.state = "JUNK", !.sink = @ \o <<NotModified>> \o Fields(me.buffer)]
    ELSE [me EXCEPT !.state = "BODY", !.sink = @ \o me.buffer]

Noted(me, c) == IF c = LineEnd THEN [me EXCEPT !.state = "EOL"] ELSE [me EXCEPT !.state = "LINE"]

IMS_put_char(me, c) ==
    LET got == [me EXCEPT !.buffer = Append(@, c)] IN
    IF me.state = "JUNK" THEN me
    ELSE IF me.state = "BODY" THEN [me EXCEPT !.sink = Append(@, c)]
    ELSE IF c = LineEnd /\ me.state = "EOL" THEN IMS_decide(got)
    ELSE Noted(got, c)

IMS_put_block(b) ==
    LET me == FoldLeft(IMS_put_char, [state |-> state, buffer |-> buffer, sink |-> sink], b) IN
    /\ state' = me.state
    /\ buffer' = me.buffer
    /\ sink' = me.sink

HTIfModSinceStream ==
    /\ state = "EOL"
    /\ buffer = <<>>
    /\ sink = <<>>

=============================================================================
