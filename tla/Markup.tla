------------------------------- MODULE Markup -------------------------------
(***************************************************************************)
(* Documents as text and as structure: the generator that writes HTML      *)
(* (Library/Implementation/HTMLGen.c), with its line breaks, and the       *)
(* parser that reads it (SGML.c).                                          *)
(*                                                                         *)
(* A document is a sequence of events: <<"char", c>>, <<"entity", e>>,     *)
(* <<"start", tag, attributes>> and <<"end", tag>>; attributes are pairs   *)
(* of name and value, in the order of the DTD.  Pointers into the line     *)
(* buffer are offsets.                                                     *)
(***************************************************************************)
EXTENDS Integers, Sequences, SequencesExt, FiniteSetsExt

CONSTANTS
    BUFFER_SIZE,   \* of the line buffer
    Tag,           \* the elements of the DTD, as sequences of characters
    Empty,         \* those whose contents are SGML_EMPTY
    PRE,           \* HTML_PRE
    Attr,          \* attributes of any element
    Entity,        \* entity names
    Alnum          \* characters that isalnum() accepts

nl == "nl"
White == {" ", nl}

-----------------------------------------------------------------------------
(* HTMLGen.c: a line at a time                                             *)

\* line_break: of each cleanness for which there is a place to break, the offset and
\* whether the character there is deleted.
NewGenerator ==
    [buffer |-> <<>>, line_break |-> <<>>, cleanness |-> 0,
     overflowed |-> FALSE, preformatted |-> 0, output |-> <<>>]

MAX_CLEANNESS == 10
Delims == <<",", ";", ":", ".">>

Break(g, i) == IF i \in DOMAIN g.line_break THEN g.line_break[i] ELSE [at |-> -1, delete |-> FALSE]

HTMLGen_flush(g) ==
    [g EXCEPT !.output = @ \o g.buffer, !.buffer = <<>>, !.line_break = <<>>, !.cleanness = 0]

allow_break(g, new_cleanness, dlbc) ==
    LET place == [at |-> IF dlbc THEN Len(g.buffer) - 1 ELSE Len(g.buffer), delete |-> dlbc] IN
    [g EXCEPT !.line_break = [i \in DOMAIN @ \cup {new_cleanness} |->
                                IF i = new_cleanness THEN place ELSE @[i]],
              !.cleanness = IF new_cleanness >= @ THEN new_cleanness ELSE @]

\* The line up to the cleanest break goes out; of the other breaks those in the rest
\* remain.  One in front of the buffer writes nothing.
BrokenAt(g, place) ==
    LET saved == IF place.delete THEN place.at + 1 ELSE place.at
        kept == {i \in DOMAIN g.line_break : g.line_break[i].at > saved}
    IN
    [g EXCEPT !.output = @ \o SubSeq(g.buffer, 1, place.at)
                           \o (IF place.at >= 0 THEN <<nl>> ELSE <<>>),
              !.buffer = SubSeq(@, saved + 1, Len(@)),
              !.line_break = [i \in kept |-> [@[i] EXCEPT !.at = @ - saved]],
              !.cleanness = IF kept = {} THEN 0 ELSE Max(kept),
              !.overflowed = FALSE]

\* The buffer is full, or the line is too long and can be broken at last.
Wrapped(g) ==
    IF ~(Len(g.buffer) >= BUFFER_SIZE - 1 \/ (g.overflowed /\ g.cleanness > 0)) THEN g
    ELSE IF g.cleanness > 0 THEN BrokenAt(g, Break(g, g.cleanness))
    ELSE [HTMLGen_flush(g) EXCEPT !.overflowed = TRUE]

\* The cleanness of a blank, by the character before it.
Cleanness(g) ==
    LET before == IF Len(g.buffer) < 2 THEN {}
                  ELSE {k \in DOMAIN Delims : Delims[k] = g.buffer[Len(g.buffer) - 1]}
    IN  IF before = {} THEN 1 ELSE Min(before) + 3

Blank(g) == allow_break(g, Cleanness(g), TRUE)

HTMLGen_output_character(g, c) ==
    IF c = nl /\ g.preformatted > 0
    THEN HTMLGen_flush([g EXCEPT !.buffer = Append(@, nl)])
    ELSE IF c \in White /\ g.preformatted = 0
    THEN Wrapped(Blank([g EXCEPT !.buffer = Append(@, " ")]))
    ELSE Wrapped([g EXCEPT !.buffer = Append(@, c)])

HTMLGen_output_string(g, s) == FoldLeft(HTMLGen_output_character, g, s)

HTMLGen_put_entity(g, name) == HTMLGen_output_string(g, <<"&">> \o name \o <<";">>)

\* seven_bit is not set.
HTMLGen_put_character(g, c) ==
    IF c = "&" THEN HTMLGen_output_string(g, <<"&", "a", "m", "p", ";">>)
    ELSE IF c = "<" THEN HTMLGen_output_string(g, <<"&", "l", "t", ";">>)
    ELSE HTMLGen_output_character(g, c)

\* A blank and an attribute; the break is allowed at the blank, wherever that is now.
PutAttribute(g, a) ==
    HTMLGen_output_string(
        allow_break(HTMLGen_output_character(g, " "), 1, TRUE),
        a[1] \o (IF a[2] = <<>> THEN <<>> ELSE <<"=", "\"">> \o a[2] \o <<"\"">>))

\* Behind the name of an opening tag.
Opened(g, tag) ==
    LET open == HTMLGen_output_character(g, ">") IN
    IF tag = PRE THEN HTMLGen_output_character(open, nl)
    ELSE IF open.preformatted = 0 /\ tag \notin Empty THEN allow_break(open, 3, FALSE)
    ELSE open

HTMLGen_start_element(g, tag, attributes) ==
    LET inside == HTMLGen_output_string([g EXCEPT !.preformatted = 1], <<"<">> \o tag)
        attributed == FoldLeft(PutAttribute, inside, attributes)
    IN  Opened([attributed EXCEPT !.preformatted =
                   IF tag = PRE THEN g.preformatted + 1 ELSE g.preformatted], tag)

Closed(g, tag) ==
    LET closed == HTMLGen_output_string(g, <<"<", "/">> \o tag \o <<">">>) IN
    [closed EXCEPT !.preformatted = IF tag = PRE /\ @ > 0 THEN @ - 1 ELSE @]

HTMLGen_end_element(g, tag) ==
    IF tag = PRE THEN Closed(HTMLGen_output_character(g, nl), tag)
    ELSE IF g.preformatted = 0 THEN Closed(allow_break(g, 1, FALSE), tag)
    ELSE Closed(g, tag)

HTMLGen_free(g) ==
    LET flushed == HTMLGen_flush(g) IN [flushed EXCEPT !.output = Append(@, nl)]

HTMLGen_put(g, e) ==
    CASE e[1] = "char" -> HTMLGen_put_character(g, e[2])
      [] e[1] = "entity" -> HTMLGen_put_entity(g, e[2])
      [] e[1] = "start" -> HTMLGen_start_element(g, e[2], e[3])
      [] e[1] = "end" -> HTMLGen_end_element(g, e[2])

-----------------------------------------------------------------------------
(* SGML.c: a character at a time                                           *)

\* events: the calls of the structured stream; value: the attributes present.
NewParser ==
    [state |-> "text", string |-> <<>>, current_tag |-> <<>>, current_attribute |-> <<>>,
     value |-> <<>>, element_stack |-> <<>>, events |-> <<>>]

To(p, state) == [p EXCEPT !.state = state]
Put(p, c) == [p EXCEPT !.events = Append(@, <<"char", c>>)]
PutAll(p, s) == FoldLeft(Put, p, s)
Collect(p, c) == [p EXCEPT !.string = Append(@, c)]

\* What is known by name in the DTD, or the empty name.
Find(names, s) == IF s \in names THEN s ELSE <<>>

handle_attribute_name(p) ==
    LET a == Find(Attr, p.string) IN
    [p EXCEPT !.current_attribute = a, !.string = <<>>,
              !.value = IF a = <<>> THEN @
                        ELSE [x \in DOMAIN @ \cup {a} |-> IF x = a THEN <<>> ELSE @[x]]]

handle_attribute_value(p) ==
    [p EXCEPT !.current_attribute = <<>>, !.string = <<>>,
              !.value = IF p.current_attribute = <<>> THEN @
                        ELSE [@ EXCEPT ![p.current_attribute] = p.string]]

\* An entity that is not known is text, and so is what follows it.
handle_entity(p, term) ==
    IF p.string \in Entity THEN [p EXCEPT !.events = Append(@, <<"entity", p.string>>)]
    ELSE PutAll(p, <<"&">> \o p.string \o <<term>>)

\* All elements inside the one that ends are ended first; an end of one that is not
\* open is ignored, but ends all others except the outermost one.
end_element(p, tag) ==
    LET stack == p.element_stack
        open == {k \in DOMAIN stack : stack[k] = tag}
        n == IF open # {} THEN Min(open) ELSE Len(stack) - 1
    IN
    IF tag \in Empty \/ stack = <<>> THEN p
    ELSE [p EXCEPT !.element_stack = SubSeq(@, n + 1, Len(@)),
                   !.events = @ \o [k \in 1..n |-> <<"end", stack[k]>>]]

start_element(p) ==
    [p EXCEPT !.state = "after_open",
              !.events = Append(@, <<"start", p.current_tag, p.value>>),
              !.element_stack = IF p.current_tag \in Empty THEN @ ELSE <<p.current_tag>> \o @]

\* normal_text
Text(p, c) ==
    IF c = "&" THEN To([p EXCEPT !.string = <<>>], "ero")
    ELSE IF c = "<" THEN To([p EXCEPT !.string = <<>>], "tag")
    ELSE IF c = nl THEN To(p, "nl")
    ELSE Put(p, c)

AfterOpen(p, c) ==
    IF c = nl /\ p.current_tag \notin Empty THEN p ELSE Text(To(p, "text"), c)

\* "Newline - ignore if before tag end!"
NewLineText(p, c) ==
    IF c = "<" THEN To([p EXCEPT !.string = <<>>], "nl_tago")
    ELSE Text(To(Put(p, nl), "text"), c)

EntityName(p, c) == IF c \in Alnum THEN Collect(p, c) ELSE To(handle_entity(p, c), "text")

EntityOrReference(p, c) == IF c = "#" THEN To(p, "cro") ELSE EntityName(To(p, "entity"), c)

CharacterReference(p, c) == IF c \in Alnum THEN Collect(p, c) ELSE To(Put(p, p.string), "text")

TagName(p, c) ==
    IF c \in Alnum THEN Collect(p, c)
    ELSE IF c = "/" THEN To(p, "end")
    ELSE IF p.string \notin Tag THEN To(p, IF c = ">" THEN "text" ELSE "junk_tag")
    ELSE LET q == [p EXCEPT !.current_tag = p.string, !.value = <<>>, !.string = <<>>,
                            !.current_attribute = <<>>]
         IN  IF c = ">" THEN start_element(q) ELSE To(q, "tag_gap")

NewLineTag(p, c) == TagName(To(IF c # "/" THEN Put(p, nl) ELSE p, "tag"), c)

TagGap(p, c) ==
    IF c \in White THEN p
    ELSE IF c = ">" THEN start_element(p)
    ELSE To(Collect(p, c), "attr")

AttributeName(p, c) ==
    IF c \notin White \cup {">", "="} THEN Collect(p, c)
    ELSE IF c = ">" THEN start_element(handle_attribute_name(p))
    ELSE To(handle_attribute_name(p), IF c = "=" THEN "equals" ELSE "attr_gap")

AttributeGap(p, c) == IF c = "=" THEN To(p, "equals") ELSE TagGap(p, c)

Equals(p, c) ==
    IF c \in White THEN p
    ELSE IF c = ">" THEN start_element(p)
    ELSE IF c = "'" THEN To(p, "squoted")
    ELSE IF c = "\"" THEN To(p, "dquoted")
    ELSE To(Collect(p, c), "value")

AttributeValue(p, c) ==
    IF c = ">" THEN start_element(handle_attribute_value(p))
    ELSE IF c \in White THEN To(handle_attribute_value(p), "tag_gap")
    ELSE Collect(p, c)

Quoted(p, c, quote) ==
    IF c = quote THEN To(handle_attribute_value(p), "tag_gap") ELSE Collect(p, c)

\* An end tag without a name is for the innermost element; there must be one.
EndTag(p, c) ==
    IF c \in Alnum THEN Collect(p, c)
    ELSE IF p.string = <<>> /\ p.element_stack = <<>> THEN To(p, "undefined")
    ELSE LET name == IF p.string = <<>> THEN Head(p.element_stack) ELSE p.string
             q == IF name \in Tag THEN end_element([p EXCEPT !.current_tag = name], name) ELSE p
         IN  To([q EXCEPT !.string = <<>>, !.current_attribute = <<>>],
                IF c = ">" THEN "text" ELSE "junk_tag")

SGML_character(p, c) ==
    CASE p.state = "text" -> Text(p, c)
      [] p.state = "after_open" -> AfterOpen(p, c)
      [] p.state = "nl" -> NewLineText(p, c)
      [] p.state = "nl_tago" -> NewLineTag(p, c)
      [] p.state = "ero" -> EntityOrReference(p, c)
      [] p.state = "entity" -> EntityName(p, c)
      [] p.state = "cro" -> CharacterReference(p, c)
      [] p.state = "tag" -> TagName(p, c)
      [] p.state = "tag_gap" -> TagGap(p, c)
      [] p.state = "attr" -> AttributeName(p, c)
      [] p.state = "attr_gap" -> AttributeGap(p, c)
      [] p.state = "equals" -> Equals(p, c)
      [] p.state = "value" -> AttributeValue(p, c)
      [] p.state = "squoted" -> Quoted(p, c, "'")
      [] p.state = "dquoted" -> Quoted(p, c, "\"")
      [] p.state = "end" -> EndTag(p, c)
      [] p.state = "junk_tag" -> IF c = ">" THEN To(p, "text") ELSE p
      [] p.state = "undefined" -> p

SGML_string(p, s) == FoldLeft(SGML_character, p, s)

=============================================================================
