----------------------------- MODULE Converters -----------------------------
(***************************************************************************)
(* Streams that change what passes through them: the parser of a header    *)
(* section (Library/Implementation/HTMIME.c), the guess of a type from the *)
(* first characters (HTGuess.c), and the copies from a socket and the      *)
(* conversion of line ends (HTFormat.c).                                   *)
(*                                                                         *)
(* The input is a sequence of words: characters, or the parts of a field   *)
(* name that are compared in one go.                                       *)
(***************************************************************************)
EXTENDS Integers, Sequences, SequencesExt, FiniteSetsExt

CONSTANTS
    SAMPLE_SIZE   \* the characters that HTGuess looks at

LF == "lf"
CR == "cr"
Space == {" ", CR, LF}

-----------------------------------------------------------------------------
(* HTMIME.c                                                                *)

NewMIME(net_ascii) ==
    [net_ascii |-> net_ascii, state |-> "BEGINNING_OF_LINE", field |-> "none",
     fold_state |-> "BEGINNING_OF_LINE", value |-> <<>>, terminated |-> <<>>,
     encoding |-> <<>>, format |-> <<"text/plain">>, target |-> <<>>]

Goto(me, state) == [me EXCEPT !.state = state]

\* CONTENT_T and the comparison behind it.
FieldName(me, c) ==
    IF c = "ype:" THEN [me EXCEPT !.field = "CONTENT_TYPE", !.state = "SKIP_GET_VALUE"]
    ELSE IF c = "ransfer-encoding:"
    THEN [me EXCEPT !.field = "CONTENT_TRANSFER_ENCODING", !.state = "SKIP_GET_VALUE"]
    ELSE Goto(me, "JUNK_LINE")

LineStart(me, c) ==
    IF c = "c" THEN Goto(me, "CHECK")
    ELSE IF c = LF THEN Goto(me, "MIME_TRANSPARENT")
    ELSE Goto(me, "JUNK_LINE")

\* A blank behind a line end: the line goes on.
NewLine_(me, c) ==
    IF c # LF /\ c \in Space THEN Goto(me, me.fold_state) ELSE LineStart(me, c)

JunkLine(me, c) ==
    IF c = LF THEN [me EXCEPT !.state = "NEWLINE", !.fold_state = "NEWLINE"] ELSE me

\* The value so far is the field's, and goes on behind a blank.
ValueEnds(me) ==
    IF me.field = "CONTENT_TYPE" THEN [me EXCEPT !.format = me.value]
    ELSE [me EXCEPT !.encoding = me.value]

GetValue(me, c) ==
    IF c \in Space THEN JunkLine(ValueEnds(me), c) ELSE [me EXCEPT !.value = Append(@, c)]

\* Mutant: a fold in front of the value ends the field.
SkipGetValue_NoFold(me, c) ==
    IF c = LF THEN [me EXCEPT !.state = "NEWLINE", !.fold_state = "NEWLINE"]
    ELSE IF c \in Space THEN me
    ELSE GetValue([me EXCEPT !.state = "GET_VALUE", !.value = <<>>], c)

SkipGetValue(me, c) ==
    IF c = LF THEN [me EXCEPT !.state = "NEWLINE", !.fold_state = "SKIP_GET_VALUE"]
    ELSE IF c \in Space THEN me
    ELSE GetValue([me EXCEPT !.state = "GET_VALUE", !.value = <<>>], c)

HTMIME_put_character(me, c) ==
    IF me.state = "MIME_TRANSPARENT" THEN [me EXCEPT !.target = Append(@, c)]
    ELSE IF me.net_ascii /\ c = CR THEN me
    ELSE CASE me.state = "NEWLINE" -> NewLine_(me, c)
           [] me.state = "BEGINNING_OF_LINE" -> LineStart(me, c)
           [] me.state = "CHECK" -> Goto(me, IF c = "ontent-t" THEN "CONTENT_T" ELSE "JUNK_LINE")
           [] me.state = "CONTENT_T" -> FieldName(me, c)
           [] me.state = "SKIP_GET_VALUE" -> SkipGetValue(me, c)
           [] me.state = "GET_VALUE" -> GetValue(me, c)
           [] me.state = "JUNK_LINE" -> JunkLine(me, c)

HTMIME_write(me, s) == FoldLeft(HTMIME_put_character, me, s)

-----------------------------------------------------------------------------
(* HTGuess.c                                                               *)

NewGuess == [buffer |-> <<>>, decided |-> FALSE, discard |-> FALSE, type |-> <<>>,
             encoding |-> <<>>, output |-> <<>>]

Controls == {"ctrl"}
Highs == {"high"}
CountOf(s, set) == Cardinality({i \in DOMAIN s : s[i] \in set})

\* The first "<" of the sample opens one of the elements that a document begins with.
is_html(buffer) ==
    LET tags == {i \in DOMAIN buffer : buffer[i] \in {"<html>", "<x>"}} IN
    tags # {} /\ buffer[Min(tags)] = "<html>"

BeginsIn(buffer, word) == buffer # <<>> /\ buffer[1] = word

\* Some kind of text: few control and other characters.
Textual(buffer) ==
    LET ctrl == CountOf(buffer, Controls)
        high == CountOf(buffer, Highs)
    IN  \/ ctrl = 0
        \/ Len(buffer) - ctrl - high - CountOf(buffer, {CR}) >= 16 * (ctrl + high)

Guessed(buffer) ==
    IF Textual(buffer)
    THEN [type |-> IF is_html(buffer) THEN <<"text/html">>
                   ELSE IF BeginsIn(buffer, "%!") THEN <<"application/postscript">>
                   ELSE <<"text/plain">>,
          encoding |-> IF CountOf(buffer, Highs) > 0 THEN <<"8bit">> ELSE <<"7bit">>]
    ELSE IF BeginsIn(buffer, "GIF") THEN [type |-> <<"image/gif">>, encoding |-> <<"binary">>]
    ELSE IF BeginsIn(buffer, "compress")
    THEN [type |-> <<"www/unknown">>, encoding |-> <<"x-compress">>]
    ELSE [type |-> <<"application/octet-stream">>, encoding |-> <<"binary">>]

\* Presentable: the types for which there is a stream; what has been held back goes
\* into it.
header_and_flush(me, presentable) ==
    LET guess == Guessed(me.buffer)
        found == guess.type \in presentable
    IN
    [me EXCEPT !.decided = TRUE, !.type = guess.type, !.encoding = guess.encoding,
               !.discard = ~found, !.buffer = <<>>,
               !.output = IF found THEN me.buffer ELSE <<>>]

HTGuess_put_character(me, c, presentable) ==
    IF me.discard THEN me
    ELSE IF me.decided THEN [me EXCEPT !.output = Append(@, c)]
    ELSE IF Len(me.buffer) + 1 >= SAMPLE_SIZE
    THEN header_and_flush([me EXCEPT !.buffer = Append(@, c)], presentable)
    ELSE [me EXCEPT !.buffer = Append(@, c)]

\* Characters until the type is decided, the rest at once.
HTGuess_put_block(me, block, presentable) ==
    LET held == IF me.decided THEN 0 ELSE Min({SAMPLE_SIZE - Len(me.buffer), Len(block)})
        put[i \in 0..held] ==
            IF i = 0 THEN me ELSE HTGuess_put_character(put[i - 1], block[i], presentable)
    IN  IF put[held].discard THEN put[held]
        ELSE [put[held] EXCEPT !.output = @ \o SubSeq(block, held + 1, Len(block))]

HTGuess_free(me, presentable) ==
    IF me.decided THEN me ELSE header_and_flush(me, presentable)

-----------------------------------------------------------------------------
(* HTFormat.c                                                              *)

\* HTInputSocket_getCharacter: all but carriage returns.
WithoutReturns(input) == SelectSeq(input, LAMBDA c : c # CR)

HTCopyNoCR(input) == WithoutReturns(input)

\* Up to a line with nothing but a dot: state counts down from 3.
DotStep(st, c) ==
    IF st.state = 0 THEN st
    ELSE [state |-> IF c = LF \/ (st.state = 2 /\ c = ".") THEN st.state - 1 ELSE 3,
          sink |-> Append(st.sink, c)]

HTCopyDot(input) ==
    FoldLeft(DotStep, [state |-> 3, sink |-> <<>>], WithoutReturns(input))

\* Which of the copies a document is read with.
HTParseSocket(binary, source, CRLFdotCRLF, input) ==
    IF source /\ CRLFdotCRLF THEN HTCopyDot(input).sink
    ELSE IF binary THEN input
    ELSE IF CRLFdotCRLF THEN HTCopyDot(input).sink
    ELSE HTCopyNoCR(input)

\* NetToText: CR LF becomes a line end, other CR and LF stay.
NetToText_put_character(me, c) ==
    IF me.had_cr /\ c = LF THEN [had_cr |-> FALSE, sink |-> Append(me.sink, LF)]
    ELSE LET left == IF me.had_cr THEN Append(me.sink, CR) ELSE me.sink IN
         [had_cr |-> c = CR, sink |-> IF c = CR THEN left ELSE Append(left, c)]

NetToText(input) == FoldLeft(NetToText_put_character, [had_cr |-> FALSE, sink |-> <<>>], input).sink

=============================================================================
