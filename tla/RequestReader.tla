---------------------------- MODULE RequestReader ----------------------------
(***************************************************************************)
(* The input socket (Library/Implementation/HTFormat.c, get_some_line and  *)
(* HTInputSocket_getBlock) as HTParseRequest uses it (Daemon/              *)
(* Implementation/HTRequest.c): the request line, the unfolded lines of    *)
(* the header section up to the empty one, and what is left is the body.   *)
(*                                                                         *)
(* The network delivers the text in blocks that are cut anywhere.          *)
(***************************************************************************)
EXTENDS Naturals, Sequences, SequencesExt

CONSTANTS
    MaxReceived,  \* the bound of the text that is sent
    MaxBlock      \* the most that one read returns

VARIABLES
    received,      \* what all reads have returned
    cut,           \* a read has ended between CR and LF
    closed,        \* a read has returned 0: the client has closed
    rest,          \* of the buffer: from cur to input_limit
    piece,         \* of the buffer: from start (and input_pointer) to cur
    line,          \* what earlier buffers hold of the line, or NoLine
    prev_cr,       \* the last character was CR
    check_unfold,  \* a line is complete unless a blank follows
    parsing,       \* what HTParseRequest is reading
    lines,         \* the lines it was given
    body           \* the blocks that HTInputSocket_getBlock has returned

buffer == <<rest, piece, line, prev_cr, check_unfold>>
readerVars == <<received, cut, closed, buffer, parsing, lines, body>>

\* A word, a blank, CR, LF and the character 0.
Char == {"w", " ", "CR", "LF", "0"}
NoLine == <<"no line">>

ReaderInit ==
    /\ received = <<>> /\ cut = FALSE /\ closed = FALSE
    /\ rest = <<>> /\ piece = <<>> /\ line = NoLine
    /\ prev_cr = FALSE /\ check_unfold = FALSE
    /\ parsing = "request line" /\ lines = <<>> /\ body = <<>>

\* ascii_cat(): to a line that may not have been begun.
ascii_cat(text) == (IF line = NoLine THEN <<>> ELSE line) \o text

\* HTParseRequest gets a line: of the first the third word tells whether a header
\* section follows, which an empty line ends.
Takes(l) ==
    /\ lines' = Append(lines, l)
    /\ line' = NoLine /\ prev_cr' = FALSE /\ check_unfold' = FALSE
    /\ IF parsing = "request line"
       THEN parsing' \in {"body"} \cup (IF "w" \in ToSet(l) THEN {"headers"} ELSE {})
       ELSE parsing' = IF l = <<>> THEN "body" ELSE "headers"

Reading == parsing \in {"request line", "headers"}

Reads(block) ==
    /\ ~closed /\ UNCHANGED closed
    /\ Len(received) + Len(block) <= MaxReceived
    /\ received' = received \o block
    /\ cut' = (cut \/ (received # <<>> /\ Last(received) = "CR" /\ Head(block) = "LF"))

\* The buffer is used up before the line is complete.
fill_in_buffer(block) ==
    /\ Reading /\ rest = <<>>
    /\ Reads(block)
    /\ line' = ascii_cat(piece)
    /\ rest' = block /\ piece' = <<>>
    /\ UNCHANGED <<prev_cr, check_unfold, parsing, lines, body>>

\* The client has closed: what there is of the line is returned, if only "".
EndOfInput ==
    /\ Reading /\ rest = <<>>
    /\ Takes(ascii_cat(piece))
    /\ piece' = <<>>
    /\ closed' = TRUE
    /\ UNCHANGED <<received, cut, rest, body>>

\* Panic: there is no line, and HTParseRequest takes the section for complete.
ReadZero ==
    /\ Reading /\ rest # <<>> /\ Head(rest) = "0"
    /\ parsing' = "body"
    /\ rest' = piece \o rest /\ piece' = <<>>
    /\ line' = NoLine /\ prev_cr' = FALSE /\ check_unfold' = FALSE
    /\ UNCHANGED <<received, cut, closed, lines, body>>

\* No blank follows the line.
Unfolded ==
    /\ Reading /\ rest # <<>> /\ Head(rest) \notin {"0", " "}
    /\ check_unfold
    /\ Takes(line)
    /\ UNCHANGED <<received, cut, closed, rest, piece, body>>

OrdinaryCharacter ==
    /\ Reading /\ rest # <<>> /\ Head(rest) \notin {"0", "LF"}
    /\ check_unfold => Head(rest) = " "
    /\ check_unfold' = FALSE
    /\ prev_cr' = (Head(rest) = "CR")
    /\ piece' = Append(piece, Head(rest))
    /\ rest' = Tail(rest)
    /\ UNCHANGED <<received, cut, closed, line, parsing, lines, body>>

\* Mutant: the CR stays at the end of the line.
WithoutCR_Kept(text) == text

\* cur - prev_cr; a CR in an earlier buffer is out of its reach.
WithoutCR(text) == IF prev_cr /\ text # <<>> THEN Front(text) ELSE text

\* A header that is not empty may be continued on the next line.
LineFeed ==
    LET l == ascii_cat(WithoutCR(piece)) IN
    /\ Reading /\ rest # <<>> /\ Head(rest) = "LF" /\ ~check_unfold
    /\ rest' = Tail(rest) /\ piece' = <<>>
    /\ IF parsing = "headers" /\ l # <<>>
       THEN /\ line' = l /\ prev_cr' = FALSE /\ check_unfold' = TRUE
            /\ UNCHANGED <<parsing, lines>>
       ELSE Takes(l)
    /\ UNCHANGED <<received, cut, closed, body>>

\* The body: the rest of the buffer, and then what the network returns.
HTInputSocket_getBlock ==
    /\ parsing = "body" /\ rest # <<>>
    /\ body' = body \o rest
    /\ rest' = <<>>
    /\ UNCHANGED <<received, cut, closed, piece, line, prev_cr, check_unfold, parsing, lines>>

ReadBlock(block) ==
    /\ parsing = "body" /\ rest = <<>>
    /\ Reads(block)
    /\ body' = body \o block
    /\ UNCHANGED <<buffer, parsing, lines>>

Blocks == BoundedSeq(Char, MaxBlock) \ {<<>>}

ReaderNext ==
    \/ \E block \in Blocks : fill_in_buffer(block)
    \/ EndOfInput
    \/ ReadZero
    \/ Unfolded
    \/ OrdinaryCharacter
    \/ LineFeed
    \/ HTInputSocket_getBlock
    \/ \E block \in Blocks : ReadBlock(block)

ReaderSpec == ReaderInit /\ [][ReaderNext]_readerVars

-----------------------------------------------------------------------------
(* Properties                                                              *)

Bare(l) == IF l # <<>> /\ Last(l) = "CR" THEN Front(l) ELSE l

\* A line that begins with a blank continues the one before it, but not the first.
Continues(all, l) == Len(all) > 1 /\ l # <<>> /\ Head(l) = " "
WithLine(all, l) ==
    IF Continues(all, l) THEN Append(Front(all), Last(all) \o l) ELSE Append(all, l)

\* Of a text up to each character: its complete lines, without their CR LF or LF
\* and the continued ones in one; and what follows them.
Nothing == [all |-> <<>>, open |-> <<>>]
Then(parsed, c) ==
    IF c = "LF" THEN [all |-> WithLine(parsed.all, Bare(parsed.open)), open |-> <<>>]
    ELSE [all |-> parsed.all, open |-> Append(parsed.open, c)]
Parsed(text) ==
    LET upTo[k \in 0 .. Len(text)] ==
          IF k = 0 THEN Nothing ELSE Then(upTo[k - 1], text[k])
    IN upTo

\* The head of a request is its first line, or has an empty line that ends its
\* header section.
Complete(all, withFields) ==
    IF withFields THEN Len(all) > 1 /\ Last(all) = <<>> ELSE all # <<>>

\* A client that closes ends the line it was sending, and the head.
Sent == IF closed THEN received \o <<"LF", "LF">> ELSE received

\* The request is given to the server as it was sent, wherever the network has cut
\* it, unless between CR and LF: the lines of the head, then the body; and the
\* server never waits for more when the head is complete.
HeadAsSent ==
    LET withFields == Len(lines) > 1 \/ parsing = "headers"
        upTo == Parsed(Sent)
        Ends(k) == /\ Complete(upTo[k].all, withFields)
                   /\ \A j \in 0 .. k - 1 : ~Complete(upTo[j].all, withFields)
    IN
    ~cut /\ "0" \notin ToSet(received) /\ ~(closed /\ "CR" \in ToSet(received)) =>
        /\ parsing = "body" =>
              \E k \in DOMAIN Sent :
                 /\ Ends(k) /\ lines = upTo[k].all
                 /\ ~closed => body \o rest = SubSeq(received, k + 1, Len(received))
        /\ Reading /\ rest = <<>> /\ ~closed =>
              \A k \in 0 .. Len(received) : ~Complete(upTo[k].all, withFields)

=============================================================================
