----------------------------- MODULE CacheWriter -----------------------------
(***************************************************************************)
(* The stream HTProxyCache puts in front of the client while a document is *)
(* being cached (Daemon/Implementation/HTCache.c).  It splits the reply of *)
(* the remote server between the client and the lock file cf: the head is  *)
(* collected line by line and held back until its end shows what to do;    *)
(* the body is copied to both.                                             *)
(*                                                                         *)
(* A reply is a sequence of pieces: a line of the head, a unit of the      *)
(* body.  The line buffer holds BUF_SIZE characters; a longer line of the  *)
(* head fills it before its LF comes, and is then two pieces, a head that  *)
(* does not end the line and a "tail" that does.  The tail is in state     *)
(* CW_SKIP, which passes it on and does not hold it back.                  *)
(***************************************************************************)
EXTENDS Naturals, Sequences, SequencesExt, FiniteSetsExt

CONSTANTS
    Replies,        \* the replies of the remote server, sequences of pieces
    Announced,      \* values a Content-Length may give, in units of the body
    OldCopy         \* the copy a conditional request is about

VARIABLES
    reply,          \* what the remote server sends
    announced,      \* the value of its Content-Length, if it has one
    http1,          \* HTClientProtocol: the client expects a head
    if_mod_since,   \* the request was conditional
    read,           \* number of pieces that have arrived
    output_stream,  \* the client has not hung up
    state,          \* me->state
    status,         \* me->status
    buf,            \* me->buf, the line being collected
    header_buf,     \* me->header_buf, the lines held back
    client,         \* what was written to the client
    cf,             \* what was written to the lock file
    content_length, \* out.content_length
    content_count,  \* me->content_count
    outcome         \* "open", or what cache_free has made of the lock file

given == <<reply, announced, http1, if_mod_since>>
held == <<buf, header_buf>>
sinks == <<client, cf>>
counts == <<content_length, content_count>>
vars == <<given, read, output_stream, state, status, held, sinks, counts, outcome>>

Kind == {"200", "304", "404", "HTTP0", "expires", "expired", "length",
         "field", "blank", "body", "tail", "placeholder"}
Piece == [kind : Kind, ends : BOOLEAN]
Line(kind) == [kind |-> kind, ends |-> TRUE]

\* "Expires: Will-be-filled-out-by-cache-proxy"
Placeholder == Line("placeholder")

ASSUME WriterAssumption ==
    /\ Replies \subseteq Seq(Piece)
    /\ Announced \subseteq Nat
    /\ OldCopy \in Seq(Piece)

\* The values of the variables.
TypeOK ==
    /\ reply \in Replies
    /\ announced \in Announced
    /\ http1 \in BOOLEAN /\ if_mod_since \in BOOLEAN
    /\ read \in 0..Len(reply)
    /\ output_stream \in BOOLEAN
    /\ state \in {"STATUS_LINE", "HEADERS", "SKIP", "COPY_BODY", "UPDATED", "JUNK"}
    /\ status \in {0, 200, 304, 404, -1}
    /\ buf \in Seq(Piece) /\ header_buf \in Seq(Piece)
    /\ client \in Seq(Piece) /\ cf \in Seq(Piece)
    /\ content_length \in Nat /\ content_count \in Nat
    /\ outcome \in {"open", "created", "not_modified", "cancel"}

\* HTProxyCache()
Init ==
    /\ reply \in Replies
    /\ announced \in Announced
    /\ http1 \in BOOLEAN /\ if_mod_since \in BOOLEAN
    /\ read = 0
    /\ output_stream = TRUE
    /\ state = "STATUS_LINE"
    /\ status = 0
    /\ buf = <<>> /\ header_buf = <<>>
    /\ client = <<>> /\ cf = <<>>
    /\ content_length = 0 /\ content_count = 0
    /\ outcome = "open"

\* The next piece arrives.
Arriving == reply[read + 1]
Arrives == outcome = "open" /\ read < Len(reply) /\ read' = read + 1

\* PUT_BLOCK, PUT_STRING, PUT_CHAR, unless the client has hung up.
Put(pieces) == client' = IF output_stream THEN client \o pieces ELSE client

-----------------------------------------------------------------------------
(* cache_put_char and cache_write, by state                                *)

get_status(kind) ==
    IF kind = "200" THEN 200 ELSE IF kind = "304" THEN 304
    ELSE IF kind = "404" THEN 404 ELSE -1

\* A status line that is complete, or fills the buffer.  A reply that will not
\* be cached is dumped as it comes in; CW_SKIP overrides CW_JUNK.
PutStatusLine ==
    LET line == Append(buf, Arriving)
        junk == status' # 200 /\ (status' # 304 \/ ~if_mod_since)
    IN
    /\ state = "STATUS_LINE" /\ Arrives
    /\ status' = get_status(line[1].kind)
    /\ IF junk THEN Put(line) ELSE UNCHANGED client
    /\ state' = IF ~Arriving.ends THEN "SKIP" ELSE IF junk THEN "JUNK" ELSE "HEADERS"
    /\ header_buf' = header_buf \o line
    /\ buf' = <<>>
    /\ UNCHANGED <<given, output_stream, cf, counts, outcome>>

\* Mutant: the list, which is built backwards, is not turned round.
buf_flush_Backwards(line) ==
    /\ Put(Reverse(header_buf \o line))
    /\ cf' = IF state' # "JUNK" /\ output_stream THEN cf \o header_buf \o line ELSE cf
    /\ header_buf' = <<>>
    /\ buf' = <<>>

\* buf_append_and_clear() and buf_flush(): what was held back goes to the
\* client, and to the cache if the new state is not CW_JUNK.  Without a client
\* buf_flush() only discards.
buf_flush(line) ==
    /\ Put(header_buf \o line)
    /\ cf' = IF state' # "JUNK" /\ output_stream THEN cf \o header_buf \o line ELSE cf
    /\ header_buf' = <<>>
    /\ buf' = <<>>

buf_discard ==
    /\ header_buf' = <<>>
    /\ UNCHANGED sinks

\* The line that is collected in CW_HEADERS.  The end of the headers of a reply
\* that is neither 200 nor 304 leaves the buffer as it is.
HeaderLine == Append(buf, Arriving)

\* figure_out_expires() says whether the reply is worth caching; it always is
\* if an Expires was given.
EndOfHeaders200 ==
    /\ state = "HEADERS" /\ Arrives
    /\ HeaderLine[1].kind = "blank" /\ status = 200
    /\ \/ state' = "COPY_BODY"
       \/ state' = "JUNK" /\ Placeholder \notin ToSet(header_buf)
    /\ IF http1 THEN buf_flush(HeaderLine) ELSE buf_discard /\ buf' = <<>>
    /\ UNCHANGED <<given, output_stream, status, counts, outcome>>

EndOfHeaders304 ==
    /\ state = "HEADERS" /\ Arrives
    /\ HeaderLine[1].kind = "blank" /\ status = 304
    /\ state' = "UPDATED"
    /\ buf_discard
    /\ buf' = HeaderLine
    /\ UNCHANGED <<given, output_stream, status, counts, outcome>>

EndOfHeadersOther ==
    /\ state = "HEADERS" /\ Arrives
    /\ HeaderLine[1].kind = "blank" /\ status \notin {200, 304}
    /\ buf' = HeaderLine
    /\ UNCHANGED <<given, output_stream, state, status, header_buf, sinks, counts, outcome>>

\* Expires: in the past.
ExpiresImmediately ==
    /\ state = "HEADERS" /\ Arrives
    /\ HeaderLine[1].kind = "expired"
    /\ state' = "JUNK"
    /\ buf_flush(HeaderLine)
    /\ UNCHANGED <<given, output_stream, status, counts, outcome>>

\* Any other header line is held back; an Expires is replaced.
PutHeader ==
    LET line == HeaderLine
        kind == line[1].kind
    IN
    /\ state = "HEADERS" /\ Arrives
    /\ kind \notin {"blank", "expired"}
    /\ content_length' = IF kind = "length" THEN announced ELSE content_length
    /\ header_buf' = header_buf \o (IF kind = "expires" THEN <<Placeholder>> ELSE line)
    /\ buf' = <<>>
    /\ state' = IF Arriving.ends THEN "HEADERS" ELSE "SKIP"
    /\ UNCHANGED <<given, output_stream, status, sinks, content_count, outcome>>

\* The rest of a long line is not held back with its beginning.
PutSkip ==
    /\ state = "SKIP" /\ Arrives
    /\ cf' = Append(cf, Arriving)
    /\ Put(<<Arriving>>)
    /\ state' = IF Arriving.ends THEN "HEADERS" ELSE "SKIP"
    /\ UNCHANGED <<given, output_stream, status, held, counts, outcome>>

PutBody ==
    /\ state = "COPY_BODY" /\ Arrives
    /\ cf' = Append(cf, Arriving)
    /\ Put(<<Arriving>>)
    /\ content_count' = content_count + 1
    /\ UNCHANGED <<given, output_stream, state, status, held, content_length, outcome>>

PutJunk ==
    /\ state = "JUNK" /\ Arrives
    /\ Put(<<Arriving>>)
    /\ content_count' = content_count + 1
    /\ UNCHANGED <<given, output_stream, state, status, held, cf, content_length, outcome>>

\* The rest of a 304 is ignored.
PutUpdated ==
    /\ state = "UPDATED" /\ Arrives
    /\ UNCHANGED <<given, output_stream, state, status, held, sinks, counts, outcome>>

\* A write to the client raised SIGPIPE; the next call finds sigpipe_caught.
HangUp ==
    /\ outcome = "open" /\ output_stream
    /\ output_stream' = FALSE
    /\ UNCHANGED <<given, read, state, status, held, sinks, counts, outcome>>

-----------------------------------------------------------------------------
(* cache_free, cache_abort, and reading a copy                             *)

EndOfHead(pieces) ==
    LET blank == {i \in 2..Len(pieces) : pieces[i].kind = "blank"} IN
    IF blank = {} THEN Len(pieces) ELSE Min(blank)

Body(pieces) == SubSeq(pieces, EndOfHead(pieces) + 1, Len(pieces))

\* What a client gets of a copy: the placeholder is filled out with the date of
\* the cache info; an HTTP0 client gets what follows the first empty line.
HTLoadCacheToStream(copy, toHttp1) ==
    IF toHttp1
    THEN [i \in 1..Len(copy) |-> IF copy[i] = Placeholder THEN Line("expires") ELSE copy[i]]
    ELSE Body(copy)

\* Mutant: a missing byte does not count as a mismatch.
LengthMismatch_Less == content_length > 0 /\ content_count > content_length

LengthMismatch == content_length > 0 /\ content_count # content_length

cache_free ==
    /\ outcome = "open"
    /\ outcome' = IF state = "COPY_BODY" /\ ~LengthMismatch THEN "created"
                  ELSE IF state = "UPDATED" THEN "not_modified" ELSE "cancel"
    /\ IF state = "UPDATED"
       THEN Put(HTLoadCacheToStream(OldCopy, http1))
       ELSE UNCHANGED client
    /\ UNCHANGED <<given, read, output_stream, state, status, held, cf, counts>>

\* The protocol module gives up.
cache_abort ==
    /\ outcome = "open"
    /\ state' = "JUNK"
    /\ output_stream' = FALSE
    /\ outcome' = "cancel"
    /\ UNCHANGED <<given, read, status, held, sinks, counts>>

Next ==
    \/ PutStatusLine
    \/ EndOfHeaders200 \/ EndOfHeaders304 \/ EndOfHeadersOther
    \/ ExpiresImmediately \/ PutHeader \/ PutSkip
    \/ PutBody \/ PutJunk \/ PutUpdated
    \/ HangUp
    \/ cache_free
    \/ cache_abort

Spec == Init /\ [][Next]_vars

-----------------------------------------------------------------------------
(* Properties                                                              *)

Received == SubSeq(reply, 1, read)

\* No line of the head was longer than the buffer.
ShortLines == \A i \in 1..read : reply[i].ends

\* out is the beginning of a reply, but for an Expires that was replaced.
Begins(out, pieces) ==
    /\ Len(out) <= Len(pieces)
    /\ \A i \in 1..Len(out) :
          out[i] = pieces[i] \/ (pieces[i].kind = "expires" /\ out[i] = Placeholder)

Repeats(out, pieces) == Len(out) = Len(pieces) /\ Begins(out, pieces)

\* A client that stays gets all of a reply that has arrived, in order and once,
\* when the head is complete; an HTTP0 client gets no head of a document
\* unless that has expired.
ReplyRelayed ==
    ShortLines /\ output_stream /\ outcome # "not_modified" =>
        \/ state \in {"STATUS_LINE", "HEADERS", "UPDATED"} /\ client = <<>>
        \/ state \in {"COPY_BODY", "JUNK"} /\ Repeats(client, Received)
        \/ state \in {"COPY_BODY", "JUNK"} /\ ~http1 /\ status = 200
              /\ client = Body(Received)

\* A client that hangs up has got a beginning of what it would have got; the
\* rest of the transfer does not reach it out of order.
ClientInOrder ==
    ShortLines /\ outcome # "not_modified" =>
        Begins(client, Received) \/ Begins(client, Body(Received))

\* What becomes a cached copy is a 200 with its whole body, as long as its
\* Content-Length says, and not one that has expired.
CopyComplete ==
    outcome = "created" /\ ShortLines =>
        /\ status = 200
        /\ Line("expired") \notin ToSet(SubSeq(reply, 1, EndOfHead(Received)))
        /\ Repeats(cf, Received) \/ cf = Body(Received)
        /\ content_length > 0 => Len(Body(Received)) = content_length

\* A conditional client's 304 is answered from the old copy and with nothing
\* of the remote server's head.
OldCopyServed ==
    ShortLines /\ outcome = "not_modified" =>
        IF output_stream THEN client = HTLoadCacheToStream(OldCopy, http1) ELSE client = <<>>

\* The three: what reaches the client of a document that is also written into
\* the cache.
ClientGetsReply == ReplyRelayed /\ ClientInOrder /\ OldCopyServed

\* buf_dump: "With HTTP0 replies we have to dump the (possibly binary) data to
\* the remote client as it came in."
Http0Dumped ==
    status = -1 /\ output_stream /\ outcome = "open" => client = Received

=============================================================================
