---------------------------- MODULE OutputStreams -----------------------------
(***************************************************************************)
(* The streams that lead to the client, in two parts: those that give a    *)
(* reply its header section (Daemon/Implementation/HTRequest.c); and,      *)
(* further down, the writer of its socket (HTWriter.c).                    *)
(*                                                                         *)
(* HTMIMEWrapper and HTScriptWrapper write the header section at once if   *)
(* the length of the document is known, and otherwise put a ContentCounter *)
(* in front, which holds the document back to count it, up to a limit.     *)
(*                                                                         *)
(* Bytes are numbered in the order in which they are put.                  *)
(***************************************************************************)
EXTENDS Integers, Sequences

CONSTANTS
    DEFAULT_CNT_BUF_SIZE,  \* bytes of a buffer for characters
    MaxContentLenBuf,      \* sc.max_content_len_buf
    MaxDocument            \* the bound of a document's length

ASSUME CounterSizes ==
    DEFAULT_CNT_BUF_SIZE \in Nat \ {0} /\ MaxContentLenBuf \in Nat /\ MaxDocument \in Nat

VARIABLES
    wrapper,         \* what the wrapper returned: "counter", or "sink" itself
    out_length,      \* out.content_length
    counted,         \* me->content_count
    give_up,         \* me->give_up
    tmp_buf,         \* what me->tmp_buf holds; nothing if there is none
    tmp_max,         \* me->tmp_max
    items,           \* head to tail: what the full buffers hold
    sink,            \* what the next stream has been given
    document,        \* bytes that were put
    freed            \* "no", "free" or "abort"

counterVars == <<wrapper, out_length, counted, give_up, tmp_buf, tmp_max, items,
                 sink, document, freed>>

Numbered(n) == [i \in 1..n |-> <<"byte", document + i>>]

\* HTReplyHeadersWith: no Content-Length if out.content_length is 0.
HTReplyHeaders(length) == << <<"head", length>> >>

\* "<PLAINTEXT>"
PLAINTEXT == << <<"head", -1>> >>

\* The wrapper, for a client that expects a head or does not, and a document whose
\* length is known or not.
HTMIMEWrapper(http1, known, plain) ==
    /\ wrapper = IF http1 /\ known = 0 THEN "counter" ELSE "sink"
    /\ out_length = known
    /\ sink = IF ~http1 THEN (IF plain THEN PLAINTEXT ELSE <<>>)
              ELSE IF known > 0 THEN HTReplyHeaders(known) ELSE <<>>

CounterInit ==
    /\ \E http1, plain \in BOOLEAN, known \in 0..MaxDocument :
          HTMIMEWrapper(http1, known, plain)
    /\ counted = 0 /\ give_up = FALSE
    /\ tmp_buf = <<>> /\ tmp_max = 0 /\ items = <<>>
    /\ document = 0 /\ freed = "no"

\* buf_append_buf, of the list so far and the buffer for characters.
Full(list) == list \o tmp_buf

\* buf_flush: the head, with the length that is set, then all buffers.
buf_flush_All(length) == sink \o HTReplyHeaders(length) \o Full(items)

\* Mutant: the limit is not set off against what is sent of the length.
GivesUp_Length == sink \o HTReplyHeaders(counted) \o Full(items)

\* buf_alloc_new gives up: the length is not sent.
GivesUp == buf_flush_All(0)

\* What was counted, this byte or block included.
OverLimit == counted' >= MaxContentLenBuf

PutToSink(data) ==
    /\ wrapper = "sink" /\ freed = "no"
    /\ sink' = sink \o data
    /\ document' = document + Len(data)
    /\ UNCHANGED <<wrapper, out_length, counted, give_up, tmp_buf, tmp_max, items, freed>>

Counts(n) ==
    /\ wrapper = "counter" /\ freed = "no"
    /\ document + n <= MaxDocument
    /\ document' = document + n
    /\ counted' = counted + n
    /\ UNCHANGED <<wrapper, freed>>

\* A new buffer is needed for n bytes, and the limit is reached.
PutOverLimit(data) ==
    /\ give_up' = TRUE
    /\ out_length' = 0
    /\ sink' = GivesUp \o data
    /\ tmp_buf' = <<>> /\ tmp_max' = 0 /\ items' = <<>>

PutGivenUp(n) ==
    /\ Counts(n) /\ give_up
    /\ sink' = sink \o Numbered(n)
    /\ UNCHANGED <<out_length, give_up, tmp_buf, tmp_max, items>>

\* buf_put_char
buf_put_char ==
    LET full == Len(tmp_buf) >= tmp_max IN
    /\ Counts(1) /\ ~give_up
    /\ IF full /\ OverLimit THEN PutOverLimit(Numbered(1))
       ELSE /\ tmp_buf' = IF full THEN Numbered(1) ELSE tmp_buf \o Numbered(1)
            /\ tmp_max' = IF full THEN DEFAULT_CNT_BUF_SIZE ELSE tmp_max
            /\ items' = IF full THEN Full(items) ELSE items
            /\ UNCHANGED <<out_length, give_up, sink>>

\* buf_put_block, buf_put_string: in a buffer of its own.  (The test for room in the
\* buffer for characters is the wrong way round, and the streams in front of this
\* one put no block after a character.)
buf_put_block(n) ==
    /\ Counts(n) /\ ~give_up
    /\ tmp_buf = <<>>
    /\ IF OverLimit THEN PutOverLimit(Numbered(n))
       ELSE /\ items' = items \o Numbered(n)
            /\ UNCHANGED <<out_length, give_up, sink, tmp_buf, tmp_max>>

\* The length goes to the log, and to the client if all was held back.
buf_free ==
    /\ wrapper = "counter" /\ freed = "no"
    /\ out_length' = counted
    /\ sink' = IF give_up THEN sink ELSE buf_flush_All(counted)
    /\ freed' = "free"
    /\ tmp_buf' = <<>> /\ tmp_max' = 0 /\ items' = <<>>
    /\ UNCHANGED <<wrapper, counted, give_up, document>>

buf_abort ==
    /\ wrapper = "counter" /\ freed = "no"
    /\ freed' = "abort"
    /\ tmp_buf' = <<>> /\ tmp_max' = 0 /\ items' = <<>>
    /\ UNCHANGED <<wrapper, out_length, counted, give_up, document, sink>>

CounterNext ==
    \/ \E n \in 1..MaxDocument : document + n <= MaxDocument /\ PutToSink(Numbered(n))
    \/ \E n \in 1..MaxDocument : PutGivenUp(n)
    \/ buf_put_char
    \/ \E n \in 1..MaxDocument : buf_put_block(n)
    \/ buf_free
    \/ buf_abort

CounterSpec == CounterInit /\ [][CounterNext]_counterVars

-----------------------------------------------------------------------------
(* Properties                                                              *)

\* A document that is counted reaches the client once, in order, behind one head;
\* a length in the head is that of what follows, and a document that is given up
\* before the limit is reached is not sent at all.
LengthRight ==
    LET sent == IF sink = <<>> THEN <<>> ELSE Tail(sink)
        length == Head(sink)[2]
    IN
    wrapper = "counter" =>
        /\ sent = [i \in 1..Len(sent) |-> <<"byte", i>>]
        /\ sink = <<>> => ~give_up /\ freed # "free"
        /\ sink # <<>> => Head(sink)[1] = "head" /\ length \in {0, document}
        /\ freed = "free" => Len(sent) = document /\ out_length = document
        /\ freed = "free" /\ document < MaxContentLenBuf => length = document
        /\ freed = "abort" /\ sent # <<>> => document >= MaxContentLenBuf

-----------------------------------------------------------------------------
(* The last stream of every reply (Library/Implementation/HTWriter.c): it  *)
(* writes to the client's socket what the streams before it put.  The      *)
(* socket takes as much of a write as it can, may be interrupted, and      *)
(* fails when the client has hung up.                                      *)
(*                                                                         *)
(* Bytes are numbered in the order in which they are put.                  *)

CONSTANTS
    BUFFER_SIZE,    \* bytes that the buffer holds
    MaxPut          \* the bound of the bytes that are put

ASSUME WriterSizes == BUFFER_SIZE \in Nat \ {0} /\ MaxPut \in Nat

VARIABLES
    put,          \* number of bytes that were put
    stored,       \* buffer to write_pointer
    pointer,      \* read_pointer: bytes of the write in progress that are written
    writing,      \* the write loop that is under way: what it writes, or Idle
    pending,      \* what the call does after the flush
    network,      \* what the socket has taken
    failed,       \* a write has failed
    call          \* "none", the call in progress, or "closed"

writerStreamVars == <<put, stored, pointer, writing, pending, network, failed, call>>

Idle == <<>>

WriterStreamInit ==
    /\ put = 0 /\ stored = <<>> /\ network = <<>>
    /\ writing = Idle /\ pending = Idle /\ pointer = 0
    /\ failed = FALSE /\ call = "none"

\* The next n bytes.
Bytes(n) == [i \in 1..n |-> put + i]

\* A call that has to flush: the loop, and what comes after it.
Flush(what, data) ==
    /\ call' = what
    /\ writing' = stored /\ pointer' = 0
    /\ pending' = data
    /\ UNCHANGED <<stored, network, failed>>

Stores(data) ==
    /\ stored' = stored \o data
    /\ UNCHANGED <<pointer, writing, pending, network, failed, call>>

\* After a failed flush the buffer is still full, and it would be written past its
\* end: the model puts no more into a writer that has failed.
Ready == call = "none" /\ ~failed

\* HTWriter_put_character, HTWriter_put_string: of n characters.
HTWriter_put_string(n) ==
    /\ Ready /\ n <= BUFFER_SIZE /\ put + n <= MaxPut
    /\ put' = put + n
    /\ IF Len(stored) + n > BUFFER_SIZE
       THEN Flush("put_string", Bytes(n))
       ELSE Stores(Bytes(n))

\* A block is not copied to the buffer: it is written after it.
HTWriter_write(n) ==
    /\ Ready /\ put + n <= MaxPut
    /\ put' = put + n
    /\ Flush("write", Bytes(n))

\* HTWriter_free, HTWriter_abort
HTWriter_free ==
    /\ call = "none"
    /\ UNCHANGED put
    /\ Flush("free", Idle)

\* Mutant: NETWRITE of me->buffer in place of read_pointer (OLD_CODE).
Unwritten_Old == SubSeq(writing, 1, Len(writing) - pointer)

\* read_pointer to write_pointer.
Unwritten == SubSeq(writing, pointer + 1, Len(writing))

Looping == call \notin {"none", "closed"} /\ pointer < Len(writing)

\* NETWRITE takes n bytes (0 if it is interrupted).
NETWRITE(n) ==
    /\ Looping
    /\ n <= Len(writing) - pointer
    /\ network' = network \o SubSeq(Unwritten, 1, n)
    /\ pointer' = pointer + n
    /\ UNCHANGED <<put, stored, writing, pending, failed, call>>

\* The buffer keeps what it had; a block is written nevertheless.
WriteFails ==
    /\ Looping
    /\ failed' = TRUE
    /\ writing' = IF call = "write" THEN pending ELSE Idle
    /\ pointer' = 0 /\ pending' = Idle
    /\ stored' = IF call = "put_string" THEN stored \o pending ELSE stored
    /\ call' = IF call = "free" THEN "closed"
               ELSE IF call = "write" /\ pending # Idle THEN "block" ELSE "none"
    /\ UNCHANGED <<put, network>>

\* The loop is through.
FlushDone ==
    /\ call \in {"put_string", "write", "free"} /\ pointer = Len(writing)
    /\ stored' = IF call = "put_string" THEN pending ELSE <<>>
    /\ writing' = IF call = "write" THEN pending ELSE Idle
    /\ pointer' = 0 /\ pending' = Idle
    /\ call' = IF call = "free" THEN "closed" ELSE IF call = "write" THEN "block" ELSE "none"
    /\ UNCHANGED <<put, network, failed>>

\* So is the one of a block.
BlockDone ==
    /\ call = "block" /\ pointer = Len(writing)
    /\ call' = "none" /\ writing' = Idle /\ pointer' = 0
    /\ UNCHANGED <<put, stored, pending, network, failed>>

WriterStreamNext ==
    \/ \E n \in 1..BUFFER_SIZE : HTWriter_put_string(n)
    \/ \E n \in 0..MaxPut : HTWriter_write(n)
    \/ HTWriter_free
    \/ \E n \in 0..MaxPut : NETWRITE(n)
    \/ WriteFails
    \/ FlushDone
    \/ BlockDone

WriterStreamSpec == WriterStreamInit /\ [][WriterStreamNext]_writerStreamVars

-----------------------------------------------------------------------------
(* Properties                                                              *)

\* However the socket cuts the writes, the client gets every byte once and in the
\* order in which it was put, until a write fails; and all of them when the stream
\* is freed.
WrittenInOrder ==
    /\ ~failed => \A i \in DOMAIN network : network[i] = i
    /\ call = "closed" /\ ~failed => Len(network) = put

=============================================================================
