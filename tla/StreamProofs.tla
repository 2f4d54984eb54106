----------------------------- MODULE StreamProofs -----------------------------
(******************************************************************************)
(* Proofs about the streams, for any sizes of their buffers: the writer of    *)
(* the socket puts the bytes of a document on the network in order and once   *)
(* (WrittenInOrder of OutputStreams), the content counter sends a head that   *)
(* gives the document's length or none (LengthRight); for any replies of a    *)
(* remote server, the writer of the cache makes copies of what arrived        *)
(* (CopyComplete of CacheWriter) and relays it to the client                  *)
(* (ClientGetsReply); and the reader of a request hands out the head and the  *)
(* body as they were sent, in blocks of any size (HeadAsSent of               *)
(* RequestReader).                                                            *)
(******************************************************************************)
EXTENDS CacheWriter, OutputStreams, RequestReader, SequenceTheorems, WellFoundedInduction, TLAPS

-----------------------------------------------------------------------------
(* The writer of the socket                                                *)

\* s holds the bytes that follow the first n.
Follows(s, n) == s \in Seq(Int) /\ \A i \in DOMAIN s : s[i] = n + i

\* The values of the variables.
WriterStreamType ==
    /\ put \in Nat
    /\ stored \in Seq(Int) /\ writing \in Seq(Int) /\ pending \in Seq(Int)
    /\ network \in Seq(Int)
    /\ pointer \in 0 .. Len(writing)
    /\ failed \in BOOLEAN
    /\ call \in {"none", "put_string", "write", "free", "block", "closed"}

\* Of what was put, the socket has a beginning; the rest of a write that is under
\* way, what waits for its end and what is stored follow, in this order.
InOrder ==
    LET begun == Len(network) - pointer IN
    /\ Follows(network, 0)
    /\ call = "none" => /\ writing = Idle /\ pending = Idle
                        /\ Follows(stored, Len(network))
                        /\ put = Len(network) + Len(stored)
    /\ call \in {"put_string", "write", "free"} =>
          /\ stored = writing
          /\ Follows(writing, begun)
          /\ Follows(pending, begun + Len(writing))
          /\ put = begun + Len(writing) + Len(pending)
    /\ call = "free" => pending = Idle
    /\ call = "block" => /\ stored = Idle /\ pending = Idle
                         /\ Follows(writing, begun)
                         /\ put = begun + Len(writing)
    /\ call = "closed" => put = Len(network)

\* Inductive: while no write fails the bytes are where InOrder says.
WInv == WriterStreamType /\ (~failed => InOrder)

\* Two stretches of bytes, the second where the first ends.
LEMMA FollowsConcat ==
    ASSUME NEW n \in Int, NEW s, NEW t, Follows(s, n), Follows(t, n + Len(s))
    PROVE  Follows(s \o t, n) /\ Len(s \o t) = Len(s) + Len(t)
<1>1. s \in Seq(Int) /\ t \in Seq(Int) /\ Len(s) \in Nat /\ Len(t) \in Nat
  BY DEF Follows
<1>2. /\ s \o t \in Seq(Int) /\ Len(s \o t) = Len(s) + Len(t)
      /\ \A i \in 1 .. Len(s) + Len(t) :
            (s \o t)[i] = IF i <= Len(s) THEN s[i] ELSE t[i - Len(s)]
  BY <1>1, ConcatProperties
<1>3. ASSUME NEW i \in DOMAIN (s \o t) PROVE (s \o t)[i] = n + i
  <2>1. i \in 1 .. Len(s) + Len(t)
    BY <1>1, <1>2
  <2>2. CASE i <= Len(s)
    BY <1>1, <1>2, <2>1, <2>2 DEF Follows
  <2>3. CASE ~(i <= Len(s))
    <3>1. i - Len(s) \in DOMAIN t
      BY <1>1, <2>1, <2>3
    <3>2. t[i - Len(s)] = n + Len(s) + (i - Len(s))
      BY <3>1 DEF Follows
    <3> QED
      BY <1>1, <1>2, <2>1, <2>3, <3>2
  <2> QED
    BY <2>2, <2>3
<1> QED
  BY <1>2, <1>3 DEF Follows

\* A part of a stretch.
LEMMA FollowsPart ==
    ASSUME NEW n \in Int, NEW s, Follows(s, n), NEW a \in Nat, NEW b \in Nat, a <= b, b <= Len(s)
    PROVE  Follows(SubSeq(s, a + 1, b), n + a) /\ Len(SubSeq(s, a + 1, b)) = b - a
<1>1. s \in Seq(Int) /\ Len(s) \in Nat /\ DOMAIN s = 1 .. Len(s)
  BY DEF Follows
<1> DEFINE p == SubSeq(s, a + 1, b)
<1>2. \A i \in a + 1 .. b : s[i] \in Int
  BY <1>1
<1>3. p \in Seq(Int) /\ Len(p) = b - a /\ \A i \in 1 .. b - a : p[i] = s[a + i]
  BY <1>2, SubSeqProperties
<1> HIDE DEF p
<1>4. ASSUME NEW i \in DOMAIN p PROVE p[i] = n + a + i
  <2>1. DOMAIN p = 1 .. b - a
    BY <1>3
  <2>2. i \in 1 .. b - a /\ a + i \in DOMAIN s
    BY <1>1, <2>1
  <2> QED
    BY <1>3, <2>2 DEF Follows
<1> QED
  BY <1>3, <1>4 DEF Follows, p

\* What is put next follows what was put.
LEMMA BytesFollow ==
    ASSUME put \in Nat, NEW n \in Nat
    PROVE  Follows(Bytes(n), put) /\ Len(Bytes(n)) = n
BY DEF Follows, Bytes

\* An empty buffer.
LEMMA NothingFollows == ASSUME NEW n PROVE Follows(Idle, n) /\ Len(Idle) = 0
BY DEF Follows, Idle

\* The invariant holds of a new stream.
LEMMA WriterStreamInitInv == WriterStreamInit => WInv
<1> SUFFICES ASSUME WriterStreamInit PROVE WInv
  OBVIOUS
<1>1. Idle \in Seq(Int) /\ Len(Idle) = 0 /\ Follows(Idle, 0)
  BY NothingFollows DEF Follows
<1>2. stored = Idle /\ network = Idle /\ writing = Idle /\ pending = Idle
  BY DEF WriterStreamInit, Idle
<1>3. WriterStreamType
  <2>1. pointer \in 0 .. Len(writing)
    BY <1>1, <1>2 DEF WriterStreamInit
  <2> QED
    BY <1>1, <1>2, <2>1 DEF WriterStreamInit, WriterStreamType
<1>4. InOrder
  BY <1>1, <1>2 DEF WriterStreamInit, InOrder
<1> QED
  BY <1>3, <1>4 DEF WInv

\* Every step keeps the types.
LEMMA WriterStreamTypeStep ==
    ASSUME WriterStreamType, [WriterStreamNext]_writerStreamVars
    PROVE  WriterStreamType'
<1> USE DEF WriterStreamType
<1>1. ASSUME NEW n \in 1 .. BUFFER_SIZE, HTWriter_put_string(n) PROVE WriterStreamType'
  <2>1. Bytes(n) \in Seq(Int) /\ put + n \in Nat
    BY BytesFollow, WriterSizes DEF Follows
  <2>2. CASE Len(stored) + n > BUFFER_SIZE
    BY <1>1, <2>1, <2>2 DEF HTWriter_put_string, Flush
  <2>3. CASE ~(Len(stored) + n > BUFFER_SIZE)
    <3>1. stored \o Bytes(n) \in Seq(Int)
      BY <2>1, ConcatProperties
    <3> QED
      BY <1>1, <2>1, <2>3, <3>1 DEF HTWriter_put_string, Stores
  <2> QED
    BY <2>2, <2>3
<1>2. ASSUME NEW n \in 0 .. MaxPut, HTWriter_write(n) PROVE WriterStreamType'
  <2>1. Bytes(n) \in Seq(Int) /\ put + n \in Nat
    BY BytesFollow, WriterSizes DEF Follows
  <2> QED
    BY <1>2, <2>1 DEF HTWriter_write, Flush, Ready
<1>3. CASE HTWriter_free
  BY <1>3 DEF HTWriter_free, Flush, Idle
<1>4. ASSUME NEW n \in 0 .. MaxPut, NETWRITE(n) PROVE WriterStreamType'
  <2>1. /\ n \in Nat /\ pointer \in Nat /\ Len(writing) \in Nat
        /\ n <= Len(writing) - pointer /\ pointer + n \in 0 .. Len(writing)
    BY <1>4, WriterSizes DEF NETWRITE
  <2>2. Unwritten \in Seq(Int) /\ Len(Unwritten) = Len(writing) - pointer
    BY <2>1, SubSeqProperties DEF Unwritten
  <2>3. SubSeq(Unwritten, 1, n) \in Seq(Int)
    BY <2>1, <2>2, SubSeqProperties
  <2>4. network' \in Seq(Int)
    BY <1>4, <2>3, ConcatProperties DEF NETWRITE
  <2> QED
    BY <1>4, <2>1, <2>4 DEF NETWRITE
<1>5. CASE WriteFails
  BY <1>5, ConcatProperties DEF WriteFails, Idle
<1>6. CASE FlushDone
  BY <1>6 DEF FlushDone, Idle
<1>7. CASE BlockDone
  BY <1>7 DEF BlockDone, Idle
<1>8. CASE UNCHANGED writerStreamVars
  BY <1>8 DEF writerStreamVars
<1> QED
  BY <1>1, <1>2, <1>3, <1>4, <1>5, <1>6, <1>7, <1>8 DEF WriterStreamNext

\* Every step keeps the bytes in order, as long as no write has failed.
LEMMA InOrderStep ==
    ASSUME WInv, [WriterStreamNext]_writerStreamVars, ~failed'
    PROVE  InOrder'
<1> USE DEF WInv, WriterStreamType
<1>0. ~failed
  BY DEF WriterStreamNext, HTWriter_put_string, HTWriter_write, HTWriter_free, NETWRITE, WriteFails,
         FlushDone, BlockDone, Flush, Stores, writerStreamVars
<1>1. ASSUME NEW n \in 1 .. BUFFER_SIZE, HTWriter_put_string(n) PROVE InOrder'
  <2>1. /\ Follows(Bytes(n), put) /\ Len(Bytes(n)) = n
        /\ call = "none" /\ put' = put + n /\ n \in Nat
    BY <1>1, BytesFollow, WriterSizes DEF HTWriter_put_string, Ready
  <2>2. /\ Follows(network, 0) /\ Follows(stored, Len(network)) /\ put = Len(network) + Len(stored)
        /\ writing = Idle /\ pending = Idle
    BY <1>0, <2>1 DEF InOrder
  <2>3. /\ Len(network) \in Nat /\ Len(stored) \in Nat
        /\ Follows(Bytes(n), Len(network) + Len(stored))
        /\ put' = Len(network) + Len(stored) + Len(Bytes(n))
    BY <2>1, <2>2
  <2>4. CASE Len(stored) + n > BUFFER_SIZE
    <3>1. /\ call' = "put_string" /\ writing' = stored /\ pointer' = 0 /\ pending' = Bytes(n)
          /\ UNCHANGED <<stored, network>>
      BY <1>1, <2>4 DEF HTWriter_put_string, Flush
    <3>2. Len(network') - pointer' = Len(network)
      BY <2>3, <3>1
    <3> QED
      BY <2>2, <2>3, <3>1, <3>2 DEF InOrder
  <2>5. CASE ~(Len(stored) + n > BUFFER_SIZE)
    <3>1. /\ Follows(stored \o Bytes(n), Len(network))
          /\ Len(stored \o Bytes(n)) = Len(stored) + Len(Bytes(n))
      BY <2>2, <2>3, FollowsConcat
    <3>2. /\ stored' = stored \o Bytes(n)
          /\ UNCHANGED <<pointer, writing, pending, network, call>>
      BY <1>1, <2>5 DEF HTWriter_put_string, Stores
    <3>3. put' = Len(network) + Len(stored')
      BY <2>3, <3>1, <3>2
    <3> QED
      BY <2>1, <2>2, <3>1, <3>2, <3>3 DEF InOrder
  <2> QED
    BY <2>4, <2>5
<1>2. ASSUME NEW n \in 0 .. MaxPut, HTWriter_write(n) PROVE InOrder'
  <2>1. /\ Follows(Bytes(n), put) /\ Len(Bytes(n)) = n
        /\ call = "none" /\ put' = put + n /\ n \in Nat
    BY <1>2, BytesFollow, WriterSizes DEF HTWriter_write, Ready
  <2>2. /\ Follows(network, 0) /\ Follows(stored, Len(network)) /\ put = Len(network) + Len(stored)
    BY <1>0, <2>1 DEF InOrder
  <2> QED
    BY <1>2, <2>1, <2>2 DEF HTWriter_write, Flush, InOrder
<1>3. CASE HTWriter_free
  <2>1. /\ Follows(network, 0) /\ Follows(stored, Len(network)) /\ put = Len(network) + Len(stored)
    BY <1>0, <1>3 DEF InOrder, HTWriter_free
  <2>2. Follows(Idle, Len(network) + Len(stored)) /\ Len(Idle) = 0
    BY NothingFollows
  <2> QED
    BY <1>3, <2>1, <2>2 DEF HTWriter_free, Flush, InOrder
<1>4. ASSUME NEW n \in 0 .. MaxPut, NETWRITE(n) PROVE InOrder'
  <2> DEFINE begun == Len(network) - pointer
             part == SubSeq(Unwritten, 1, n)
  <2>1. /\ n \in Nat /\ pointer \in Nat /\ Len(writing) \in Nat /\ Len(network) \in Nat
        /\ n <= Len(writing) - pointer /\ begun \in Int
    BY <1>4, WriterSizes DEF NETWRITE
  <2>2. Follows(writing, begun) /\ Follows(network, 0)
    BY <1>0, <1>4 DEF InOrder, NETWRITE, Looping
  <2>3. Follows(Unwritten, begun + pointer) /\ Len(Unwritten) = Len(writing) - pointer
    BY <2>1, <2>2, FollowsPart DEF Unwritten
  <2>4. Follows(part, Len(network)) /\ Len(part) = n
    <3>1. begun + pointer = Len(network) /\ Len(network) + 0 = Len(network)
      BY <2>1
    <3> HIDE DEF begun
    <3>3. Follows(Unwritten, Len(network)) /\ n <= Len(Unwritten)
      BY <2>1, <2>3, <3>1
    <3> DEFINE u == Unwritten
               m == Len(network)
    <3>4. Follows(u, m) /\ m \in Int /\ 0 \in Nat /\ n \in Nat /\ 0 <= n /\ n <= Len(u)
      BY <2>1, <3>3
    <3> HIDE DEF u, m
    <3>5. Follows(SubSeq(u, 0 + 1, n), m + 0) /\ Len(SubSeq(u, 0 + 1, n)) = n - 0
      BY <3>4, FollowsPart
    <3>6. SubSeq(u, 0 + 1, n) = part
      BY DEF u
    <3> HIDE DEF part
    <3>7. m + 0 = Len(network) /\ n - 0 = n
      BY <2>1 DEF m
    <3> QED
      BY <3>5, <3>6, <3>7
  <2>5. Follows(network', 0) /\ Len(network') = Len(network) + n
    BY <1>4, <2>1, <2>2, <2>4, FollowsConcat DEF NETWRITE
  <2>6. pointer' = pointer + n /\ Len(network') - pointer' = begun
    BY <1>4, <2>1, <2>5 DEF NETWRITE
  <2>7. UNCHANGED <<put, stored, writing, pending, call>> /\ call \notin {"none", "closed"}
    BY <1>4 DEF NETWRITE, Looping
  <2> QED
    BY <1>0, <2>5, <2>6, <2>7 DEF InOrder
<1>5. CASE WriteFails
  BY <1>5 DEF WriteFails
<1>6. CASE FlushDone
  <2> DEFINE begun == Len(network) - pointer
  <2>1. pointer = Len(writing) /\ begun + Len(writing) = Len(network)
    BY <1>6 DEF FlushDone
  <2>2. /\ Follows(network, 0) /\ Follows(pending, Len(network)) /\ put = Len(network) + Len(pending)
    BY <1>0, <1>6, <2>1 DEF InOrder, FlushDone
  <2>3. Follows(Idle, Len(network)) /\ Len(Idle) = 0
    BY NothingFollows
  <2>4. network' = network /\ put' = put /\ pointer' = 0 /\ pending' = Idle /\ Len(network) - 0 = Len(network)
    BY <1>6 DEF FlushDone
  <2>5. CASE call = "put_string"
    BY <1>6, <2>2, <2>3, <2>4, <2>5 DEF FlushDone, InOrder
  <2>6. CASE call = "write"
    BY <1>6, <2>2, <2>3, <2>4, <2>6 DEF FlushDone, InOrder, Idle
  <2>7. CASE call = "free"
    BY <1>0, <1>6, <2>2, <2>3, <2>4, <2>7 DEF FlushDone, InOrder
  <2> QED
    BY <1>6, <2>5, <2>6, <2>7 DEF FlushDone
<1>7. CASE BlockDone
  <2>1. Follows(network, 0) /\ put = Len(network) /\ stored = Idle /\ pending = Idle
    BY <1>0, <1>7 DEF InOrder, BlockDone
  <2>2. Follows(Idle, Len(network)) /\ Len(Idle) = 0
    BY NothingFollows
  <2> QED
    BY <1>7, <2>1, <2>2 DEF BlockDone, InOrder
<1>8. CASE UNCHANGED writerStreamVars
  BY <1>0, <1>8 DEF writerStreamVars, InOrder
<1> QED
  BY <1>1, <1>2, <1>3, <1>4, <1>5, <1>6, <1>7, <1>8 DEF WriterStreamNext

\* The inductive invariant of the writer of the socket.
THEOREM WriterStreamInductive == WriterStreamSpec => []WInv
<1>1. WInv /\ [WriterStreamNext]_writerStreamVars => WInv'
  BY WriterStreamTypeStep, InOrderStep DEF WInv
<1> QED
  BY <1>1, WriterStreamInitInv, PTL DEF WriterStreamSpec

\* HTWriter: what is on the network is the beginning of what was put, in order, without
\* a gap or a repetition, however the writes are cut up; and all of it when the stream
\* is closed and no write has failed.
THEOREM BytesInOrder == WriterStreamSpec => []WrittenInOrder
<1>1. WInv => WrittenInOrder
  BY DEF WInv, WriterStreamType, InOrder, Follows, WrittenInOrder
<1> QED
  BY <1>1, WriterStreamInductive, PTL

-----------------------------------------------------------------------------
(* The counter of a document's length                                      *)

\* What the counter sends: a head with a length, or a byte of the document.
Entry == {"head", "byte"} \X Int

\* s holds the bytes of the document that follow the first n.
InRow(s, n) == s \in Seq(Entry) /\ \A i \in DOMAIN s : s[i] = <<"byte", n + i>>

\* s is a head with that length, and the first n bytes of the document.
Behind(s, length, n) ==
    /\ s \in Seq(Entry) /\ Len(s) = n + 1
    /\ s[1] = <<"head", length>>
    /\ \A i \in 2 .. n + 1 : s[i] = <<"byte", i - 1>>

\* The values of the variables.
CounterType ==
    /\ wrapper \in {"counter", "sink"}
    /\ out_length \in Nat /\ counted \in Nat /\ document \in Nat
    /\ give_up \in BOOLEAN
    /\ tmp_buf \in Seq(Entry) /\ items \in Seq(Entry) /\ sink \in Seq(Entry)
    /\ tmp_max \in Nat
    /\ freed \in {"no", "free", "abort"}

\* All that is not given up is held back, in order, until the stream is freed.
HeldBack ==
    wrapper = "counter" =>
        /\ counted = document
        /\ freed = "free" => out_length = document
        /\ ~give_up => /\ freed # "free" => sink = <<>>
                       /\ freed = "free" => Behind(sink, document, document)
                       /\ freed = "no" => /\ InRow(items, 0)
                                          /\ InRow(tmp_buf, Len(items))
                                          /\ Len(items) + Len(tmp_buf) = document
        /\ give_up => Behind(sink, 0, document) /\ document >= MaxContentLenBuf

\* Inductive: the types, and what is held back.
CInv == CounterType /\ HeldBack

\* Two stretches of a document, the second where the first ends.
LEMMA InRowConcat ==
    ASSUME NEW n \in Int, NEW s, NEW t, InRow(s, n), InRow(t, n + Len(s))
    PROVE  InRow(s \o t, n) /\ Len(s \o t) = Len(s) + Len(t)
<1>1. s \in Seq(Entry) /\ t \in Seq(Entry) /\ Len(s) \in Nat /\ Len(t) \in Nat
  BY DEF InRow
<1>2. /\ s \o t \in Seq(Entry) /\ Len(s \o t) = Len(s) + Len(t)
      /\ \A i \in 1 .. Len(s) + Len(t) :
            (s \o t)[i] = IF i <= Len(s) THEN s[i] ELSE t[i - Len(s)]
  BY <1>1, ConcatProperties
<1>3. ASSUME NEW i \in DOMAIN (s \o t) PROVE (s \o t)[i] = <<"byte", n + i>>
  <2>1. i \in 1 .. Len(s) + Len(t)
    BY <1>1, <1>2
  <2>2. CASE i <= Len(s)
    BY <1>1, <1>2, <2>1, <2>2 DEF InRow
  <2>3. CASE ~(i <= Len(s))
    <3>1. i - Len(s) \in DOMAIN t
      BY <1>1, <2>1, <2>3
    <3>2. t[i - Len(s)] = <<"byte", n + Len(s) + (i - Len(s))>>
      BY <3>1 DEF InRow
    <3>3. n + Len(s) + (i - Len(s)) = n + i
      BY <1>1, <2>1
    <3> QED
      BY <1>2, <2>1, <2>3, <3>2, <3>3
  <2> QED
    BY <2>2, <2>3
<1> QED
  BY <1>2, <1>3 DEF InRow

\* What is put next follows what was put.
LEMMA NumberedInRow ==
    ASSUME document \in Nat, NEW n \in Nat
    PROVE  InRow(Numbered(n), document) /\ Len(Numbered(n)) = n
BY DEF InRow, Numbered, Entry

\* More of the document behind its head.
LEMMA BehindMore ==
    ASSUME NEW s, NEW length, NEW n \in Nat, NEW t, Behind(s, length, n), InRow(t, n)
    PROVE  Behind(s \o t, length, n + Len(t))
<1>1. s \in Seq(Entry) /\ Len(s) = n + 1 /\ t \in Seq(Entry) /\ Len(t) \in Nat
  BY DEF Behind, InRow
<1>2. /\ s \o t \in Seq(Entry) /\ Len(s \o t) = n + 1 + Len(t)
      /\ \A i \in 1 .. n + 1 + Len(t) :
            (s \o t)[i] = IF i <= n + 1 THEN s[i] ELSE t[i - (n + 1)]
  <2>1. /\ s \o t \in Seq(Entry) /\ Len(s \o t) = Len(s) + Len(t)
        /\ \A i \in 1 .. Len(s) + Len(t) :
              (s \o t)[i] = IF i <= Len(s) THEN s[i] ELSE t[i - Len(s)]
    BY <1>1, ConcatProperties
  <2> QED
    BY <1>1, <2>1
<1>3. (s \o t)[1] = <<"head", length>>
  BY <1>1, <1>2 DEF Behind
<1>4. ASSUME NEW i \in 2 .. n + Len(t) + 1 PROVE (s \o t)[i] = <<"byte", i - 1>>
  <2>1. CASE i <= n + 1
    BY <1>1, <1>2, <2>1 DEF Behind
  <2>2. CASE ~(i <= n + 1)
    <3>1. i - (n + 1) \in DOMAIN t
      BY <1>1, <2>2
    <3>2. t[i - (n + 1)] = <<"byte", n + (i - (n + 1))>>
      BY <3>1 DEF InRow
    <3>3. n + (i - (n + 1)) = i - 1
      OBVIOUS
    <3> QED
      BY <1>1, <1>2, <2>2, <3>2, <3>3
  <2> QED
    BY <2>1, <2>2
<1>5. n + 1 + Len(t) = (n + Len(t)) + 1
  BY <1>1
<1> QED
  BY <1>2, <1>3, <1>4, <1>5 DEF Behind

\* The head and all that is held.
LEMMA Flushed ==
    ASSUME CInv, wrapper = "counter", freed = "no", ~give_up, NEW length \in Nat
    PROVE  Behind(buf_flush_All(length), length, document)
<1> DEFINE head == HTReplyHeaders(length)
<1>1. /\ sink = <<>> /\ InRow(items, 0) /\ InRow(tmp_buf, Len(items))
      /\ Len(items) \in Nat /\ Len(items) + Len(tmp_buf) = document
  BY DEF CInv, CounterType, HeldBack
<1>2. InRow(Full(items), 0) /\ Len(Full(items)) = document
  BY <1>1, InRowConcat DEF Full
<1>3. sink \o head = head
  BY <1>1, ConcatEmptySeq DEF HTReplyHeaders, Entry
<1>4. Behind(head, length, 0)
  BY DEF HTReplyHeaders, Behind, Entry
<1> HIDE DEF head
<1>5. Behind(head \o Full(items), length, 0 + Len(Full(items)))
  BY <1>2, <1>4, BehindMore
<1>6. 0 + Len(Full(items)) = document
  BY <1>2 DEF CInv, CounterType
<1> QED
  BY <1>3, <1>5, <1>6 DEF buf_flush_All, head

\* All is given up at the limit, and goes out with what was put.
LEMMA OverLimitHeld ==
    ASSUME CInv, CounterType', wrapper = "counter", freed = "no", ~give_up, NEW n \in Nat,
           Counts(n), OverLimit, PutOverLimit(Numbered(n))
    PROVE  HeldBack'
<1>1. counted' = document' /\ document' = document + n /\ document \in Nat
  BY DEF CInv, CounterType, HeldBack, Counts
<1>2. Behind(GivesUp, 0, document)
  BY Flushed DEF GivesUp
<1>3. InRow(Numbered(n), document) /\ Len(Numbered(n)) = n
  BY <1>1, NumberedInRow
<1>4. Behind(sink', 0, document')
  BY <1>1, <1>2, <1>3, BehindMore DEF PutOverLimit
<1>5. give_up' = TRUE /\ freed' = "no" /\ document' >= MaxContentLenBuf
  BY <1>1 DEF PutOverLimit, OverLimit, Counts
<1> QED
  BY <1>1, <1>4, <1>5 DEF HeldBack

\* The invariant holds of a new wrapper, whatever was known of the length.
LEMMA CounterInitInv == CounterInit => CInv
<1> SUFFICES ASSUME CounterInit PROVE CInv
  OBVIOUS
<1>1. PICK http1x \in BOOLEAN, plain \in BOOLEAN, known \in 0 .. MaxDocument :
         HTMIMEWrapper(http1x, known, plain)
  BY DEF CounterInit
<1>2. known \in Nat /\ out_length = known
  BY <1>1, CounterSizes DEF HTMIMEWrapper
<1>3. sink \in Seq(Entry) /\ wrapper \in {"counter", "sink"}
  BY <1>1, <1>2 DEF HTMIMEWrapper, PLAINTEXT, HTReplyHeaders, Entry
<1>4. wrapper = "counter" => sink = <<>>
  BY <1>1, <1>2 DEF HTMIMEWrapper
<1>5. /\ counted = 0 /\ give_up = FALSE /\ tmp_buf = <<>> /\ tmp_max = 0 /\ items = <<>>
      /\ document = 0 /\ freed = "no"
  BY DEF CounterInit
<1>6. <<>> \in Seq(Entry) /\ Len(<<>>) = 0 /\ InRow(<<>>, 0)
  BY DEF InRow
<1>7. CounterType
  BY <1>2, <1>3, <1>5, <1>6 DEF CounterType
<1>8. HeldBack
  BY <1>4, <1>5, <1>6 DEF HeldBack
<1> QED
  BY <1>7, <1>8 DEF CInv

\* Every step keeps the types.
LEMMA CounterTypeStep ==
    ASSUME CInv, [CounterNext]_counterVars
    PROVE  CounterType'
<1> USE DEF CInv, CounterType
<1>1. ASSUME NEW n \in Nat
      PROVE  Numbered(n) \in Seq(Entry) /\ Len(Numbered(n)) \in Nat
             /\ document + n \in Nat /\ counted + n \in Nat
  <2>1. InRow(Numbered(n), document) /\ Len(Numbered(n)) = n
    BY NumberedInRow
  <2> QED
    BY <2>1 DEF InRow
<1>2. \A l \in Nat : buf_flush_All(l) \in Seq(Entry)
  <2> TAKE l \in Nat
  <2>1. Full(items) \in Seq(Entry)
    BY ConcatProperties DEF Full
  <2>2. HTReplyHeaders(l) \in Seq(Entry)
    BY DEF HTReplyHeaders, Entry
  <2> QED
    BY <2>1, <2>2, ConcatProperties DEF buf_flush_All
<1>3. ASSUME NEW n \in Nat, Counts(n), PutOverLimit(Numbered(n)) PROVE CounterType'
  <2>1. GivesUp \o Numbered(n) \in Seq(Entry)
    BY <1>1, <1>2, ConcatProperties DEF GivesUp
  <2> QED
    BY <1>1, <1>3, <2>1 DEF Counts, PutOverLimit
<1>4. ASSUME NEW n \in 1 .. MaxDocument, PutToSink(Numbered(n)) PROVE CounterType'
  <2>1. sink \o Numbered(n) \in Seq(Entry)
    BY <1>1, ConcatProperties, CounterSizes
  <2> QED
    BY <1>1, <1>4, <2>1, CounterSizes DEF PutToSink
<1>5. ASSUME NEW n \in 1 .. MaxDocument, PutGivenUp(n) PROVE CounterType'
  <2>1. sink \o Numbered(n) \in Seq(Entry)
    BY <1>1, ConcatProperties, CounterSizes
  <2> QED
    BY <1>1, <1>5, <2>1, CounterSizes DEF PutGivenUp, Counts
<1>6. CASE buf_put_char
  <2>1. tmp_buf \o Numbered(1) \in Seq(Entry) /\ Full(items) \in Seq(Entry)
    BY <1>1, ConcatProperties DEF Full
  <2>2. CASE (Len(tmp_buf) >= tmp_max) /\ OverLimit
    BY <1>3, <1>6, <2>2 DEF buf_put_char
  <2>3. CASE ~((Len(tmp_buf) >= tmp_max) /\ OverLimit)
    BY <1>1, <1>6, <2>1, <2>3, CounterSizes DEF buf_put_char, Counts
  <2> QED
    BY <2>2, <2>3
<1>7. ASSUME NEW n \in 1 .. MaxDocument, buf_put_block(n) PROVE CounterType'
  <2>0. n \in Nat
    BY CounterSizes
  <2>1. items \o Numbered(n) \in Seq(Entry)
    BY <1>1, <2>0, ConcatProperties
  <2>2. CASE OverLimit
    BY <1>3, <1>7, <2>0, <2>2 DEF buf_put_block
  <2>3. CASE ~OverLimit
    BY <1>1, <1>7, <2>0, <2>1, <2>3 DEF buf_put_block, Counts
  <2> QED
    BY <2>2, <2>3
<1>8. CASE buf_free
  BY <1>2, <1>8 DEF buf_free
<1>9. CASE buf_abort
  BY <1>9 DEF buf_abort
<1>10. CASE UNCHANGED counterVars
  BY <1>10 DEF counterVars
<1> QED
  BY <1>4, <1>5, <1>6, <1>7, <1>8, <1>9, <1>10 DEF CounterNext

\* Every step keeps what is held back in order.
LEMMA HeldBackStep ==
    ASSUME CInv, CounterType', [CounterNext]_counterVars
    PROVE  HeldBack'
<1> USE DEF CInv, CounterType
<1>1. ASSUME NEW n \in 1 .. MaxDocument, PutToSink(Numbered(n)) PROVE HeldBack'
  BY <1>1 DEF PutToSink, HeldBack
<1>2. ASSUME NEW n \in 1 .. MaxDocument, PutGivenUp(n) PROVE HeldBack'
  <2>1. /\ wrapper = "counter" /\ freed = "no" /\ give_up /\ n \in Nat
        /\ document' = document + n /\ counted' = counted + n
        /\ sink' = sink \o Numbered(n)
        /\ UNCHANGED <<wrapper, freed, give_up>>
    BY <1>2, CounterSizes DEF PutGivenUp, Counts
  <2>2. /\ counted = document /\ document >= MaxContentLenBuf
        /\ Behind(sink, 0, document)
    BY <2>1 DEF HeldBack
  <2>3. InRow(Numbered(n), document) /\ Len(Numbered(n)) = n
    BY <2>1, NumberedInRow
  <2>4. Behind(sink', 0, document')
    BY <2>1, <2>2, <2>3, BehindMore
  <2>5. document' >= MaxContentLenBuf
    BY <2>1, <2>2, CounterSizes
  <2> QED
    BY <2>1, <2>2, <2>4, <2>5 DEF HeldBack
<1>3. ASSUME NEW n \in Nat, Counts(n), ~give_up
      PROVE  /\ wrapper = "counter" /\ freed = "no" /\ sink = <<>>
             /\ UNCHANGED <<wrapper, freed>>
             /\ counted' = document' /\ document' = document + n
             /\ InRow(items, 0) /\ InRow(tmp_buf, Len(items)) /\ Len(items) + Len(tmp_buf) = document
             /\ InRow(Numbered(n), Len(items) + Len(tmp_buf)) /\ Len(Numbered(n)) = n
             /\ Len(items) \in Nat /\ Len(tmp_buf) \in Nat
  BY <1>3, NumberedInRow DEF Counts, HeldBack
<1>4. CASE buf_put_char
  <2> DEFINE full == Len(tmp_buf) >= tmp_max
  <2>0. Counts(1) /\ ~give_up
    BY <1>4 DEF buf_put_char
  <2>1. CASE full /\ OverLimit
    BY <1>3, <1>4, <2>0, <2>1, OverLimitHeld DEF buf_put_char
  <2>2. CASE full /\ ~OverLimit
    <3>1. items' = Full(items) /\ tmp_buf' = Numbered(1) /\ UNCHANGED <<give_up, sink>>
      BY <1>4, <2>2 DEF buf_put_char
    <3>2. InRow(Full(items), 0) /\ Len(Full(items)) = Len(items) + Len(tmp_buf)
      BY <1>3, <2>0, InRowConcat DEF Full
    <3>3. InRow(tmp_buf', Len(items')) /\ Len(items') + Len(tmp_buf') = document'
      BY <1>3, <2>0, <3>1, <3>2
    <3> QED
      BY <1>3, <2>0, <3>1, <3>2, <3>3 DEF HeldBack
  <2>3. CASE ~full
    <3>1. items' = items /\ tmp_buf' = tmp_buf \o Numbered(1) /\ UNCHANGED <<give_up, sink>>
      BY <1>4, <2>3 DEF buf_put_char
    <3>2. InRow(tmp_buf \o Numbered(1), Len(items)) /\ Len(tmp_buf \o Numbered(1)) = Len(tmp_buf) + 1
      BY <1>3, <2>0, InRowConcat
    <3>3. Len(items') + Len(tmp_buf') = document'
      BY <1>3, <2>0, <3>1, <3>2
    <3> QED
      BY <1>3, <2>0, <3>1, <3>2, <3>3 DEF HeldBack
  <2> QED
    BY <2>1, <2>2, <2>3
<1>5. ASSUME NEW n \in 1 .. MaxDocument, buf_put_block(n) PROVE HeldBack'
  <2>0. Counts(n) /\ ~give_up /\ tmp_buf = <<>> /\ n \in Nat
    BY <1>5, CounterSizes DEF buf_put_block
  <2>1. CASE OverLimit
    BY <1>3, <1>5, <2>0, <2>1, OverLimitHeld DEF buf_put_block
  <2>2. CASE ~OverLimit
    <3>1. items' = items \o Numbered(n) /\ UNCHANGED <<give_up, sink, tmp_buf>>
      BY <1>5, <2>2 DEF buf_put_block
    <3>2. Len(tmp_buf) = 0 /\ Len(items) = document
      BY <1>3, <2>0
    <3>5. InRow(Numbered(n), 0 + Len(items)) /\ InRow(items, 0) /\ Len(Numbered(n)) = n
      BY <1>3, <2>0, <3>2
    <3> DEFINE m == 0
    <3>6. InRow(items, m) /\ InRow(Numbered(n), m + Len(items)) /\ m \in Int
      BY <3>5
    <3> HIDE DEF m
    <3>7. InRow(items \o Numbered(n), m) /\ Len(items \o Numbered(n)) = Len(items) + Len(Numbered(n))
      BY <3>6, InRowConcat
    <3>3. InRow(items', 0) /\ Len(items') = Len(items) + n
      BY <3>1, <3>5, <3>7 DEF m
    <3>4. InRow(tmp_buf', Len(items')) /\ Len(items') + Len(tmp_buf') = document'
      BY <1>3, <2>0, <3>1, <3>2, <3>3 DEF InRow
    <3> QED
      BY <1>3, <2>0, <3>1, <3>3, <3>4 DEF HeldBack
  <2> QED
    BY <2>1, <2>2
<1>6. CASE buf_free
  <2>1. /\ wrapper = "counter" /\ freed = "no" /\ counted = document
        /\ out_length' = document /\ freed' = "free"
        /\ sink' = IF give_up THEN sink ELSE buf_flush_All(document)
        /\ UNCHANGED <<wrapper, counted, give_up, document>>
    BY <1>6 DEF buf_free, HeldBack
  <2>2. CASE give_up
    BY <2>1, <2>2 DEF HeldBack
  <2>3. CASE ~give_up
    BY <2>1, <2>3, Flushed DEF HeldBack
  <2> QED
    BY <2>2, <2>3
<1>7. CASE buf_abort
  BY <1>7 DEF buf_abort, HeldBack
<1>8. CASE UNCHANGED counterVars
  BY <1>8 DEF counterVars, HeldBack
<1> QED
  BY <1>1, <1>2, <1>4, <1>5, <1>6, <1>7, <1>8 DEF CounterNext

\* The inductive invariant of the content counter.
THEOREM CounterInductive == CounterSpec => []CInv
<1>1. CInv /\ [CounterNext]_counterVars => CInv'
  BY CounterTypeStep, HeldBackStep DEF CInv
<1> QED
  BY <1>1, CounterInitInv, PTL DEF CounterSpec

\* What is behind a head that was sent is the document.
LEMMA BehindSent ==
    ASSUME NEW s, NEW length \in Int, NEW n \in Nat, Behind(s, length, n)
    PROVE  /\ s # <<>> /\ Head(s) = <<"head", length>>
           /\ Len(Tail(s)) = n
           /\ Tail(s) = [i \in 1 .. Len(Tail(s)) |-> <<"byte", i>>]
<1>1. s \in Seq(Entry) /\ Len(s) = n + 1 /\ s # <<>>
  BY DEF Behind
<1>2. /\ Tail(s) \in Seq(Entry) /\ Len(Tail(s)) = n
      /\ \A i \in 1 .. n : Tail(s)[i] = s[i + 1]
  BY <1>1, HeadTailProperties
<1>3. ASSUME NEW i \in 1 .. n PROVE Tail(s)[i] = <<"byte", i>>
  <2>1. i + 1 \in 2 .. n + 1 /\ (i + 1) - 1 = i
    OBVIOUS
  <2> QED
    BY <1>2, <2>1 DEF Behind
<1>5. Head(s) = <<"head", length>>
  BY <1>1 DEF Behind
<1>6. Tail(s) = [i \in 1 .. n |-> <<"byte", i>>]
  <2>1. Tail(s) \in [1 .. n -> Entry]
    BY <1>2, LenProperties
  <2> QED
    BY <1>3, <2>1
<1> QED
  BY <1>1, <1>2, <1>5, <1>6

\* HTContentCounter: a document that is counted goes out once and in order, behind a head
\* that gives its length, or none if the limit was reached first.
THEOREM DocumentLengthRight == CounterSpec => []LengthRight
<1>1. ASSUME CInv PROVE LengthRight
  <2> USE DEF CInv, CounterType
  <2> SUFFICES ASSUME wrapper = "counter" PROVE LengthRight
    BY <1>1 DEF LengthRight
  <2>1. counted = document /\ (freed = "free" => out_length = document)
    BY <1>1 DEF HeldBack
  <2>2. CASE give_up
    <3>1. Behind(sink, 0, document) /\ document >= MaxContentLenBuf
      BY <1>1, <2>2 DEF HeldBack
    <3>2. /\ sink # <<>> /\ Head(sink)[1] = "head" /\ Head(sink)[2] = 0
          /\ Len(Tail(sink)) = document
          /\ Tail(sink) = [i \in 1 .. Len(Tail(sink)) |-> <<"byte", i>>]
      BY <1>1, <3>1, BehindSent
    <3>3. ~(document < MaxContentLenBuf)
      BY <1>1, <3>1, CounterSizes
    <3> QED
      BY <2>1, <2>2, <3>1, <3>2, <3>3 DEF LengthRight
  <2>3. CASE ~give_up /\ freed # "free"
    <3>1. sink = <<>>
      BY <1>1, <2>3 DEF HeldBack
    <3> QED
      BY <2>3, <3>1 DEF LengthRight
  <2>4. CASE ~give_up /\ freed = "free"
    <3>1. Behind(sink, document, document)
      BY <1>1, <2>4 DEF HeldBack
    <3>2. /\ sink # <<>> /\ Head(sink)[1] = "head" /\ Head(sink)[2] = document
          /\ Len(Tail(sink)) = document
          /\ Tail(sink) = [i \in 1 .. Len(Tail(sink)) |-> <<"byte", i>>]
      BY <1>1, <3>1, BehindSent
    <3> QED
      BY <2>1, <2>4, <3>2 DEF LengthRight
  <2> QED
    BY <2>2, <2>3, <2>4
<1> QED
  BY <1>1, CounterInductive, PTL

-----------------------------------------------------------------------------
(* The writer of the cache                                                 *)

\* out is a copy of the pieces a + 1 to b of the reply, but for an Expires that
\* was replaced.
Copies(out, whole, a, b) ==
    /\ out \in Seq(Piece) /\ Len(out) = b - a
    /\ \A i \in 1 .. b - a : \/ out[i] = whole[a + i]
                             \/ whole[a + i].kind = "expires" /\ out[i] = Placeholder

\* The same without an exception.
Exact(out, whole, a, b) ==
    /\ out \in Seq(Piece) /\ Len(out) = b - a
    /\ \A i \in 1 .. b - a : out[i] = whole[a + i]

\* The e-th piece that has arrived is the end of the head.
HeadEnds(e, whole, n) ==
    /\ e \in 2 .. n /\ whole[e].kind = "blank"
    /\ \A i \in 2 .. e - 1 : whole[i].kind # "blank"

\* The head is collected, and kept back from the client and the cache.
Collecting ==
    /\ read >= 1 /\ buf = <<>> /\ client = <<>> /\ cf = <<>> /\ content_count = 0
    /\ status \in {200, 304}
    /\ Copies(header_buf, reply, 0, read)
    /\ \A i \in 2 .. read : reply[i].kind # "blank"
    /\ \A i \in 1 .. read : reply[i].kind # "expired"

\* The body goes to both.
CopyingFrom(e) ==
    /\ HeadEnds(e, reply, read)
    /\ \A i \in 1 .. e : reply[i].kind # "expired"
    /\ content_count = read - e
    /\ Copies(cf, reply, 0, read) \/ Exact(cf, reply, e, read)
    /\ output_stream => IF http1 THEN Copies(client, reply, 0, read) ELSE Exact(client, reply, e, read)

\* What the client of a reply that is not cached has got.
DumpedAll ==
    \/ Copies(client, reply, 0, read)
    \/ ~http1 /\ status = 200 /\ \E e \in 2 .. read : HeadEnds(e, reply, read) /\ Exact(client, reply, e, read)

\* What any client has got.
DumpedSome ==
    \/ \E b \in 0 .. read : Copies(client, reply, 0, b)
    \/ \E e \in 2 .. read : HeadEnds(e, reply, read) /\ \E b \in e .. read : Exact(client, reply, e, b)

\* What the variables say of the reply, by state, when no line was too long.
Shape ==
    /\ state # "SKIP"
    /\ state = "STATUS_LINE" =>
          /\ read = 0 /\ buf = <<>> /\ header_buf = <<>> /\ client = <<>> /\ cf = <<>>
          /\ content_count = 0
    /\ state = "HEADERS" => Collecting
    /\ state = "COPY_BODY" => status = 200 /\ \E e \in 2 .. read : CopyingFrom(e)
    /\ state = "JUNK" /\ output_stream => DumpedAll
    /\ state = "UPDATED" /\ outcome # "not_modified" => client = <<>>
    /\ outcome # "not_modified" => DumpedSome
    /\ outcome = "not_modified" =>
          /\ state = "UPDATED"
          /\ client = IF output_stream THEN HTLoadCacheToStream(OldCopy, http1) ELSE <<>>
    /\ outcome = "created" => state = "COPY_BODY" /\ ~LengthMismatch

\* Inductive.  A line that is too long for the buffer is not held back with its
\* beginning, and nothing is claimed of such a reply.
CWInv == TypeOK /\ (ShortLines => Shape)

-----------------------------------------------------------------------------
(* Facts about replies                                                     *)

\* A set of numbers has a least one.
LEMMA LeastNatural ==
    ASSUME NEW T, T \subseteq Nat, T # {}
    PROVE  \E m \in T : \A k \in T : m <= k
<1>1. \E m \in T : \A k \in T : ~ (<<k, m>> \in OpToRel(<, Nat))
  BY WFMin, NatLessThanWellFounded
<1>2. OpToRel(<, Nat) = {p \in Nat \X Nat : p[1] < p[2]}
  BY Zenon DEF OpToRel
<1>3. \A k, m \in Nat : k < m => <<k, m>> \in {p \in Nat \X Nat : p[1] < p[2]}
  OBVIOUS
<1>4. PICK m \in T : \A k \in T : ~ (<<k, m>> \in OpToRel(<, Nat))
  BY <1>1
<1>5. \A k \in T : ~ (k < m)
  BY <1>2, <1>3, <1>4, Zenon
<1> QED
  BY <1>5

\* What is sent and what has arrived.
LEMMA ReplyType ==
    ASSUME TypeOK
    PROVE  /\ reply \in Seq(Piece) /\ Len(reply) \in Nat /\ read \in Nat /\ read <= Len(reply)
           /\ \A i \in 1 .. Len(reply) : reply[i] \in Piece
<1>1. reply \in Seq(Piece)
  BY WriterAssumption DEF TypeOK
<1>2. Len(reply) \in Nat /\ \A i \in 1 .. Len(reply) : reply[i] \in Piece
  BY <1>1, LenProperties, ElementOfSeq
<1> QED
  BY <1>1, <1>2 DEF TypeOK

\* One more piece that is copied.
LEMMA CopiesMore ==
    ASSUME TypeOK, NEW a \in Nat, NEW b \in Nat, a <= b, b < Len(reply), NEW out, NEW p \in Piece
    PROVE  /\ Exact(out, reply, a, b) /\ p = reply[b + 1] => Exact(Append(out, p), reply, a, b + 1)
           /\ Copies(out, reply, a, b) /\ (p = reply[b + 1] \/ (reply[b + 1].kind = "expires" /\ p = Placeholder))
                 => Copies(Append(out, p), reply, a, b + 1)
<1> DEFINE q == Append(out, p)
<1>1. ASSUME out \in Seq(Piece), Len(out) = b - a
      PROVE  /\ q \in Seq(Piece) /\ Len(q) = (b + 1) - a
             /\ \A i \in 1 .. b - a : q[i] = out[i]
             /\ q[(b + 1) - a] = p
  BY <1>1
<1>2. (1 .. (b + 1) - a) = (1 .. b - a) \cup {(b + 1) - a} /\ a + ((b + 1) - a) = b + 1
  OBVIOUS
<1> HIDE DEF q
<1>3. ASSUME Exact(out, reply, a, b), p = reply[b + 1] PROVE Exact(q, reply, a, b + 1)
  BY <1>1, <1>2, <1>3 DEF Exact
<1>4. ASSUME Copies(out, reply, a, b), p = reply[b + 1] \/ (reply[b + 1].kind = "expires" /\ p = Placeholder)
      PROVE  Copies(q, reply, a, b + 1)
  BY <1>1, <1>2, <1>4 DEF Copies
<1> QED
  BY <1>3, <1>4 DEF q

\* Nothing is a copy of no pieces.
LEMMA NothingCopied ==
    ASSUME NEW a \in Nat
    PROVE  Copies(<<>>, reply, a, a) /\ Exact(<<>>, reply, a, a)
BY DEF Copies, Exact

\* What was received, piece by piece.
LEMMA ReceivedIs ==
    ASSUME TypeOK
    PROVE  /\ Received \in Seq(Piece) /\ Len(Received) = read
           /\ \A i \in 1 .. read : Received[i] = reply[i]
BY ReplyType, SubSeqProperties DEF Received

\* A copy from the first piece on is a beginning of what was received.
LEMMA RepeatsReceived ==
    ASSUME TypeOK, NEW out, NEW b \in 0 .. read, Copies(out, reply, 0, b)
    PROVE  /\ Begins(out, Received)
           /\ b = read => Repeats(out, Received)
<1>1. Len(out) = b /\ b \in Nat /\ b <= read /\ read \in Nat
  BY ReplyType DEF Copies
<1>2. \A i \in 1 .. b : out[i] = reply[i] \/ (reply[i].kind = "expires" /\ out[i] = Placeholder)
  BY <1>1 DEF Copies
<1>3. \A i \in 1 .. b : Received[i] = reply[i]
  BY <1>1, ReceivedIs
<1> QED
  BY <1>1, <1>2, <1>3, ReceivedIs DEF Begins, Repeats

\* The first empty line is the end of the head, and the rest is the body.
LEMMA HeadEndsAt ==
    ASSUME TypeOK, NEW e, HeadEnds(e, reply, read)
    PROVE  /\ EndOfHead(Received) = e
           /\ Body(Received) \in Seq(Piece) /\ Len(Body(Received)) = read - e
           /\ \A i \in 1 .. read - e : Body(Received)[i] = reply[e + i]
<1> DEFINE blank == {i \in 2 .. Len(Received) : Received[i].kind = "blank"}
<1>1. e \in 2 .. read /\ read \in Nat /\ reply[e].kind = "blank"
  BY ReplyType DEF HeadEnds
<1>2. e \in blank
  BY <1>1, ReceivedIs
<1>3. \A i \in blank : e <= i
  <2> SUFFICES ASSUME NEW i \in blank, i < e PROVE FALSE
    BY <1>1, ReceivedIs
  <2>1. i \in 2 .. e - 1 /\ reply[i].kind = "blank"
    BY <1>1, ReceivedIs
  <2> QED
    BY <2>1 DEF HeadEnds
<1>4. Min(blank) = e
  <2>1. \A m \in blank : (\A i \in blank : m <= i) => m = e
    BY <1>1, <1>2, <1>3
  <2> HIDE DEF blank
  <2> QED
    BY <1>2, <1>3, <2>1 DEF Min
<1>5. EndOfHead(Received) = e
  BY <1>2, <1>4 DEF EndOfHead
<1>6. Body(Received) = SubSeq(Received, e + 1, read)
  BY <1>5, ReceivedIs DEF Body
<1>7. \A i \in e + 1 .. read : Received[i] \in Piece /\ Received[i] = reply[i]
  BY <1>1, ReceivedIs, ReplyType
<1>8. /\ SubSeq(Received, e + 1, read) \in Seq(Piece)
      /\ Len(SubSeq(Received, e + 1, read)) = read - e
      /\ \A i \in 1 .. read - e : SubSeq(Received, e + 1, read)[i] = Received[e + i]
  BY <1>1, <1>7, SubSeqProperties
<1>9. \A i \in 1 .. read - e : Received[e + i] = reply[e + i]
  BY <1>1, <1>7
<1> QED
  BY <1>5, <1>6, <1>8, <1>9

\* A copy from the end of the head on is a beginning of the body.
LEMMA ExactIsBody ==
    ASSUME TypeOK, NEW e, HeadEnds(e, reply, read), NEW b \in e .. read, NEW out, Exact(out, reply, e, b)
    PROVE  /\ Begins(out, Body(Received))
           /\ b = read => out = Body(Received)
<1>1. e \in Nat /\ b \in Nat /\ b <= read /\ e <= b /\ read \in Nat
  BY ReplyType DEF HeadEnds
<1> DEFINE whole == Body(Received)
<1>2. /\ whole \in Seq(Piece) /\ Len(whole) = read - e
      /\ \A i \in 1 .. read - e : whole[i] = reply[e + i]
  BY HeadEndsAt
<1> HIDE DEF whole
<1>3. out \in Seq(Piece) /\ Len(out) = b - e /\ \A i \in 1 .. b - e : out[i] = whole[i]
  <2>1. out \in Seq(Piece) /\ Len(out) = b - e /\ \A i \in 1 .. b - e : out[i] = reply[e + i]
    BY DEF Exact
  <2>2. \A i \in 1 .. b - e : i \in 1 .. read - e
    BY <1>1
  <2> QED
    BY <1>2, <2>1, <2>2
<1>4. Begins(out, whole)
  BY <1>1, <1>2, <1>3 DEF Begins
<1>5. ASSUME b = read PROVE out = whole
  BY <1>2, <1>3, <1>5, SeqEqual
<1> QED
  BY <1>4, <1>5 DEF whole

-----------------------------------------------------------------------------
(* The types                                                               *)

\* The length of a head is a number.
LEMMA HeadIsCounted ==
    ASSUME NEW s \in Seq(Piece)
    PROVE  EndOfHead(s) \in Nat
<1> DEFINE blank == {i \in 2 .. Len(s) : s[i].kind = "blank"}
<1>1. Len(s) \in Nat
  BY LenProperties
<1>2. CASE blank = {}
  BY <1>1, <1>2 DEF EndOfHead
<1>3. CASE blank # {}
  <2>1. blank \subseteq Nat
    BY <1>1
  <2> HIDE DEF blank
  <2>2. \E m \in blank : \A k \in blank : m <= k
    BY <1>3, <2>1, LeastNatural
  <2>3. Min(blank) \in blank
    BY <2>2 DEF Min
  <2> QED
    BY <1>3, <2>1, <2>3 DEF EndOfHead, blank
<1> QED
  BY <1>2, <1>3

\* What is read of the old copy.
LEMMA OldCopyIsPieces ==
    ASSUME NEW toHttp1 \in BOOLEAN
    PROVE  HTLoadCacheToStream(OldCopy, toHttp1) \in Seq(Piece)
<1>1. OldCopy \in Seq(Piece) /\ Len(OldCopy) \in Nat
  BY WriterAssumption, LenProperties
<1>2. \A i \in 1 .. Len(OldCopy) : OldCopy[i] \in Piece
  BY <1>1, ElementOfSeq
<1>3. Line("expires") \in Piece
  BY DEF Line, Piece, Kind
<1>4. [i \in 1..Len(OldCopy) |-> IF OldCopy[i] = Placeholder THEN Line("expires") ELSE OldCopy[i]]
         \in Seq(Piece)
  BY <1>1, <1>2, <1>3
<1>5. Body(OldCopy) \in Seq(Piece)
  <2> DEFINE e == EndOfHead(OldCopy)
  <2>1. e \in Nat
    BY <1>1, HeadIsCounted
  <2> HIDE DEF e
  <2>2. \A i \in e + 1 .. Len(OldCopy) : OldCopy[i] \in Piece
    BY <1>1, <1>2, <2>1
  <2>3. SubSeq(OldCopy, e + 1, Len(OldCopy)) \in Seq(Piece)
    BY <1>1, <2>1, <2>2, SubSeqProperties
  <2> QED
    BY <2>3 DEF Body, e
<1> QED
  BY <1>4, <1>5 DEF HTLoadCacheToStream

\* What the client gets has the type.
LEMMA PutType ==
    ASSUME TypeOK, NEW pieces \in Seq(Piece), Put(pieces)
    PROVE  client' \in Seq(Piece)
BY DEF TypeOK, Put

\* The pieces an action of the head handles.
LEMMA ArrivingType ==
    ASSUME TypeOK, Arrives
    PROVE  /\ Arriving \in Piece /\ <<Arriving>> \in Seq(Piece)
           /\ Append(buf, Arriving) \in Seq(Piece) /\ Len(Append(buf, Arriving)) = Len(buf) + 1
           /\ header_buf \o Append(buf, Arriving) \in Seq(Piece)
           /\ read' \in 0 .. Len(reply) /\ read' = read + 1 /\ read' \in Nat
<1>1. Arriving \in Piece /\ read' = read + 1 /\ read' \in 0 .. Len(reply) /\ read' \in Nat
  BY ReplyType DEF Arrives, Arriving
<1>2. buf \in Seq(Piece) /\ header_buf \in Seq(Piece)
  BY DEF TypeOK
<1>3. <<Arriving>> \in Seq(Piece)
  BY <1>1
<1>4. Append(buf, Arriving) \in Seq(Piece) /\ Len(Append(buf, Arriving)) = Len(buf) + 1
  BY <1>1, <1>2, AppendProperties
<1>5. header_buf \o Append(buf, Arriving) \in Seq(Piece)
  BY <1>2, <1>4, ConcatProperties
<1> QED
  BY <1>1, <1>3, <1>4, <1>5

\* buf_flush keeps the types.
LEMMA FlushType ==
    ASSUME TypeOK, Arrives, buf_flush(HeaderLine)
    PROVE  /\ client' \in Seq(Piece) /\ cf' \in Seq(Piece)
           /\ header_buf' \in Seq(Piece) /\ buf' \in Seq(Piece)
<1> DEFINE all == header_buf \o HeaderLine
<1>1. all \in Seq(Piece) /\ HeaderLine \in Seq(Piece)
  BY ArrivingType DEF HeaderLine
<1>2. cf \o header_buf \o HeaderLine \in Seq(Piece)
  BY <1>1, ConcatProperties DEF TypeOK
<1>3. Put(all)
  BY DEF buf_flush
<1> HIDE DEF all
<1>4. client' \in Seq(Piece)
  BY <1>1, <1>3, PutType
<1> QED
  BY <1>2, <1>4 DEF buf_flush, TypeOK

\* Every step keeps the types.
LEMMA WriterTypeStep ==
    ASSUME TypeOK, [Next]_vars
    PROVE  TypeOK'
<1> USE DEF TypeOK
<1>1. CASE PutStatusLine
  <2> DEFINE arrived == Append(buf, Arriving)
  <2>1. arrived \in Seq(Piece) /\ header_buf \o arrived \in Seq(Piece) /\ read' \in 0 .. Len(reply)
    BY <1>1, ArrivingType DEF PutStatusLine
  <2>2. status' \in {0, 200, 304, 404, -1}
    BY <1>1 DEF PutStatusLine, get_status
  <2>3. client' \in Seq(Piece)
    BY <1>1, <2>1, PutType DEF PutStatusLine
  <2>4. state' \in {"SKIP", "JUNK", "HEADERS"} /\ header_buf' = header_buf \o arrived /\ buf' = <<>>
    BY <1>1 DEF PutStatusLine
  <2> HIDE DEF arrived
  <2> QED
    BY <1>1, <2>1, <2>2, <2>3, <2>4 DEF PutStatusLine, given, counts
<1>2. CASE EndOfHeaders200
  <2>1. Arrives /\ read' \in 0 .. Len(reply)
    BY <1>2, ArrivingType DEF EndOfHeaders200
  <2>2. client' \in Seq(Piece) /\ cf' \in Seq(Piece) /\ header_buf' \in Seq(Piece) /\ buf' \in Seq(Piece)
    <3>1. CASE http1
      <4>1. buf_flush(HeaderLine)
        BY <1>2, <3>1 DEF EndOfHeaders200
      <4> QED
        BY <2>1, <4>1, FlushType
    <3>2. CASE ~http1
      BY <1>2, <3>2 DEF EndOfHeaders200, buf_discard, sinks
    <3> QED
      BY <3>1, <3>2
  <2> QED
    BY <1>2, <2>1, <2>2 DEF EndOfHeaders200, given, counts
<1>3. CASE EndOfHeaders304
  <2>1. HeaderLine \in Seq(Piece) /\ read' \in 0 .. Len(reply)
    BY <1>3, ArrivingType DEF EndOfHeaders304, HeaderLine
  <2> QED
    BY <1>3, <2>1 DEF EndOfHeaders304, buf_discard, sinks, given, counts
<1>4. CASE EndOfHeadersOther
  <2>1. HeaderLine \in Seq(Piece) /\ read' \in 0 .. Len(reply)
    BY <1>4, ArrivingType DEF EndOfHeadersOther, HeaderLine
  <2> QED
    BY <1>4, <2>1 DEF EndOfHeadersOther, sinks, given, counts
<1>5. CASE ExpiresImmediately
  <2>1. Arrives /\ read' \in 0 .. Len(reply)
    BY <1>5, ArrivingType DEF ExpiresImmediately
  <2>2. client' \in Seq(Piece) /\ cf' \in Seq(Piece) /\ header_buf' \in Seq(Piece) /\ buf' \in Seq(Piece)
    BY <1>5, <2>1, FlushType DEF ExpiresImmediately
  <2> QED
    BY <1>5, <2>1, <2>2 DEF ExpiresImmediately, given, counts
<1>6. CASE PutHeader
  <2>1. HeaderLine \in Seq(Piece) /\ header_buf \o HeaderLine \in Seq(Piece) /\ read' \in 0 .. Len(reply)
    BY <1>6, ArrivingType DEF PutHeader, HeaderLine
  <2>2. <<Placeholder>> \in Seq(Piece)
    BY DEF Placeholder, Line, Piece, Kind
  <2>3. header_buf \o <<Placeholder>> \in Seq(Piece)
    BY <2>2, ConcatProperties
  <2>4. header_buf' \in Seq(Piece)
    BY <1>6, <2>1, <2>3 DEF PutHeader
  <2>5. content_length' \in Nat
    BY <1>6, WriterAssumption DEF PutHeader
  <2> QED
    BY <1>6, <2>1, <2>4, <2>5 DEF PutHeader, given, sinks
<1>7. CASE PutSkip
  <2>1. Arriving \in Piece /\ <<Arriving>> \in Seq(Piece) /\ read' \in 0 .. Len(reply)
    BY <1>7, ArrivingType DEF PutSkip
  <2>2. client' \in Seq(Piece)
    BY <1>7, <2>1, PutType DEF PutSkip
  <2> QED
    BY <1>7, <2>1, <2>2 DEF PutSkip, given, held, counts
<1>8. CASE PutBody
  <2>1. Arriving \in Piece /\ <<Arriving>> \in Seq(Piece) /\ read' \in 0 .. Len(reply)
    BY <1>8, ArrivingType DEF PutBody
  <2>2. client' \in Seq(Piece)
    BY <1>8, <2>1, PutType DEF PutBody
  <2> QED
    BY <1>8, <2>1, <2>2 DEF PutBody, given, held
<1>9. CASE PutJunk
  <2>1. Arriving \in Piece /\ <<Arriving>> \in Seq(Piece) /\ read' \in 0 .. Len(reply)
    BY <1>9, ArrivingType DEF PutJunk
  <2>2. client' \in Seq(Piece)
    BY <1>9, <2>1, PutType DEF PutJunk
  <2> QED
    BY <1>9, <2>1, <2>2 DEF PutJunk, given, held
<1>10. CASE PutUpdated
  <2>1. read' \in 0 .. Len(reply)
    BY <1>10, ArrivingType DEF PutUpdated
  <2> QED
    BY <1>10, <2>1 DEF PutUpdated, given, held, sinks, counts
<1>11. CASE HangUp
  <2>1. UNCHANGED <<reply, read>> /\ output_stream' \in BOOLEAN
    BY <1>11 DEF HangUp, given
  <2>2. read' \in 0 .. Len(reply')
    BY <2>1
  <2> QED
    BY <1>11, <2>1, <2>2 DEF HangUp, given, held, sinks, counts
<1>12. CASE cache_free
  <2>1. client' \in Seq(Piece)
    BY <1>12, OldCopyIsPieces, PutType DEF cache_free
  <2> QED
    BY <1>12, <2>1 DEF cache_free, given, held, counts
<1>13. CASE cache_abort
  BY <1>13 DEF cache_abort, given, held, sinks, counts
<1>14. CASE UNCHANGED vars
  BY <1>14 DEF vars, given, held, sinks, counts
<1> QED
  BY <1>1, <1>2, <1>3, <1>4, <1>5, <1>6, <1>7, <1>8, <1>9, <1>10, <1>11, <1>12, <1>13, <1>14 DEF Next

-----------------------------------------------------------------------------
(* The shape                                                               *)

\* What a client has got stays a beginning of the reply while more arrives.
LEMMA DumpedSomeKept ==
    ASSUME TypeOK, TypeOK', DumpedSome, UNCHANGED <<reply, client>>, read <= read'
    PROVE  DumpedSome'
<1>1. read \in Nat /\ read' \in Nat
  BY DEF TypeOK
<1>2. CASE \E b \in 0 .. read : Copies(client, reply, 0, b)
  BY <1>1, <1>2 DEF DumpedSome
<1>3. ASSUME NEW e \in 2 .. read, HeadEnds(e, reply, read),
             NEW b \in e .. read, Exact(client, reply, e, b)
      PROVE  DumpedSome'
  <2>1. e \in 2 .. read' /\ b \in e .. read' /\ HeadEnds(e, reply, read')
    BY <1>1, <1>3 DEF HeadEnds
  <2> QED
    BY <1>3, <2>1 DEF DumpedSome
<1> QED
  BY <1>2, <1>3 DEF DumpedSome

\* A line of the head when the buffer is empty.
LEMMA HeaderLineIs ==
    ASSUME TypeOK, Arrives, buf = <<>>
    PROVE  /\ HeaderLine = <<Arriving>> /\ HeaderLine[1] = Arriving
           /\ \A s \in Seq(Piece) : s \o HeaderLine = Append(s, Arriving)
           /\ \A s \in Seq(Piece) : s \o <<Arriving>> = Append(s, Arriving)
           /\ Arriving = reply[read + 1] /\ read < Len(reply) /\ read' = read + 1
           /\ read' = read + 1 /\ outcome = "open"
<1>1. Arriving \in Piece
  BY ArrivingType
<1>2. HeaderLine = <<Arriving>>
  BY DEF HeaderLine
<1>3. \A s \in Seq(Piece) : s \o <<Arriving>> = Append(s, Arriving)
  BY <1>1
<1> QED
  BY <1>2, <1>3 DEF Arrives, Arriving

\* Nothing in front of a sequence.
LEMMA NothingBefore == ASSUME NEW s \in Seq(Piece) PROVE <<>> \o s = s
OBVIOUS

\* What happens when the end of the head, or an Expires in the past, lets go what
\* was held back.
LEMMA FlushedCopies ==
    ASSUME TypeOK, Collecting, Arrives, buf_flush(HeaderLine)
    PROVE  /\ client' = <<>> \/ Copies(client', reply, 0, read + 1)
           /\ output_stream => Copies(client', reply, 0, read + 1)
           /\ cf' = <<>> \/ Copies(cf', reply, 0, read + 1)
           /\ buf' = <<>>
<1> DEFINE all == Append(header_buf, Arriving)
<1>1. header_buf \in Seq(Piece) /\ Arriving \in Piece /\ read \in Nat
  BY ArrivingType DEF TypeOK
<1>2. header_buf \o HeaderLine = all /\ <<>> \o header_buf = header_buf
  BY <1>1, HeaderLineIs, NothingBefore DEF Collecting
<1>3. Copies(all, reply, 0, read + 1)
  BY <1>1, CopiesMore, HeaderLineIs DEF Collecting
<1>4. all \in Seq(Piece) /\ <<>> \o all = all
  BY <1>3, NothingBefore DEF Copies
<1> HIDE DEF all
<1>5. client' = IF output_stream THEN all ELSE <<>>
  BY <1>2, <1>4 DEF buf_flush, Put, Collecting
<1>6. cf' = all \/ cf' = <<>>
  BY <1>2, <1>4 DEF buf_flush, Collecting
<1> QED
  BY <1>3, <1>5, <1>6 DEF buf_flush

\* The head ends.
LEMMA HeadEndsNow ==
    ASSUME TypeOK, Collecting, Arrives, HeaderLine[1].kind = "blank"
    PROVE  /\ HeadEnds(read + 1, reply, read + 1) /\ read + 1 \in 2 .. read + 1
           /\ \A i \in 1 .. read + 1 : reply[i].kind # "expired"
<1>1. read \in Nat /\ read >= 1 /\ reply[read + 1].kind = "blank"
  BY HeaderLineIs DEF Collecting, TypeOK
<1> QED
  BY <1>1 DEF HeadEnds, Collecting

\* The status line.
LEMMA StatusLineShape ==
    ASSUME CWInv, TypeOK', Shape, PutStatusLine, Arriving.ends
    PROVE  Shape'
<1>1. /\ read = 0 /\ buf = <<>> /\ header_buf = <<>> /\ client = <<>> /\ cf = <<>>
      /\ content_count = 0 /\ outcome = "open"
  BY DEF Shape, PutStatusLine, Arrives
<1>2. TypeOK /\ Arrives /\ reply' = reply /\ outcome' = "open" /\ output_stream' = output_stream
      /\ cf' = <<>> /\ content_count' = 0 /\ buf' = <<>>
  BY <1>1 DEF CWInv, PutStatusLine, given, counts
<1> DEFINE arrived == Append(buf, Arriving)
<1>3. arrived = <<Arriving>> /\ arrived[1] = Arriving /\ Arriving = reply[1] /\ read' = 1
      /\ Len(reply) \in Nat /\ 0 < Len(reply) /\ Arriving \in Piece
  BY <1>1, <1>2, ArrivingType, ReplyType, HeaderLineIs DEF HeaderLine
<1>4. Copies(arrived, reply, 0, 1) /\ arrived \in Seq(Piece)
  <2>1. Copies(Append(<<>>, Arriving), reply, 0, 0 + 1)
    <3> DEFINE z == 0
    <3>1. z \in Nat /\ z <= z /\ Copies(<<>>, reply, z, z) /\ z < Len(reply) /\ Arriving = reply[z + 1]
      BY <1>3, NothingCopied
    <3> HIDE DEF z
    <3>2. Copies(Append(<<>>, Arriving), reply, z, z + 1)
      BY <1>2, <1>3, <3>1, CopiesMore, Zenon
    <3> QED
      BY <3>2 DEF z
  <2>2. 0 + 1 = 1
    OBVIOUS
  <2>3. Copies(arrived, reply, 0, 1)
    BY <1>1, <2>1, <2>2
  <2> QED
    BY <2>3 DEF Copies
<1>5. <<>> \o arrived = arrived /\ Copies(<<>>, reply, 0, 0)
  BY <1>4, NothingBefore, NothingCopied
<1>6. status' = get_status(reply[1].kind)
      /\ client' = (IF status' # 200 /\ (status' # 304 \/ ~if_mod_since)
                    THEN (IF output_stream THEN <<>> \o arrived ELSE <<>>) ELSE <<>>)
      /\ state' = (IF status' # 200 /\ (status' # 304 \/ ~if_mod_since) THEN "JUNK" ELSE "HEADERS")
      /\ header_buf' = <<>> \o arrived
  BY <1>1, <1>3 DEF PutStatusLine, Put
<1> HIDE DEF arrived
<1>7. DumpedSome'
  BY <1>2, <1>3, <1>4, <1>5, <1>6 DEF DumpedSome
<1>8. CASE state' = "JUNK"
  <2>1. output_stream' => DumpedAll'
    BY <1>2, <1>3, <1>4, <1>5, <1>6, <1>8 DEF DumpedAll
  <2> QED
    BY <1>2, <1>7, <1>8, <2>1 DEF Shape
<1>9. CASE state' = "HEADERS"
  <2>1. status' \in {200, 304} /\ client' = <<>> /\ header_buf' = arrived
    BY <1>5, <1>6, <1>9 DEF get_status
  <2>2. reply[1].kind # "expired"
    BY <1>6, <2>1 DEF get_status
  <2>3. Collecting'
    BY <1>2, <1>3, <1>4, <2>1, <2>2 DEF Collecting
  <2> QED
    BY <1>2, <1>7, <1>9, <2>3 DEF Shape
<1> QED
  BY <1>6, <1>8, <1>9

\* A line of the head.
LEMMA HeadersShape ==
    ASSUME CWInv, TypeOK', Shape, Arriving.ends,
           EndOfHeaders200 \/ EndOfHeaders304 \/ EndOfHeadersOther \/ ExpiresImmediately \/ PutHeader
    PROVE  Shape'
<1>1. TypeOK /\ Arrives /\ Collecting /\ reply' = reply /\ http1' = http1
      /\ outcome = "open" /\ outcome' = "open" /\ output_stream' = output_stream
      /\ status' = status /\ content_count' = content_count
  BY DEF CWInv, Shape, EndOfHeaders200, EndOfHeaders304, EndOfHeadersOther,
         ExpiresImmediately, PutHeader, Arrives, given, counts
<1>2. read' = read + 1 /\ read \in Nat /\ read' \in Nat /\ Arriving = reply[read'] /\ read < Len(reply)
      /\ HeaderLine = <<Arriving>> /\ HeaderLine[1] = Arriving /\ Arriving \in Piece
  BY <1>1, HeaderLineIs, ArrivingType DEF Collecting, TypeOK
<1>3. client = <<>> /\ cf = <<>> /\ buf = <<>> /\ content_count = 0 /\ status \in {200, 304}
  BY <1>1 DEF Collecting
<1>4. Copies(<<>>, reply, 0, 0) /\ Exact(<<>>, reply, read', read')
  BY <1>2, NothingCopied
<1>5. CASE EndOfHeaders200
  <2>1. HeadEnds(read', reply, read') /\ read' \in 2 .. read'
        /\ \A i \in 1 .. read' : reply[i].kind # "expired"
    BY <1>1, <1>2, <1>5, HeadEndsNow DEF EndOfHeaders200
  <2>2. http1 => buf_flush(HeaderLine)
    BY <1>5 DEF EndOfHeaders200
  <2>3. /\ http1 => (client' = <<>> \/ Copies(client', reply, 0, read'))
        /\ http1 /\ output_stream => Copies(client', reply, 0, read')
        /\ http1 => (cf' = <<>> \/ Copies(cf', reply, 0, read'))
    BY <1>1, <1>2, <2>2, FlushedCopies
  <2>4. ~http1 => client' = <<>> /\ cf' = <<>>
    BY <1>3, <1>5 DEF EndOfHeaders200, buf_discard, sinks
  <2>5. status = 200 /\ state' \in {"COPY_BODY", "JUNK"}
    BY <1>5 DEF EndOfHeaders200
  <2>6. CopyingFrom(read)' 
    <3>1. Copies(cf', reply, 0, read') \/ Exact(cf', reply, read', read')
      BY <1>4, <2>3, <2>4
    <3>2. output_stream => IF http1 THEN Copies(client', reply, 0, read') ELSE Exact(client', reply, read', read')
      BY <1>4, <2>3, <2>4
    <3> QED
      BY <1>1, <1>2, <1>3, <2>1, <3>1, <3>2 DEF CopyingFrom
  <2>7. output_stream' => DumpedAll'
    BY <1>1, <1>4, <2>1, <2>3, <2>4, <2>5 DEF DumpedAll
  <2>8. DumpedSome'
    BY <1>1, <1>2, <1>4, <2>3, <2>4 DEF DumpedSome
  <2>9. \E e \in 2 .. read' : CopyingFrom(e)'
    BY <2>1, <2>6
  <2> QED
    BY <1>1, <2>5, <2>7, <2>8, <2>9 DEF Shape
<1>6. CASE EndOfHeaders304
  <2>1. client' = <<>> /\ state' = "UPDATED"
    BY <1>3, <1>6 DEF EndOfHeaders304, buf_discard, sinks
  <2>2. DumpedSome'
    BY <1>1, <1>2, <1>4, <2>1 DEF DumpedSome
  <2> QED
    BY <1>1, <2>1, <2>2 DEF Shape
<1>7. CASE EndOfHeadersOther
  BY <1>3, <1>7 DEF EndOfHeadersOther
<1>8. CASE ExpiresImmediately
  <2>1. /\ client' = <<>> \/ Copies(client', reply, 0, read')
        /\ output_stream => Copies(client', reply, 0, read')
    BY <1>1, <1>2, <1>8, FlushedCopies DEF ExpiresImmediately
  <2>2. DumpedSome' /\ (output_stream' => DumpedAll')
    BY <1>1, <1>2, <1>4, <2>1 DEF DumpedSome, DumpedAll
  <2>3. state' = "JUNK"
    BY <1>8 DEF ExpiresImmediately
  <2> QED
    BY <1>1, <2>2, <2>3 DEF Shape
<1>9. CASE PutHeader
  <2>1. state' = "HEADERS" /\ client' = <<>> /\ cf' = <<>> /\ buf' = <<>>
        /\ reply[read'].kind \notin {"blank", "expired"}
    BY <1>2, <1>3, <1>9 DEF PutHeader, sinks
  <2>2. header_buf \in Seq(Piece) /\ Placeholder \in Piece
    BY <1>1 DEF TypeOK, Placeholder, Line, Piece, Kind
  <2>3. header_buf \o <<Placeholder>> = Append(header_buf, Placeholder)
        /\ header_buf \o HeaderLine = Append(header_buf, Arriving)
    BY <1>1, <1>2, <1>3, <2>2, HeaderLineIs
  <2>4. \/ header_buf' = Append(header_buf, Arriving)
        \/ reply[read'].kind = "expires" /\ header_buf' = Append(header_buf, Placeholder)
    BY <1>2, <1>9, <2>3 DEF PutHeader
  <2>5. Copies(header_buf', reply, 0, read')
    <3>1. Copies(header_buf, reply, 0, read) /\ 0 \in Nat /\ 0 <= read
      BY <1>1, <1>2 DEF Collecting
    <3>2. Copies(Append(header_buf, Arriving), reply, 0, read + 1)
      BY <1>1, <1>2, <3>1, CopiesMore
    <3>3. reply[read'].kind = "expires" =>
             Copies(Append(header_buf, Placeholder), reply, 0, read + 1)
      BY <1>1, <1>2, <2>2, <3>1, CopiesMore
    <3> QED
      BY <1>2, <2>4, <3>2, <3>3
  <2>6. Collecting'
    BY <1>1, <1>2, <1>3, <2>1, <2>5 DEF Collecting
  <2>7. DumpedSome'
    BY <1>1, <1>2, <1>4, <2>1 DEF DumpedSome
  <2> QED
    BY <1>1, <2>1, <2>6, <2>7 DEF Shape
<1> QED
  BY <1>5, <1>6, <1>7, <1>8, <1>9

\* A unit of the body.
LEMMA BodyShape ==
    ASSUME CWInv, TypeOK', Shape, PutBody
    PROVE  Shape'
<1>1. /\ TypeOK /\ Arrives /\ state = "COPY_BODY" /\ state' = "COPY_BODY" /\ status' = status
      /\ reply' = reply /\ http1' = http1 /\ output_stream' = output_stream
      /\ outcome = "open" /\ outcome' = "open" /\ content_count' = content_count + 1
      /\ cf' = Append(cf, Arriving)
      /\ client' = IF output_stream THEN client \o <<Arriving>> ELSE client
  BY DEF CWInv, PutBody, Arrives, Put, given
<1>2. read' = read + 1 /\ read \in Nat /\ read' \in Nat /\ Arriving = reply[read'] /\ read < Len(reply)
      /\ Arriving \in Piece /\ client \in Seq(Piece) /\ cf \in Seq(Piece)
  BY <1>1, ArrivingType DEF TypeOK, Arrives, Arriving
<1>3. client \o <<Arriving>> = Append(client, Arriving)
  BY <1>2
<1>4. status = 200 /\ DumpedSome
  BY <1>1 DEF Shape
<1>5. PICK e \in 2 .. read : CopyingFrom(e)
  BY <1>1 DEF Shape
<1>6. e \in Nat /\ e <= read /\ e \in 2 .. read' /\ HeadEnds(e, reply, read')
      /\ HeadEnds(e, reply, read) /\ content_count' = read' - e
  BY <1>1, <1>2, <1>5 DEF CopyingFrom, HeadEnds
<1>7. Copies(cf', reply, 0, read') \/ Exact(cf', reply, e, read')
  <2>1. CASE Copies(cf, reply, 0, read)
    <3>1. 0 \in Nat /\ 0 <= read
      BY <1>2
    <3> QED
      BY <1>1, <1>2, <2>1, <3>1, CopiesMore
  <2>2. CASE Exact(cf, reply, e, read)
    BY <1>1, <1>2, <1>6, <2>2, CopiesMore
  <2> QED
    BY <1>5, <2>1, <2>2 DEF CopyingFrom
<1>8. output_stream => IF http1 THEN Copies(client', reply, 0, read') ELSE Exact(client', reply, e, read')
  <2>1. CASE output_stream /\ http1
    <3>1. 0 \in Nat /\ 0 <= read /\ Copies(client, reply, 0, read)
      BY <1>2, <1>5, <2>1 DEF CopyingFrom
    <3>2. Copies(Append(client, Arriving), reply, 0, read + 1)
      BY <1>1, <1>2, <3>1, CopiesMore
    <3> QED
      BY <1>1, <1>2, <1>3, <2>1, <3>2
  <2>2. CASE output_stream /\ ~http1
    <3>1. Exact(client, reply, e, read)
      BY <1>5, <2>2 DEF CopyingFrom
    <3>2. Exact(Append(client, Arriving), reply, e, read + 1)
      BY <1>1, <1>2, <1>6, <3>1, CopiesMore
    <3> QED
      BY <1>1, <1>2, <1>3, <2>2, <3>2
  <2> QED
    BY <2>1, <2>2
<1>9. CopyingFrom(e)'
  BY <1>1, <1>5, <1>6, <1>7, <1>8 DEF CopyingFrom
<1>10. DumpedSome'
  <2>1. CASE output_stream /\ http1
    <3>1. Copies(client', reply, 0, read') /\ read' \in 0 .. read'
      BY <1>2, <1>8, <2>1
    <3> QED
      BY <1>1, <3>1 DEF DumpedSome
  <2>2. CASE output_stream /\ ~http1
    <3>1. Exact(client', reply, e, read') /\ read' \in e .. read'
      BY <1>2, <1>6, <1>8, <2>2
    <3> QED
      BY <1>1, <1>6, <3>1 DEF DumpedSome
  <2>3. CASE ~output_stream
    BY <1>1, <1>2, <1>4, <2>3, DumpedSomeKept
  <2> QED
    BY <2>1, <2>2, <2>3
<1>11. \E d \in 2 .. read' : CopyingFrom(d)'
  BY <1>6, <1>9
<1> QED
  BY <1>1, <1>4, <1>10, <1>11 DEF Shape

\* A piece of a reply that is not cached.
LEMMA JunkShape ==
    ASSUME CWInv, TypeOK', Shape, PutJunk
    PROVE  Shape'
<1>1. /\ TypeOK /\ Arrives /\ state = "JUNK" /\ state' = "JUNK" /\ status' = status
      /\ reply' = reply /\ http1' = http1 /\ output_stream' = output_stream
      /\ outcome = "open" /\ outcome' = "open"
      /\ client' = IF output_stream THEN client \o <<Arriving>> ELSE client
  BY DEF CWInv, PutJunk, Arrives, Put, given
<1>2. read' = read + 1 /\ read \in Nat /\ read' \in Nat /\ Arriving = reply[read'] /\ read < Len(reply)
      /\ Arriving \in Piece /\ client \in Seq(Piece)
  BY <1>1, ArrivingType DEF TypeOK, Arrives, Arriving
<1>3. CASE ~output_stream
  <2>1. DumpedSome'
    BY <1>1, <1>2, <1>3, DumpedSomeKept DEF Shape
  <2> QED
    BY <1>1, <1>3, <2>1 DEF Shape
<1>4. CASE output_stream
  <2>1. client' = Append(client, Arriving)
    BY <1>1, <1>2, <1>4
  <2>2. DumpedAll
    BY <1>1, <1>4 DEF Shape
  <2>3. CASE Copies(client, reply, 0, read)
    <3>1. 0 \in Nat /\ 0 <= read /\ read' \in 0 .. read'
      BY <1>2
    <3>2. Copies(client', reply, 0, read')
      BY <1>1, <1>2, <2>1, <2>3, <3>1, CopiesMore
    <3> QED
      BY <1>1, <3>1, <3>2 DEF Shape, DumpedAll, DumpedSome
  <2>4. ASSUME ~http1, status = 200, NEW e \in 2 .. read, HeadEnds(e, reply, read),
               Exact(client, reply, e, read)
        PROVE  Shape'
    <3>1. e \in Nat /\ e <= read /\ e \in 2 .. read' /\ HeadEnds(e, reply, read') /\ read' \in e .. read'
      BY <1>2, <2>4 DEF HeadEnds
    <3>2. Exact(client', reply, e, read')
      BY <1>1, <1>2, <2>1, <2>4, <3>1, CopiesMore
    <3>3. DumpedAll' /\ DumpedSome'
      BY <1>1, <2>4, <3>1, <3>2 DEF DumpedAll, DumpedSome
    <3> QED
      BY <1>1, <3>3 DEF Shape
  <2> QED
    BY <2>2, <2>3, <2>4 DEF DumpedAll
<1> QED
  BY <1>3, <1>4

\* The steps that take nothing in, and the rest of a 304.
LEMMA OtherShape ==
    ASSUME CWInv, TypeOK', Shape, PutUpdated \/ HangUp \/ cache_free \/ cache_abort \/ UNCHANGED vars
    PROVE  Shape'
<1>1. TypeOK
  BY DEF CWInv
<1>2. CASE PutUpdated
  <2>1. read <= read' /\ UNCHANGED <<reply, client, outcome, output_stream>> /\ outcome = "open"
        /\ state = "UPDATED" /\ state' = "UPDATED"
    BY <1>1, <1>2 DEF PutUpdated, Arrives, given, sinks, TypeOK
  <2>2. DumpedSome' /\ client = <<>>
    BY <1>1, <2>1, DumpedSomeKept DEF Shape
  <2> QED
    BY <2>1, <2>2 DEF Shape
<1>3. CASE HangUp
  <2>1. /\ UNCHANGED <<reply, announced, http1, read, state, status, buf, header_buf, client, cf,
                       content_length, content_count, outcome>>
        /\ output_stream' = FALSE /\ outcome = "open" /\ read <= read'
    BY <1>1, <1>3 DEF HangUp, given, held, sinks, counts, TypeOK
  <2>2. DumpedSome'
    BY <1>1, <2>1, DumpedSomeKept DEF Shape
  <2>3. state = "HEADERS" => Collecting'
    BY <2>1 DEF Shape, Collecting
  <2>4. \A e \in 2 .. read : CopyingFrom(e) => CopyingFrom(e)'
    BY <2>1 DEF CopyingFrom
  <2>5. state = "COPY_BODY" => \E e \in 2 .. read' : CopyingFrom(e)'
    BY <2>1, <2>4 DEF Shape
  <2> QED
    BY <2>1, <2>2, <2>3, <2>5 DEF Shape
<1>4. CASE cache_free
  <2>1. /\ UNCHANGED <<reply, announced, http1, read, state, status, buf, header_buf, cf,
                       content_length, content_count, output_stream>>
        /\ outcome = "open" /\ read <= read'
        /\ outcome' = (IF state = "COPY_BODY" /\ ~LengthMismatch THEN "created"
                       ELSE IF state = "UPDATED" THEN "not_modified" ELSE "cancel")
    BY <1>1, <1>4 DEF cache_free, given, held, counts, TypeOK
  <2>2. CASE state = "UPDATED"
    <3>1. client = <<>>
      BY <2>1, <2>2 DEF Shape
    <3>2. HTLoadCacheToStream(OldCopy, http1) \in Seq(Piece)
      BY <1>1, OldCopyIsPieces DEF TypeOK
    <3>3. client' = IF output_stream THEN HTLoadCacheToStream(OldCopy, http1) ELSE <<>>
      BY <1>4, <2>2, <3>1, <3>2, NothingBefore DEF cache_free, Put
    <3>4. client' = IF output_stream' THEN HTLoadCacheToStream(OldCopy, http1)' ELSE <<>>
      BY <2>1, <3>3 DEF HTLoadCacheToStream
    <3> QED
      BY <2>1, <2>2, <3>4 DEF Shape
  <2>3. CASE state # "UPDATED"
    <3>1. client' = client /\ outcome' # "not_modified"
      BY <1>4, <2>1, <2>3 DEF cache_free
    <3>2. DumpedSome'
      BY <1>1, <2>1, <3>1, DumpedSomeKept DEF Shape
    <3>3. state = "HEADERS" => Collecting'
      BY <2>1, <3>1 DEF Shape, Collecting
    <3>4. \A e \in 2 .. read : CopyingFrom(e) => CopyingFrom(e)'
      BY <2>1, <3>1 DEF CopyingFrom
    <3>5. state = "COPY_BODY" => \E e \in 2 .. read' : CopyingFrom(e)'
      BY <2>1, <3>4 DEF Shape
    <3>6. state = "JUNK" /\ output_stream => DumpedAll'
      BY <2>1, <3>1 DEF Shape, DumpedAll
    <3>7. outcome' = "created" => state = "COPY_BODY" /\ ~LengthMismatch'
      BY <2>1 DEF LengthMismatch
    <3> QED
      BY <2>1, <2>3, <3>1, <3>2, <3>3, <3>5, <3>6, <3>7 DEF Shape
  <2> QED
    BY <2>2, <2>3
<1>5. CASE cache_abort
  <2>1. /\ UNCHANGED <<reply, read, client>> /\ read <= read'
        /\ outcome = "open" /\ outcome' = "cancel" /\ output_stream' = FALSE /\ state' = "JUNK"
    BY <1>1, <1>5 DEF cache_abort, given, sinks, TypeOK
  <2>2. DumpedSome'
    BY <1>1, <2>1, DumpedSomeKept DEF Shape
  <2> QED
    BY <2>1, <2>2 DEF Shape
<1>6. CASE UNCHANGED vars
  <2> USE <1>6 DEF vars, given, held, sinks, counts
  <2>1. Collecting' = Collecting /\ DumpedAll' = DumpedAll /\ DumpedSome' = DumpedSome
        /\ LengthMismatch' = LengthMismatch
        /\ HTLoadCacheToStream(OldCopy, http1)' = HTLoadCacheToStream(OldCopy, http1)
    BY DEF Collecting, DumpedAll, DumpedSome, LengthMismatch, HTLoadCacheToStream
  <2>2. \A e : CopyingFrom(e)' = CopyingFrom(e)
    BY DEF CopyingFrom
  <2> QED
    BY <2>1, <2>2 DEF Shape
<1> QED
  BY <1>2, <1>3, <1>4, <1>5, <1>6

\* No action starts with lines that are short and goes on from ones that were not.
LEMMA LinesStayShort ==
    ASSUME TypeOK, [Next]_vars, ShortLines'
    PROVE  ShortLines /\ (Arrives => Arriving.ends)
<1>1. reply' = reply /\ read' \in {read, read + 1} /\ read \in Nat
      /\ (Arrives => read' = read + 1)
  BY DEF TypeOK, Next, PutStatusLine, EndOfHeaders200, EndOfHeaders304, EndOfHeadersOther,
         ExpiresImmediately, PutHeader, PutSkip, PutBody, PutJunk, PutUpdated, HangUp,
         cache_free, cache_abort, Arrives, vars, given
<1> QED
  BY <1>1 DEF ShortLines, Arriving

\* Every step keeps the invariant.
LEMMA WriterStep ==
    ASSUME CWInv, [Next]_vars
    PROVE  CWInv'
<1>1. TypeOK /\ TypeOK'
  BY WriterTypeStep DEF CWInv
<1>2. SUFFICES ASSUME ShortLines' PROVE Shape'
  BY <1>1 DEF CWInv
<1>3. Shape /\ (Arrives => Arriving.ends)
  BY <1>1, <1>2, LinesStayShort DEF CWInv
<1>4. CASE PutStatusLine
  BY <1>1, <1>3, <1>4, StatusLineShape DEF PutStatusLine
<1>5. CASE EndOfHeaders200 \/ EndOfHeaders304 \/ EndOfHeadersOther \/ ExpiresImmediately \/ PutHeader
  <2>1. Arrives
    BY <1>5 DEF EndOfHeaders200, EndOfHeaders304, EndOfHeadersOther, ExpiresImmediately, PutHeader
  <2> QED
    BY <1>1, <1>3, <1>5, <2>1, HeadersShape
<1>6. CASE PutSkip
  BY <1>3, <1>6 DEF PutSkip, Shape
<1>7. CASE PutBody
  BY <1>1, <1>3, <1>7, BodyShape
<1>8. CASE PutJunk
  BY <1>1, <1>3, <1>8, JunkShape
<1>9. CASE PutUpdated \/ HangUp \/ cache_free \/ cache_abort \/ UNCHANGED vars
  BY <1>1, <1>3, <1>9, OtherShape
<1> QED
  BY <1>4, <1>5, <1>6, <1>7, <1>8, <1>9 DEF Next

\* The invariant holds before the first piece arrives.
LEMMA WriterInit == Init => CWInv
<1> SUFFICES ASSUME Init PROVE CWInv
  OBVIOUS
<1>1. reply \in Seq(Piece) /\ Len(reply) \in Nat /\ <<>> \in Seq(Piece)
  BY WriterAssumption, LenProperties DEF Init
<1>2. TypeOK
  BY <1>1 DEF Init, TypeOK
<1>3. Copies(<<>>, reply, 0, 0)
  BY NothingCopied
<1>4. DumpedSome
  BY <1>3 DEF Init, DumpedSome
<1>5. Shape
  BY <1>4 DEF Init, Shape
<1> QED
  BY <1>2, <1>5 DEF CWInv

\* The inductive invariant of the writer of the cache.
THEOREM WriterInductive == Spec => []CWInv
<1>1. CWInv /\ [Next]_vars => CWInv'
  BY WriterStep
<1> QED
  BY WriterInit, <1>1, PTL DEF Spec

\* cache_free: what becomes a cached copy is a 200 that has not expired, with its whole
\* body, and as long as its Content-Length says.
THEOREM CachedCopyComplete == Spec => []CopyComplete
<1>1. CWInv => CopyComplete
  <2> SUFFICES ASSUME CWInv, outcome = "created", ShortLines
               PROVE  /\ status = 200
                      /\ Line("expired") \notin ToSet(SubSeq(reply, 1, EndOfHead(Received)))
                      /\ Repeats(cf, Received) \/ cf = Body(Received)
                      /\ content_length > 0 => Len(Body(Received)) = content_length
    BY DEF CopyComplete
  <2>1. TypeOK /\ Shape /\ state = "COPY_BODY" /\ status = 200 /\ ~LengthMismatch
    BY DEF CWInv, Shape
  <2>2. PICK e \in 2 .. read : CopyingFrom(e)
    BY <2>1 DEF Shape
  <2>3. HeadEnds(e, reply, read) /\ EndOfHead(Received) = e /\ Len(Body(Received)) = read - e
        /\ read \in 0 .. read /\ read \in e .. read /\ e \in Nat /\ e <= read /\ read <= Len(reply)
    BY <2>1, <2>2, HeadEndsAt, ReplyType DEF CopyingFrom
  <2>4. Repeats(cf, Received) \/ cf = Body(Received)
    BY <2>1, <2>2, <2>3, RepeatsReceived, ExactIsBody DEF CopyingFrom
  <2>5. content_length > 0 => Len(Body(Received)) = content_length
    BY <2>1, <2>2, <2>3 DEF CopyingFrom, LengthMismatch
  <2>6. Line("expired") \notin ToSet(SubSeq(reply, 1, e))
    <3>1. \A i \in 1 .. e : reply[i] \in Piece
      BY <2>1, <2>3, ReplyType
    <3>2. Len(SubSeq(reply, 1, e)) = e /\ \A i \in 1 .. e : SubSeq(reply, 1, e)[i] = reply[i]
      BY <2>3, <3>1, SubSeqProperties
    <3>3. DOMAIN SubSeq(reply, 1, e) = 1 .. e
      BY <2>3, <3>1, <3>2, SubSeqProperties, LenProperties
    <3>4. \A i \in 1 .. e : reply[i].kind # "expired"
      BY <2>2 DEF CopyingFrom
    <3>5. Line("expired").kind = "expired"
      BY DEF Line
    <3> QED
      BY <3>2, <3>3, <3>4, <3>5 DEF ToSet
  <2> QED
    BY <2>1, <2>3, <2>4, <2>5, <2>6
<1> QED
  BY WriterInductive, <1>1, PTL

\* cache_put_char: the client gets what arrived, in order and once, or what the old copy
\* holds when that is still good.
THEOREM ClientServed == Spec => []ClientGetsReply
<1>1. ASSUME CWInv PROVE ReplyRelayed
  <2> SUFFICES ASSUME ShortLines, output_stream, outcome # "not_modified"
               PROVE  \/ state \in {"STATUS_LINE", "HEADERS", "UPDATED"} /\ client = <<>>
                      \/ state \in {"COPY_BODY", "JUNK"} /\ Repeats(client, Received)
                      \/ state \in {"COPY_BODY", "JUNK"} /\ ~http1 /\ status = 200
                            /\ client = Body(Received)
    BY DEF ReplyRelayed
  <2>1. TypeOK /\ Shape /\ read \in 0 .. read /\ read \in Nat
    BY <1>1, ReplyType DEF CWInv
  <2>2. CASE state \in {"STATUS_LINE", "HEADERS", "UPDATED"}
    BY <2>1, <2>2 DEF Shape, Collecting
  <2>3. CASE state = "JUNK"
    <3>1. DumpedAll
      BY <2>1, <2>3 DEF Shape
    <3>2. ASSUME NEW e \in 2 .. read, HeadEnds(e, reply, read), Exact(client, reply, e, read)
          PROVE  client = Body(Received)
      BY <2>1, <3>2, ExactIsBody
    <3> QED
      BY <2>1, <2>3, <3>1, <3>2, RepeatsReceived DEF DumpedAll
  <2>4. CASE state = "COPY_BODY"
    <3>1. PICK e \in 2 .. read : CopyingFrom(e)
      BY <2>1, <2>4 DEF Shape
    <3>2. HeadEnds(e, reply, read) /\ read \in e .. read
      BY <2>1, <3>1 DEF CopyingFrom
    <3>3. CASE http1
      BY <2>1, <2>4, <3>1, <3>3, RepeatsReceived DEF CopyingFrom
    <3>4. CASE ~http1
      BY <2>1, <2>4, <3>1, <3>2, <3>4, ExactIsBody DEF CopyingFrom, Shape
    <3> QED
      BY <3>3, <3>4
  <2> QED
    BY <2>1, <2>2, <2>3, <2>4 DEF TypeOK, Shape
<1>2. ASSUME CWInv PROVE ClientInOrder
  <2> SUFFICES ASSUME ShortLines, outcome # "not_modified"
               PROVE  Begins(client, Received) \/ Begins(client, Body(Received))
    BY DEF ClientInOrder
  <2>1. TypeOK /\ DumpedSome
    BY <1>2 DEF CWInv, Shape
  <2>2. ASSUME NEW b \in 0 .. read, Copies(client, reply, 0, b) PROVE Begins(client, Received)
    BY <2>1, <2>2, RepeatsReceived
  <2>3. ASSUME NEW e \in 2 .. read, HeadEnds(e, reply, read), NEW b \in e .. read,
               Exact(client, reply, e, b)
        PROVE  Begins(client, Body(Received))
    BY <2>1, <2>3, ExactIsBody
  <2> QED
    BY <2>1, <2>2, <2>3 DEF DumpedSome
<1>3. CWInv => OldCopyServed
  BY DEF CWInv, Shape, OldCopyServed
<1>4. CWInv => ClientGetsReply
  BY <1>1, <1>2, <1>3 DEF ClientGetsReply
<1> QED
  BY WriterInductive, <1>4, PTL

-----------------------------------------------------------------------------
(* The reader of a request                                                    *)

\* What holds of 0, and of each number after one it holds of, holds up to n.
LEMMA HoldsUpTo ==
    ASSUME NEW n \in Nat, NEW T, 0 \in T, \A i \in 1 .. n : i - 1 \in T => i \in T
    PROVE  \A i \in 0 .. n : i \in T
<1> DEFINE out == {i \in 0 .. n : i \notin T}
<1>1. SUFFICES ASSUME out # {} PROVE FALSE
  OBVIOUS
<1>2. out \subseteq Nat
  OBVIOUS
<1>3. PICK m \in out : \A k \in out : m <= k
  <2> HIDE DEF out
  <2> QED
    BY <1>1, <1>2, LeastNatural
<1>4. m \in 1 .. n
  BY <1>3
<1>5. m - 1 \in 0 .. n /\ ~ (m <= m - 1)
  BY <1>4
<1>6. m - 1 \in T
  BY <1>3, <1>5
<1> QED
  BY <1>3, <1>4, <1>6

Text == Seq(Char)
\* What Parsed gives of a text.
Division == [all : Seq(Text), open : Text]

\* The last element of a sequence, and the others.
LEMMA FrontAndLast ==
    ASSUME NEW S, NEW s \in Seq(S), s # <<>>
    PROVE  /\ Len(s) \in Nat \ {0}
           /\ Front(s) \in Seq(S) /\ Len(Front(s)) = Len(s) - 1
           /\ \A i \in 1 .. Len(s) - 1 : Front(s)[i] = s[i]
           /\ Last(s) \in S /\ Last(s) = s[Len(s)] /\ s = Append(Front(s), Last(s))
<1>1. Len(s) \in Nat \ {0} /\ (\A i \in 1 .. Len(s) : s[i] \in S)
  BY EmptySeq
<1>2. Front(s) = SubSeq(s, 1, Len(s) - 1) /\ Last(s) = s[Len(s)]
  BY Zenon DEF Front, Last
<1>3. 1 \in Int /\ Len(s) - 1 \in Int /\ (\A i \in 1 .. Len(s) - 1 : s[i] \in S)
  BY <1>1
<1> DEFINE f == SubSeq(s, 1, Len(s) - 1)
           m == Len(s) - 1
<1>4. /\ f \in Seq(S) /\ Len(f) = IF 1 <= m THEN m - 1 + 1 ELSE 0
      /\ \A i \in 1 .. m - 1 + 1 : f[i] = s[1 + i - 1]
  <2> HIDE DEF m
  <2>1. m \in Int /\ \A i \in 1 .. m : s[i] \in S
    BY <1>3 DEF m
  <2>2. SubSeq(s, 1, m) \in Seq(S) /\ Len(SubSeq(s, 1, m)) = (IF 1 <= m THEN m - 1 + 1 ELSE 0)
        /\ \A i \in 1 .. m - 1 + 1 : SubSeq(s, 1, m)[i] = s[1 + i - 1]
    BY <2>1, SubSeqProperties
  <2> QED
    BY <2>2 DEF m
<1> HIDE DEF f
<1>5. Len(f) = Len(s) - 1 /\ \A i \in 1 .. Len(s) - 1 : f[i] = s[i]
  <2>1. Len(f) = Len(s) - 1
    <3>1. m \in Nat /\ m - 1 + 1 = m /\ (1 <= m \/ m = 0)
      BY <1>1
    <3>2. Len(f) = IF 1 <= m THEN m - 1 + 1 ELSE 0
      BY <1>4
    <3> HIDE DEF m
    <3>3. Len(f) = m
      BY <3>1, <3>2
    <3> QED
      BY <3>3 DEF m
  <2>2. ASSUME NEW i \in 1 .. Len(s) - 1 PROVE f[i] = s[i]
    <3>1. i \in 1 .. m - 1 + 1 /\ 1 + i - 1 = i
      BY <1>1
    <3>2. f[i] = s[1 + i - 1]
      BY <1>4, <3>1
    <3> QED
      BY <3>1, <3>2
  <2> QED
    BY <2>1, <2>2
<1>6. s[Len(s)] \in S
  BY <1>1
<1>7. s = Append(f, s[Len(s)])
  <2>1. /\ Append(f, s[Len(s)]) \in Seq(S) /\ Len(Append(f, s[Len(s)])) = Len(f) + 1
        /\ (\A i \in 1 .. Len(f) : Append(f, s[Len(s)])[i] = f[i])
        /\ Append(f, s[Len(s)])[Len(f) + 1] = s[Len(s)]
    BY <1>4, <1>6, AppendProperties
  <2>2. \A i \in 1 .. Len(s) : s[i] = Append(f, s[Len(s)])[i]
    BY <1>1, <1>5, <2>1
  <2>3. Len(s) = Len(Append(f, s[Len(s)]))
    BY <1>1, <1>5, <2>1
  <2> QED
    BY <2>1, <2>2, <2>3, SeqEqual
<1> QED
  BY <1>1, <1>2, <1>4, <1>5, <1>6, <1>7 DEF f

\* What is appended is the last element.
LEMMA LastOfAppend ==
    ASSUME NEW S, NEW s \in Seq(S), NEW e \in S
    PROVE  Last(Append(s, e)) = e /\ Front(Append(s, e)) = s
<1>1. Append(s, e) \in Seq(S) /\ Append(s, e) # <<>>
  BY AppendProperties
<1>2. /\ Front(Append(s, e)) \in Seq(S) /\ Last(Append(s, e)) \in S
      /\ Append(s, e) = Append(Front(Append(s, e)), Last(Append(s, e)))
  BY <1>1, FrontAndLast
<1> QED
  BY <1>2, AppendInjective

-----------------------------------------------------------------------------
(* What a text says, up to a character                                        *)

\* f gives it up to the k-th.
Parses(text, k, f) ==
    /\ f \in [0 .. k -> Division] /\ f[0] = Nothing
    /\ \A i \in 1 .. k : f[i] = Then(f[i - 1], text[i])

\* A line without its CR.
LEMMA BareType == ASSUME NEW l \in Text PROVE Bare(l) \in Text
BY FrontAndLast DEF Bare, Text

\* Lines with one more.
LEMMA WithLineType ==
    ASSUME NEW all \in Seq(Text), NEW l \in Text
    PROVE  WithLine(all, l) \in Seq(Text) /\ WithLine(all, l) # <<>>
<1>1. CASE Continues(all, l)
  <2>1. Len(all) > 1
    BY <1>1 DEF Continues
  <2>2. all # <<>>
    BY <2>1, EmptySeq
  <2>3. Front(all) \in Seq(Text) /\ Last(all) \in Text
    BY <2>2, FrontAndLast
  <2>4. Last(all) \o l \in Text
    BY <2>3, ConcatProperties DEF Text
  <2> QED
    BY <1>1, <2>3, <2>4, AppendProperties DEF WithLine
<1>2. CASE ~Continues(all, l)
  BY <1>2, AppendProperties DEF WithLine
<1> QED
  BY <1>1, <1>2

\* A character more.
LEMMA ThenIs ==
    ASSUME NEW h \in Division, NEW c \in Char
    PROVE  /\ Then(h, c) \in Division
           /\ c = "LF" => Then(h, c).all = WithLine(h.all, Bare(h.open)) /\ Then(h, c).open = <<>>
           /\ c # "LF" => Then(h, c).all = h.all /\ Then(h, c).open = Append(h.open, c)
<1>1. h.all \in Seq(Text) /\ h.open \in Text
  BY DEF Division
<1>2. /\ WithLine(h.all, Bare(h.open)) \in Seq(Text) /\ Append(h.open, c) \in Text
      /\ <<>> \in Text
  BY <1>1, BareType, WithLineType, AppendProperties, EmptySeq DEF Text
<1>3. CASE c = "LF"
  <2>1. Then(h, c) = [all |-> WithLine(h.all, Bare(h.open)), open |-> <<>>]
    BY <1>3 DEF Then
  <2> QED
    BY <1>2, <1>3, <2>1 DEF Division
<1>4. CASE c # "LF"
  <2>1. Then(h, c) = [all |-> h.all, open |-> Append(h.open, c)]
    BY <1>4 DEF Then
  <2> QED
    BY <1>1, <1>2, <1>4, <2>1 DEF Division
<1> QED
  BY <1>3, <1>4

\* There is one that gives it up to each character.
LEMMA ParsesAll ==
    ASSUME NEW text \in Text
    PROVE  \E f : Parses(text, Len(text), f)
<1> DEFINE T == {k \in 0 .. Len(text) : \E f : Parses(text, k, f)}
<1>1. Len(text) \in Nat /\ \A i \in 1 .. Len(text) : text[i] \in Char
  BY DEF Text
<1>2. 0 \in T
  <2> DEFINE f == [i \in 0 .. 0 |-> Nothing]
  <2>1. Nothing \in Division
    BY EmptySeq DEF Nothing, Division, Text
  <2>2. Parses(text, 0, f)
    BY <2>1 DEF Parses
  <2>3. 0 \in 0 .. Len(text)
    BY <1>1
  <2> HIDE DEF f
  <2> QED
    BY <2>2, <2>3
<1>3. ASSUME NEW i \in 1 .. Len(text), i - 1 \in T PROVE i \in T
  <2>1. PICK f : Parses(text, i - 1, f)
    BY <1>3
  <2>2. i \in Nat /\ i - 1 \in Nat /\ i - 1 \in 0 .. i - 1 /\ i \in 0 .. Len(text)
    BY <1>1, <1>3
  <2> DEFINE g == [j \in 0 .. i |-> IF j = i THEN Then(f[i - 1], text[i]) ELSE f[j]]
  <2>3. Then(f[i - 1], text[i]) \in Division
    <3>1. f[i - 1] \in Division /\ text[i] \in Char
      BY <1>1, <2>1, <2>2 DEF Parses
    <3> QED
      BY <3>1, ThenIs
  <2>4. \A j \in 0 .. i : j # i => j \in 0 .. i - 1
    BY <2>2
  <2>5. g \in [0 .. i -> Division]
    BY <2>1, <2>3, <2>4 DEF Parses
  <2>6. g[0] = Nothing /\ g[i] = Then(f[i - 1], text[i]) /\ \A j \in 0 .. i - 1 : g[j] = f[j]
    <3>1. 0 \in 0 .. i /\ 0 # i /\ i \in 0 .. i /\ \A j \in 0 .. i - 1 : j \in 0 .. i /\ j # i
      BY <2>2
    <3>2. g[0] = f[0] /\ g[i] = Then(f[i - 1], text[i]) /\ \A j \in 0 .. i - 1 : g[j] = f[j]
      BY <3>1
    <3> HIDE DEF g
    <3> QED
      BY <2>1, <3>2 DEF Parses
  <2> HIDE DEF g
  <2>7. ASSUME NEW j \in 1 .. i PROVE g[j] = Then(g[j - 1], text[j])
    <3>1. j = i \/ (j \in 1 .. i - 1 /\ j \in 0 .. i - 1)
      BY <2>2
    <3>2. j - 1 \in 0 .. i - 1
      BY <2>2
    <3>3. ASSUME j \in 1 .. i - 1 PROVE f[j] = Then(f[j - 1], text[j])
      BY <2>1, <3>3 DEF Parses
    <3> QED
      BY <2>6, <3>1, <3>2, <3>3, Zenon
  <2>8. Parses(text, i, g)
    BY <2>5, <2>6, <2>7 DEF Parses
  <2> QED
    BY <2>2, <2>8
<1>4. \A i \in 0 .. Len(text) : i \in T
  <2> HIDE DEF T
  <2> QED
    BY <1>1, <1>2, <1>3, HoldsUpTo
<1>5. Len(text) \in 0 .. Len(text)
  BY <1>1
<1> QED
  BY <1>4, <1>5

\* Parsed is that function.
LEMMA ParsedIs ==
    ASSUME NEW text \in Text
    PROVE  Parses(text, Len(text), Parsed(text))
<1>1. PICK f : Parses(text, Len(text), f)
  BY ParsesAll
<1>2. Len(text) \in Nat
  BY DEF Text
<1> DEFINE F(g) == [k \in 0 .. Len(text) |-> IF k = 0 THEN Nothing ELSE Then(g[k - 1], text[k])]
<1>3. f = F(f)
  <2>1. \A k \in 0 .. Len(text) : f[k] = IF k = 0 THEN Nothing ELSE Then(f[k - 1], text[k])
    <3>1. \A k \in 0 .. Len(text) : k # 0 => k \in 1 .. Len(text)
      BY <1>2
    <3> QED
      BY <1>1, <3>1 DEF Parses
  <2>2. f = [k \in 0 .. Len(text) |-> f[k]]
    BY <1>1 DEF Parses
  <2> QED
    BY <2>1, <2>2
<1>4. Parsed(text) = CHOOSE g : g = F(g)
  BY Zenon DEF Parsed
<1> DEFINE p == CHOOSE g : g = F(g)
<1>5. p = F(p)
  <2> HIDE DEF F
  <2> QED
    BY <1>3, Zenon
<1>6. Parsed(text) = F(Parsed(text))
  BY <1>4, <1>5, Zenon
<1>7. DOMAIN Parsed(text) = 0 .. Len(text)
  BY <1>6
<1>8. \A k \in 0 .. Len(text) :
        Parsed(text)[k] = IF k = 0 THEN Nothing ELSE Then(Parsed(text)[k - 1], text[k])
  <2> DEFINE q == Parsed(text)
  <2>1. q = F(q)
    BY <1>6
  <2> HIDE DEF q
  <2>2. \A k \in 0 .. Len(text) : F(q)[k] = IF k = 0 THEN Nothing ELSE Then(q[k - 1], text[k])
    OBVIOUS
  <2> HIDE DEF F
  <2>3. \A k \in 0 .. Len(text) : q[k] = IF k = 0 THEN Nothing ELSE Then(q[k - 1], text[k])
    BY <2>1, <2>2, Zenon
  <2> QED
    BY <2>3 DEF q
<1> HIDE DEF F, p
<1> DEFINE T == {i \in 0 .. Len(text) : Parsed(text)[i] = f[i]}
<1>9. 0 \in T
  <2>1. 0 \in 0 .. Len(text)
    BY <1>2
  <2> QED
    BY <1>1, <1>8, <2>1 DEF Parses
<1>10. ASSUME NEW i \in 1 .. Len(text), i - 1 \in T PROVE i \in T
  <2>1. i \in 0 .. Len(text) /\ i # 0
    BY <1>2
  <2>2. f[i] = Then(f[i - 1], text[i]) /\ Parsed(text)[i] = Then(Parsed(text)[i - 1], text[i])
    BY <1>1, <1>8, <2>1 DEF Parses
  <2>3. Parsed(text)[i - 1] = f[i - 1]
    BY <1>10
  <2> QED
    BY <2>1, <2>2, <2>3
<1>11. \A i \in 0 .. Len(text) : i \in T
  <2> HIDE DEF T
  <2> QED
    BY <1>2, <1>9, <1>10, HoldsUpTo
<1>12. \A i \in 0 .. Len(text) : Parsed(text)[i] = f[i]
  BY <1>11
<1>13. Parsed(text) = f
  <2>1. Parsed(text) = [i \in 0 .. Len(text) |-> Parsed(text)[i]]
    BY <1>6 DEF F
  <2>2. f = [i \in 0 .. Len(text) |-> f[i]]
    BY <1>1 DEF Parses
  <2> QED
    BY <1>12, <2>1, <2>2
<1> QED
  BY <1>1, <1>13

\* The lines that are complete in the first k characters, and what follows them.
AllTo(text, k) == Parsed(text)[k].all
OpenTo(text, k) == Parsed(text)[k].open

\* Of what type they are.
LEMMA ParsedType ==
    ASSUME NEW text \in Text, NEW k \in 0 .. Len(text)
    PROVE  AllTo(text, k) \in Seq(Text) /\ OpenTo(text, k) \in Text
<1>1. Parsed(text)[k] \in Division
  BY ParsedIs DEF Parses
<1> QED
  BY <1>1 DEF AllTo, OpenTo, Division

\* Before the first character.
LEMMA ParsedFirst ==
    ASSUME NEW text \in Text
    PROVE  AllTo(text, 0) = <<>> /\ OpenTo(text, 0) = <<>>
<1>1. Parsed(text)[0] = Nothing
  BY ParsedIs DEF Parses
<1> QED
  BY <1>1 DEF AllTo, OpenTo, Nothing

\* After one more.
LEMMA ParsedNext ==
    ASSUME NEW text \in Text, NEW k \in 1 .. Len(text)
    PROVE  /\ text[k] = "LF" => /\ AllTo(text, k) = WithLine(AllTo(text, k - 1), Bare(OpenTo(text, k - 1)))
                                /\ OpenTo(text, k) = <<>>
           /\ text[k] # "LF" => /\ AllTo(text, k) = AllTo(text, k - 1)
                                /\ OpenTo(text, k) = Append(OpenTo(text, k - 1), text[k])
<1> DEFINE h == Parsed(text)[k - 1]
<1>1. Len(text) \in Nat /\ text[k] \in Char /\ k - 1 \in 0 .. Len(text)
  BY DEF Text
<1>2. h \in Division /\ Parsed(text)[k] = Then(h, text[k])
  BY <1>1, ParsedIs DEF Parses
<1> HIDE DEF h
<1>3. /\ text[k] = "LF" => Then(h, text[k]).all = WithLine(h.all, Bare(h.open)) /\ Then(h, text[k]).open = <<>>
      /\ text[k] # "LF" => Then(h, text[k]).all = h.all /\ Then(h, text[k]).open = Append(h.open, text[k])
  BY <1>1, <1>2, ThenIs
<1>4. h.all = AllTo(text, k - 1) /\ h.open = OpenTo(text, k - 1)
  BY DEF AllTo, OpenTo, h
<1>5. Then(h, text[k]).all = AllTo(text, k) /\ Then(h, text[k]).open = OpenTo(text, k)
  BY <1>2 DEF AllTo, OpenTo
<1> QED
  BY <1>3, <1>4, <1>5

\* The same, from a character to the next.
LEMMA ParsedAfter ==
    ASSUME NEW text \in Text, NEW p \in Nat, p + 1 \in 1 .. Len(text)
    PROVE  /\ text[p + 1] = "LF" => /\ AllTo(text, p + 1) = WithLine(AllTo(text, p), Bare(OpenTo(text, p)))
                                    /\ OpenTo(text, p + 1) = <<>>
           /\ text[p + 1] # "LF" => /\ AllTo(text, p + 1) = AllTo(text, p)
                                    /\ OpenTo(text, p + 1) = Append(OpenTo(text, p), text[p + 1])
<1>1. PICK k : k = p + 1
  OBVIOUS
<1>2. k \in 1 .. Len(text) /\ k - 1 = p
  BY <1>1
<1>3. /\ text[k] = "LF" => /\ AllTo(text, k) = WithLine(AllTo(text, k - 1), Bare(OpenTo(text, k - 1)))
                          /\ OpenTo(text, k) = <<>>
      /\ text[k] # "LF" => /\ AllTo(text, k) = AllTo(text, k - 1)
                          /\ OpenTo(text, k) = Append(OpenTo(text, k - 1), text[k])
  BY <1>2, ParsedNext
<1> QED
  BY <1>1, <1>2, <1>3, Zenon

\* What follows a text changes nothing in it.
LEMMA ParsedBeginning ==
    ASSUME NEW text \in Text, NEW more \in Text, NEW k \in 0 .. Len(text)
    PROVE  AllTo(text \o more, k) = AllTo(text, k) /\ OpenTo(text \o more, k) = OpenTo(text, k)
<1> DEFINE whole == text \o more
<1>1. /\ whole \in Text /\ Len(whole) = Len(text) + Len(more) /\ Len(text) \in Nat /\ Len(more) \in Nat
      /\ \A i \in 1 .. Len(text) : whole[i] = text[i]
  BY ConcatProperties DEF Text
<1>2. Parses(text, Len(text), Parsed(text)) /\ Parses(whole, Len(whole), Parsed(whole))
  BY <1>1, ParsedIs
<1> HIDE DEF whole
<1> DEFINE T == {i \in 0 .. Len(text) : Parsed(text)[i] = Parsed(whole)[i]}
<1>3. 0 \in T
  <2>1. 0 \in 0 .. Len(text)
    BY <1>1
  <2> QED
    BY <1>2, <2>1 DEF Parses
<1>4. ASSUME NEW i \in 1 .. Len(text), i - 1 \in T PROVE i \in T
  <2>1. i \in 0 .. Len(text) /\ i \in 1 .. Len(whole) /\ whole[i] = text[i]
    BY <1>1
  <2>2. /\ Parsed(text)[i] = Then(Parsed(text)[i - 1], text[i])
        /\ Parsed(whole)[i] = Then(Parsed(whole)[i - 1], whole[i])
    BY <1>2, <2>1 DEF Parses
  <2>3. Parsed(text)[i - 1] = Parsed(whole)[i - 1]
    BY <1>4
  <2> QED
    BY <2>1, <2>2, <2>3
<1>5. \A i \in 0 .. Len(text) : i \in T
  <2> HIDE DEF T
  <2> QED
    BY <1>1, <1>3, <1>4, HoldsUpTo
<1>6. Parsed(text)[k] = Parsed(whole)[k]
  BY <1>5
<1> QED
  BY <1>6 DEF AllTo, OpenTo, whole

\* The last character of what follows the lines is the last one of the text.
LEMMA OpenEndsThere ==
    ASSUME NEW text \in Text, NEW k \in 0 .. Len(text), OpenTo(text, k) # <<>>
    PROVE  k \in 1 .. Len(text) /\ Last(OpenTo(text, k)) = text[k]
<1>1. Len(text) \in Nat
  BY DEF Text
<1>2. k # 0
  BY ParsedFirst
<1>3. k \in 1 .. Len(text) /\ k - 1 \in 0 .. Len(text)
  BY <1>1, <1>2
<1>4. text[k] \in Char /\ OpenTo(text, k - 1) \in Seq(Char)
  BY <1>3, ParsedType DEF Text
<1>5. text[k] # "LF" /\ OpenTo(text, k) = Append(OpenTo(text, k - 1), text[k])
  BY <1>3, ParsedNext
<1> QED
  BY <1>3, <1>4, <1>5, LastOfAppend

\* What follows the first k characters of a text.
LEMMA SuffixMore ==
    ASSUME NEW text \in Text, NEW more \in Text, NEW k \in 0 .. Len(text)
    PROVE  SubSeq(text \o more, k + 1, Len(text \o more)) = SubSeq(text, k + 1, Len(text)) \o more
<1> DEFINE whole == text \o more
           a == SubSeq(whole, k + 1, Len(whole))
           b == SubSeq(text, k + 1, Len(text))
<1>1. /\ whole \in Seq(Char) /\ Len(whole) = Len(text) + Len(more) /\ Len(text) \in Nat /\ Len(more) \in Nat
      /\ \A i \in 1 .. Len(text) + Len(more) :
            whole[i] = IF i <= Len(text) THEN text[i] ELSE more[i - Len(text)]
  BY ConcatProperties DEF Text
<1>2. b \in Seq(Char) /\ Len(b) = Len(text) - k /\ \A i \in 1 .. Len(text) - k : b[i] = text[k + i]
  <2>1. k + 1 \in Int /\ Len(text) \in Int /\ (\A i \in k + 1 .. Len(text) : text[i] \in Char)
    BY <1>1 DEF Text
  <2> QED
    BY <1>1, <2>1, SubSeqProperties
<1> HIDE DEF b
<1>3. a \in Seq(Char) /\ Len(a) = Len(whole) - k /\ \A i \in 1 .. Len(whole) - k : a[i] = whole[k + i]
  <2> HIDE DEF whole
  <2>1. k + 1 \in Int /\ Len(whole) \in Int /\ Len(whole) \in Nat /\ k <= Len(whole)
        /\ (\A i \in k + 1 .. Len(whole) : whole[i] \in Char)
    BY <1>1
  <2> QED
    BY <2>1, SubSeqProperties
<1> HIDE DEF a, whole
<1>4. b \o more \in Seq(Char) /\ Len(b \o more) = Len(b) + Len(more)
      /\ \A i \in 1 .. Len(b) + Len(more) : (b \o more)[i] = IF i <= Len(b) THEN b[i] ELSE more[i - Len(b)]
  BY <1>2, ConcatProperties DEF Text
<1>5. Len(a) = Len(b \o more)
  BY <1>1, <1>2, <1>3, <1>4
<1>6. ASSUME NEW i \in 1 .. Len(a) PROVE a[i] = (b \o more)[i]
  <2>1. /\ i \in 1 .. Len(whole) - k /\ i \in 1 .. Len(b) + Len(more)
        /\ k + i \in 1 .. Len(text) + Len(more)
    BY <1>1, <1>2, <1>3
  <2>2. a[i] = (IF k + i <= Len(text) THEN text[k + i] ELSE more[k + i - Len(text)])
    BY <1>1, <1>3, <2>1
  <2>3. (b \o more)[i] = IF i <= Len(b) THEN b[i] ELSE more[i - Len(b)]
    BY <1>4, <2>1
  <2>4. (k + i <= Len(text) <=> i <= Len(b)) /\ k + i - Len(text) = i - Len(b)
    BY <1>1, <1>2, <2>1
  <2>5. i <= Len(b) => b[i] = text[k + i]
    BY <1>1, <1>2, <2>1
  <2> QED
    BY <2>2, <2>3, <2>4, <2>5
<1>7. a = b \o more
  BY <1>3, <1>4, <1>5, <1>6, SeqEqual
<1> QED
  BY <1>7 DEF a, b, whole

\* How it begins.
LEMMA SuffixTail ==
    ASSUME NEW text \in Text, NEW k \in 0 .. Len(text),
           SubSeq(text, k + 1, Len(text)) # <<>>
    PROVE  /\ k + 1 \in 1 .. Len(text)
           /\ Head(SubSeq(text, k + 1, Len(text))) = text[k + 1]
           /\ Tail(SubSeq(text, k + 1, Len(text))) = SubSeq(text, k + 2, Len(text))
<1>1. Len(text) \in Nat /\ text \in Seq(Char)
  BY DEF Text
<1>2. k < Len(text)
  <2>1. SUFFICES ASSUME ~(k < Len(text)) PROVE FALSE
    OBVIOUS
  <2>2. k + 1 \in Int /\ Len(text) \in Int /\ Len(text) < k + 1
    BY <1>1, <2>1
  <2> QED
    BY <2>2, SubSeqEmpty
<1>3. k + 1 \in 1 .. Len(text) /\ Len(text) \in k + 1 .. Len(text)
  BY <1>1, <1>2
<1>4. k + 1 + 1 = k + 2
  OBVIOUS
<1> DEFINE m == k + 1
<1>5. m \in 1 .. Len(text) /\ Len(text) \in m .. Len(text)
  BY <1>3
<1> HIDE DEF m
<1>6. /\ Head(SubSeq(text, m, Len(text))) = text[m]
      /\ Tail(SubSeq(text, m, Len(text))) = SubSeq(text, m + 1, Len(text))
  BY <1>1, <1>5, HeadTailOfSubSeq
<1> QED
  BY <1>3, <1>4, <1>6 DEF m

-----------------------------------------------------------------------------
(* Lines                                                                      *)

\* A text whose last part is not empty ends as that part does.
LEMMA FrontOfConcat ==
    ASSUME NEW s \in Text, NEW t \in Text, t # <<>>
    PROVE  /\ s \o t \in Text /\ s \o t # <<>>
           /\ Front(s \o t) = s \o Front(t) /\ Last(s \o t) = Last(t)
<1>1. /\ Front(t) \in Seq(Char) /\ Last(t) \in Char /\ t = Append(Front(t), Last(t))
      /\ s \in Seq(Char) /\ <<Last(t)>> \in Seq(Char)
  BY FrontAndLast DEF Text
<1>2. t = Front(t) \o <<Last(t)>>
  BY <1>1, AppendIsConcat
<1> DEFINE f == Front(t)
           e == Last(t)
<1>3. f \in Seq(Char) /\ e \in Char /\ <<e>> \in Seq(Char) /\ t = f \o <<e>> /\ s \in Seq(Char)
  BY <1>1, <1>2
<1> HIDE DEF f, e
<1>4. s \o t = (s \o f) \o <<e>> /\ s \o f \in Seq(Char)
  BY <1>3, ConcatAssociative, ConcatProperties
<1>5. s \o t = Append(s \o f, e)
  BY <1>3, <1>4, AppendIsConcat
<1>6. s \o t \in Text /\ s \o t # <<>>
  BY <1>3, <1>4, <1>5, AppendProperties DEF Text
<1>7. Front(s \o t) = s \o f /\ Last(s \o t) = e
  <2> DEFINE g == s \o f
  <2>1. g \in Seq(Char)
    BY <1>4
  <2> HIDE DEF g
  <2>2. Last(Append(g, e)) = e /\ Front(Append(g, e)) = g
    BY <1>3, <2>1, LastOfAppend
  <2> QED
    BY <1>5, <2>2 DEF g
<1> QED
  BY <1>6, <1>7 DEF f, e

\* One more character.
LEMMA AppendOfConcat ==
    ASSUME NEW s \in Text, NEW t \in Text, NEW c \in Char
    PROVE  /\ s \o Append(t, c) = Append(s \o t, c)
           /\ Append(t, c) \in Text /\ Append(t, c) # <<>> /\ Last(Append(t, c)) = c
           /\ Head(Append(t, c)) = IF t = <<>> THEN c ELSE Head(t)
<1>1. s \in Seq(Char) /\ t \in Seq(Char) /\ <<c>> \in Seq(Char) /\ s \o t \in Seq(Char)
  BY ConcatProperties DEF Text
<1>2. Append(t, c) = t \o <<c>> /\ Append(s \o t, c) = (s \o t) \o <<c>>
  BY <1>1, AppendIsConcat
<1>3. (s \o t) \o <<c>> = s \o (t \o <<c>>)
  BY <1>1, ConcatAssociative
<1>4. Append(t, c) \in Text /\ Append(t, c) # <<>> /\ Last(Append(t, c)) = c
  BY <1>1, AppendProperties, LastOfAppend DEF Text
<1>5. Head(Append(t, c)) = IF t = <<>> THEN c ELSE Head(t)
  BY <1>1, HeadTailAppend
<1> QED
  BY <1>2, <1>3, <1>4, <1>5

\* What does not begin with a CR is not lost with one, and begins as before.
LEMMA BareBegins ==
    ASSUME NEW l \in Text, l # <<>>
    PROVE  /\ Head(l) # "CR" => Bare(l) # <<>>
           /\ Bare(l) # <<>> => Head(Bare(l)) = Head(l)
<1>1. /\ Len(l) \in Nat \ {0} /\ Front(l) \in Seq(Char) /\ Len(Front(l)) = Len(l) - 1
      /\ (\A i \in 1 .. Len(l) - 1 : Front(l)[i] = l[i]) /\ Last(l) = l[Len(l)]
  BY FrontAndLast DEF Text
<1>2. CASE Last(l) # "CR"
  BY <1>2 DEF Bare
<1>3. CASE Last(l) = "CR"
  <2>1. Bare(l) = Front(l)
    BY <1>3 DEF Bare
  <2>2. Head(l) = l[1]
    BY DEF Text
  <2>3. Head(l) # "CR" => Len(l) # 1
    BY <1>1, <1>3, <2>2
  <2>4. Front(l) # <<>> <=> Len(l) # 1
    <3>1. Front(l) = <<>> => Len(Front(l)) = 0
      BY EmptySeq
    <3>2. Front(l) # <<>> => Len(Front(l)) \in Nat \ {0}
      BY <1>1, EmptySeq
    <3> QED
      BY <1>1, <3>1, <3>2
  <2>5. Front(l) # <<>> => Head(Front(l)) = l[1]
    <3>1. SUFFICES ASSUME Front(l) # <<>> PROVE Head(Front(l)) = l[1]
      OBVIOUS
    <3>2. 1 \in 1 .. Len(l) - 1
      BY <1>1, <2>4, <3>1
    <3>3. Front(l)[1] = l[1]
      BY <1>1, <3>2
    <3> DEFINE f == Front(l)
    <3>4. f \in Seq(Char) /\ f # <<>>
      BY <1>1, <3>1
    <3> HIDE DEF f
    <3>5. Head(f) = f[1]
      BY <3>4
    <3> QED
      BY <3>3, <3>5 DEF f
  <2> QED
    BY <2>1, <2>2, <2>3, <2>4, <2>5
<1> QED
  BY <1>2, <1>3

\* One more than something is more than one.
LEMMA MoreThanOne == \A n \in Nat \ {0} : n + 1 > 1
OBVIOUS

\* A number is not the next one.
LEMMA NotOneMore == \A n \in Nat : n # n + 1
OBVIOUS

\* To take one less leaves one more.
LEMMA OneLess == \A n, l \in Nat : n - (l - 1) = (n - l) + 1
OBVIOUS

\* A line that is continued.
LEMMA WithContinuation ==
    ASSUME NEW all \in Seq(Text), NEW first \in Text, NEW l \in Text,
           all # <<>>, l # <<>>, Head(l) = " "
    PROVE  WithLine(Append(all, first), l) = Append(all, first \o l)
<1> DEFINE more == Append(all, first)
<1>1. more \in Seq(Text) /\ Len(more) = Len(all) + 1 /\ Last(more) = first /\ Front(more) = all
  BY AppendProperties, LastOfAppend
<1>2. Len(all) \in Nat \ {0}
  BY EmptySeq
<1> HIDE DEF more
<1>3. Continues(more, l)
  <2>1. Len(all) + 1 > 1
    BY <1>2, MoreThanOne
  <2>2. Len(more) > 1
    BY <1>1, <2>1, Zenon
  <2> QED
    BY <2>2, Zenon DEF Continues
<1>4. WithLine(more, l) = Append(Front(more), Last(more) \o l)
  BY <1>3 DEF WithLine
<1> QED
  BY <1>1, <1>4 DEF more

\* A line that continues none.
LEMMA WithLineOfItsOwn ==
    ASSUME NEW all, NEW l, Len(all) > 1 /\ l # <<>> => Head(l) # " "
    PROVE  WithLine(all, l) = Append(all, l)
BY DEF WithLine, Continues

\* The next character is taken from what is left of a text.
LEMMA NextCharacter ==
    ASSUME NEW text \in Text, NEW r \in Text, r # <<>>, NEW p, p = Len(text) - Len(r), p \in Nat,
           r = SubSeq(text, p + 1, Len(text))
    PROVE  /\ p + 1 \in 1 .. Len(text) /\ p \in 0 .. Len(text)
           /\ text[p + 1] = Head(r) /\ Head(r) \in Char /\ Head(r) \in ToSet(text)
           /\ Tail(r) \in Text /\ Len(text) - Len(Tail(r)) = p + 1
           /\ Tail(r) = SubSeq(text, p + 1 + 1, Len(text))
<1>1. Len(text) \in Nat /\ Len(r) \in Nat \ {0}
  BY EmptySeq DEF Text
<1>2. p \in 0 .. Len(text) /\ p + 1 \in 1 .. Len(text)
  BY <1>1
<1>3. Head(r) = text[p + 1] /\ Tail(r) = SubSeq(text, p + 2, Len(text))
  BY <1>2, SuffixTail
<1>4. p + 1 + 1 = p + 2
  BY <1>1
<1>5. Head(r) \in Char /\ Tail(r) \in Text /\ Len(Tail(r)) = Len(r) - 1
  BY HeadTailProperties DEF Text
<1>6. Len(text) - Len(Tail(r)) = p + 1
  <2>1. Len(text) - (Len(r) - 1) = (Len(text) - Len(r)) + 1
    BY <1>1, OneLess
  <2> QED
    BY <1>5, <2>1, Zenon
<1>7. Head(r) \in ToSet(text)
  <2>1. DOMAIN text = 1 .. Len(text)
    BY DEF Text
  <2>2. ToSet(text) = {text[i] : i \in DOMAIN text}
    BY Zenon DEF ToSet
  <2> QED
    BY <1>2, <1>3, <2>1, <2>2
<1> QED
  BY <1>2, <1>3, <1>4, <1>5, <1>6, <1>7

-----------------------------------------------------------------------------
(* What the reader has of a text                                              *)

\* The values of the variables.
ReaderType ==
    /\ received \in Text /\ rest \in Text /\ piece \in Text
    /\ line \in Text \cup {NoLine}
    /\ lines \in Seq(Text) /\ body \in Text
    /\ cut \in BOOLEAN /\ closed \in BOOLEAN
    /\ prev_cr \in BOOLEAN /\ check_unfold \in BOOLEAN
    /\ parsing \in {"request line", "headers", "body"}
    /\ check_unfold => line # NoLine

\* What HeadAsSent is about.
Intact ==
    ~cut /\ "0" \notin ToSet(received) /\ ~(closed /\ "CR" \in ToSet(received))

\* How far it is, what that says, and what it has itself of the last line.
Place == Len(received) - Len(rest)
Said == AllTo(received, Place)
Open == OpenTo(received, Place)
Held == ascii_cat(piece)

\* It has a line that may go on.
Waiting ==
    /\ check_unfold /\ parsing = "headers" /\ piece = <<>> /\ Open = <<>>
    /\ line # <<>> /\ line # NoLine
    /\ Said = Append(lines, line)

\* It is within a line of its own.
Within ==
    /\ ~check_unfold /\ Held = Open /\ Said = lines
    /\ Len(lines) > 1 =>
          IF Open = <<>> THEN rest # <<>> /\ Head(rest) # " " ELSE Head(Open) # " "

\* It is within a line that continues another.
Continuing ==
    /\ ~check_unfold /\ parsing = "headers" /\ Open # <<>> /\ Head(Open) = " "
    /\ \E first \in Text : Said = Append(lines, first) /\ Held = first \o Open

\* No head is complete in the first k characters of a text.
Incomplete(text, k, withFields) ==
    \A j \in 0 .. k : ~Complete(AllTo(text, j), withFields)

AtLine ==
    /\ body = <<>>
    /\ Place \in Nat /\ rest = SubSeq(received, Place + 1, Len(received))
    /\ prev_cr <=> (Open # <<>> /\ Last(Open) = "CR")
    /\ prev_cr /\ piece = <<>> /\ rest # <<>> => Head(rest) # "LF"
    /\ parsing = "headers" => lines # <<>> /\ Incomplete(received, Place, TRUE)
    /\ parsing = "request line" => lines = <<>> /\ Incomplete(received, Place, FALSE)
    /\ Waiting \/ Within \/ Continuing

\* The client has closed, and the line it left open is one of the lines.
AtClose ==
    /\ rest = <<>> /\ piece = <<>> /\ line = NoLine
    /\ parsing = "headers" /\ lines # <<>>
    /\ \E k \in {Len(received), Len(received) + 1} :
          /\ lines = AllTo(Sent, k) /\ OpenTo(Sent, k) = <<>>
          /\ Incomplete(Sent, k, TRUE)

\* It has the whole head, which ends with the next character after p.
AtBody ==
    \E p \in Nat :
       /\ p + 1 \in 1 .. Len(Sent)
       /\ Complete(AllTo(Sent, p + 1), Len(lines) > 1)
       /\ Incomplete(Sent, p, Len(lines) > 1)
       /\ lines = AllTo(Sent, p + 1)
       /\ ~closed => body \o rest = SubSeq(received, p + 1 + 1, Len(received))

\* Inductive: the reader has read what was sent up to some place.
ReadInv ==
    /\ ReaderType
    /\ Intact => /\ Reading /\ ~closed => AtLine
                 /\ Reading /\ closed => AtClose
                 /\ ~Reading => AtBody

\* A block is a text.
LEMMA BlockIsText == \A block \in Blocks : block \in Text /\ block # <<>>
<1> SUFFICES ASSUME NEW block \in Blocks PROVE block \in Text
  BY DEF Blocks
<1>1. block \in UNION {[1 .. m -> Char] : m \in 0 .. MaxBlock}
  BY Zenon DEF Blocks, BoundedSeq, SeqOf
<1>2. PICK m \in 0 .. MaxBlock : block \in [1 .. m -> Char]
  BY <1>1
<1>3. m \in Nat
  BY <1>2
<1>4. block = [i \in 1 .. m |-> block[i]] /\ \A i \in 1 .. m : block[i] \in Char
  BY <1>2
<1> DEFINE e(i) == block[i]
<1>5. [i \in 1 .. m |-> e(i)] \in Seq(Char)
  <2>1. \A i \in 1 .. m : e(i) \in Char
    BY <1>4
  <2> HIDE DEF e
  <2> QED
    BY <1>3, <2>1, IsASeq
<1> QED
  BY <1>4, <1>5 DEF Text

\* That there is no line is not a line.
LEMMA NoLineIsNoText == NoLine \notin Text
<1>1. SUFFICES ASSUME NoLine \in Text PROVE FALSE
  OBVIOUS
<1>2. Len(NoLine) = 1 /\ NoLine[1] = "no line"
  BY DEF NoLine
<1>3. NoLine[1] \in Char
  <2>1. NoLine \in Seq(Char)
    BY <1>1, Zenon DEF Text
  <2>2. 1 \in 1 .. 1
    OBVIOUS
  <2>3. 1 \in 1 .. Len(NoLine)
    BY <1>2, <2>2, Zenon
  <2> QED
    BY <2>1, <2>3, ElementOfSeq, Zenon
<1> QED
  BY <1>2, <1>3 DEF Char

\* What is held of a line.
Begun == IF line = NoLine THEN <<>> ELSE line

\* ascii_cat: to the line, or to an empty one when none has been begun.
LEMMA CatIs ==
    ASSUME ReaderType, NEW t \in Text
    PROVE  Begun \in Text /\ ascii_cat(t) = Begun \o t /\ ascii_cat(t) \in Text
<1>1. <<>> \in Text
  BY EmptySeq DEF Text
<1>2. Begun \in Text
  BY <1>1 DEF Begun, ReaderType
<1>3. ascii_cat(t) = Begun \o t
  BY Zenon DEF ascii_cat, Begun
<1> QED
  BY <1>2, <1>3, ConcatProperties DEF Text

\* A line that is given away.
LEMMA TakesType ==
    ASSUME ReaderType, NEW l \in Text, Takes(l)
    PROVE  /\ lines' \in Seq(Text) /\ lines' # <<>>
           /\ line' = NoLine /\ prev_cr' = FALSE /\ check_unfold' = FALSE
           /\ parsing' \in {"headers", "body"}
<1>1. lines' = Append(lines, l)
  BY DEF Takes
<1>2. lines' \in Seq(Text) /\ lines' # <<>>
  <2>1. lines \in Seq(Text)
    BY DEF ReaderType
  <2>2. Append(lines, l) \in Seq(Text) /\ Append(lines, l) # <<>>
    BY <2>1, AppendProperties, Zenon
  <2> QED
    BY <1>1, <2>2
<1>3. parsing' \in {"headers", "body"}
  BY DEF Takes
<1> QED
  BY <1>2, <1>3 DEF Takes

\* Every step keeps the types.
LEMMA ReaderTypeStep ==
    ASSUME ReaderType, [ReaderNext]_readerVars
    PROVE  ReaderType'
<1>0. <<>> \in Text
  BY EmptySeq DEF Text
<1> USE DEF ReaderType
<1>1. ASSUME NEW block \in Blocks, fill_in_buffer(block) PROVE ReaderType'
  <2>1. block \in Text
    BY BlockIsText
  <2>2. received' \in Text
    BY <1>1, <2>1, ConcatProperties DEF fill_in_buffer, Reads, Text
  <2>3. line' \in Text /\ line' # NoLine
    BY <1>1, CatIs, NoLineIsNoText DEF fill_in_buffer
  <2>4. cut' \in BOOLEAN
    BY <1>1 DEF fill_in_buffer, Reads
  <2> QED
    BY <1>0, <1>1, <2>1, <2>2, <2>3, <2>4 DEF fill_in_buffer, Reads
<1>2. CASE EndOfInput
  <2>1. ascii_cat(piece) \in Text
    BY CatIs
  <2>2. Takes(ascii_cat(piece))
    BY <1>2 DEF EndOfInput
  <2> QED
    BY <1>0, <1>2, <2>1, <2>2, TakesType DEF EndOfInput
<1>3. CASE ReadZero
  <2>1. piece \o rest \in Text
    BY ConcatProperties DEF Text
  <2> QED
    BY <1>0, <1>3, <2>1 DEF ReadZero
<1>4. CASE Unfolded
  <2>1. line \in Text /\ Takes(line)
    BY <1>4 DEF Unfolded
  <2> QED
    BY <1>4, <2>1, TakesType DEF Unfolded
<1>5. CASE OrdinaryCharacter
  <2>1. Head(rest) \in Char /\ Tail(rest) \in Text /\ Append(piece, Head(rest)) \in Text
    BY <1>5, HeadTailProperties, AppendProperties DEF OrdinaryCharacter, Text
  <2>2. (Head(rest) = "CR") \in BOOLEAN
    OBVIOUS
  <2> QED
    BY <1>5, <2>1, <2>2 DEF OrdinaryCharacter
<1>6. CASE LineFeed
  <2> DEFINE l == ascii_cat(WithoutCR(piece))
  <2>1. WithoutCR(piece) \in Text
    BY FrontAndLast DEF WithoutCR, Text
  <2>2. l \in Text /\ l # NoLine
    BY <2>1, CatIs, NoLineIsNoText
  <2>3. Tail(rest) \in Text
    BY <1>6, HeadTailProperties DEF LineFeed, Text
  <2>4. CASE parsing = "headers" /\ l # <<>>
    <3>1. /\ rest' = Tail(rest) /\ piece' = <<>> /\ line' = l /\ prev_cr' = FALSE /\ check_unfold' = TRUE
          /\ UNCHANGED <<parsing, lines, received, cut, closed, body>>
      BY <1>6, <2>4 DEF LineFeed
    <3> HIDE DEF l
    <3> QED
      BY <1>0, <2>2, <2>3, <3>1
  <2>5. CASE ~(parsing = "headers" /\ l # <<>>)
    <3>1. /\ rest' = Tail(rest) /\ piece' = <<>> /\ Takes(l)
          /\ UNCHANGED <<received, cut, closed, body>>
      BY <1>6, <2>5 DEF LineFeed
    <3> HIDE DEF l
    <3> QED
      BY <1>0, <2>2, <2>3, <3>1, TakesType
  <2> QED
    BY <2>4, <2>5
<1>7. CASE HTInputSocket_getBlock
  <2>1. body \o rest \in Text
    BY ConcatProperties DEF Text
  <2> QED
    BY <1>0, <1>7, <2>1 DEF HTInputSocket_getBlock
<1>8. ASSUME NEW block \in Blocks, ReadBlock(block) PROVE ReaderType'
  <2>1. block \in Text
    BY BlockIsText
  <2>2. received' \in Text /\ body' \in Text
    BY <1>8, <2>1, ConcatProperties DEF ReadBlock, Reads, Text
  <2>3. cut' \in BOOLEAN
    BY <1>8 DEF ReadBlock, Reads
  <2> QED
    BY <1>8, <2>2, <2>3 DEF ReadBlock, Reads, buffer
<1>9. CASE UNCHANGED readerVars
  BY <1>9 DEF readerVars, buffer
<1> QED
  BY <1>1, <1>2, <1>3, <1>4, <1>5, <1>6, <1>7, <1>8, <1>9 DEF ReaderNext

\* The reader's invariant holds at the beginning.
LEMMA ReaderInitInv == ReaderInit => ReadInv
<1> SUFFICES ASSUME ReaderInit PROVE ReadInv
  OBVIOUS
<1>1. /\ received = <<>> /\ cut = FALSE /\ closed = FALSE /\ rest = <<>> /\ piece = <<>> /\ line = NoLine
      /\ prev_cr = FALSE /\ check_unfold = FALSE
      /\ parsing = "request line" /\ lines = <<>> /\ body = <<>>
  BY DEF ReaderInit
<1>2. <<>> \in Text /\ <<>> \in Seq(Text) /\ Len(<<>>) = 0
  BY EmptySeq DEF Text
<1>3. ReaderType
  BY <1>1, <1>2 DEF ReaderType
<1>4. Place = 0
  <2>1. Len(received) = 0 /\ Len(rest) = 0
    BY <1>1, <1>2
  <2>2. 0 - 0 = 0
    OBVIOUS
  <2> QED
    BY <2>1, <2>2, Zenon DEF Place
<1>5. AllTo(received, 0) = <<>> /\ OpenTo(received, 0) = <<>>
  BY <1>1, <1>2, ParsedFirst
<1>6. Said = <<>> /\ Open = <<>>
  BY <1>4, <1>5 DEF Said, Open
<1>7. Held = <<>>
  <2>1. Begun = <<>> /\ Held = Begun \o piece
    BY <1>1, <1>3, CatIs DEF Begun, Held, ReaderType
  <2>2. <<>> \o <<>> = <<>>
    BY <1>2, ConcatEmptySeq
  <2> QED
    BY <1>1, <2>1, <2>2
<1>8. AtLine
  <2>1. rest = SubSeq(received, Place + 1, Len(received))
    <3>1. 0 + 1 \in Int /\ 0 \in Int /\ 0 < 0 + 1
      OBVIOUS
    <3>2. SubSeq(<<>>, 0 + 1, 0) = <<>>
      BY <3>1, SubSeqEmpty
    <3> QED
      BY <1>1, <1>2, <1>4, <3>2
  <2>2. Within
    <3>1. ~(Len(lines) > 1)
      <4>1. Len(lines) = 0
        BY <1>1, <1>2, Zenon
      <4>2. ~(0 > 1)
        OBVIOUS
      <4> QED
        BY <4>1, <4>2, Zenon
    <3> QED
      BY <1>1, <1>6, <1>7, <3>1, Zenon DEF Within
  <2>3. Incomplete(received, Place, FALSE)
    <3>1. \A j \in 0 .. 0 : j = 0
      OBVIOUS
    <3>2. ~Complete(AllTo(received, 0), FALSE)
      BY <1>5 DEF Complete
    <3> QED
      BY <1>4, <3>1, <3>2 DEF Incomplete
  <2> QED
    BY <1>1, <1>4, <1>6, <2>1, <2>2, <2>3 DEF AtLine
<1>9. Reading /\ ~closed
  BY <1>1 DEF Reading
<1> QED
  BY <1>3, <1>8, <1>9 DEF ReadInv

\* The characters of a text are characters of all that goes on from it.
LEMMA ToSetMore ==
    ASSUME NEW text \in Text, NEW more \in Text, NEW c \in ToSet(text)
    PROVE  c \in ToSet(text \o more)
<1>1. /\ Len(text) \in Nat /\ Len(more) \in Nat /\ DOMAIN text = 1 .. Len(text)
      /\ DOMAIN (text \o more) = 1 .. Len(text) + Len(more)
      /\ \A i \in 1 .. Len(text) : (text \o more)[i] = text[i]
  BY ConcatProperties DEF Text
<1>2. ToSet(text) = {text[i] : i \in DOMAIN text}
  BY Zenon DEF ToSet
<1>3. ToSet(text \o more) = {(text \o more)[i] : i \in DOMAIN (text \o more)}
  BY Zenon DEF ToSet
<1>4. PICK i \in 1 .. Len(text) : c = text[i]
  BY <1>1, <1>2
<1>5. i \in 1 .. Len(text) + Len(more)
  BY <1>1, <1>4
<1> QED
  BY <1>1, <1>3, <1>4, <1>5

\* What is intact was so before.
LEMMA IntactBefore ==
    ASSUME ReaderType, [ReaderNext]_readerVars, Intact'
    PROVE  Intact
<1>1. ASSUME NEW block \in Blocks, Reads(block) PROVE Intact
  <2>1. block \in Text /\ received \in Text /\ received' = received \o block
    BY <1>1, BlockIsText DEF Reads, ReaderType
  <2>2. "0" \notin ToSet(received)
    BY <2>1, ToSetMore DEF Intact
  <2>3. ~cut /\ ~closed
    BY <1>1 DEF Reads, Intact
  <2> QED
    BY <2>2, <2>3 DEF Intact
<1>2. ASSUME UNCHANGED <<received, cut>>, closed => closed' PROVE Intact
  BY <1>2 DEF Intact
<1>3. ASSUME NEW block \in Blocks, fill_in_buffer(block) PROVE Intact
  BY <1>1, <1>3 DEF fill_in_buffer
<1>4. CASE EndOfInput
  BY <1>2, <1>4 DEF EndOfInput
<1>5. CASE ReadZero
  BY <1>2, <1>5 DEF ReadZero
<1>6. CASE Unfolded
  BY <1>2, <1>6 DEF Unfolded
<1>7. CASE OrdinaryCharacter
  BY <1>2, <1>7 DEF OrdinaryCharacter
<1>8. CASE LineFeed
  <2>1. UNCHANGED <<received, cut, closed>>
    BY <1>8 DEF LineFeed
  <2> QED
    BY <1>2, <2>1
<1>9. CASE HTInputSocket_getBlock
  BY <1>2, <1>9 DEF HTInputSocket_getBlock
<1>10. ASSUME NEW block \in Blocks, ReadBlock(block) PROVE Intact
  BY <1>1, <1>10 DEF ReadBlock
<1>11. CASE UNCHANGED readerVars
  BY <1>2, <1>11 DEF readerVars
<1> QED
  BY <1>3, <1>4, <1>5, <1>6, <1>7, <1>8, <1>9, <1>10, <1>11, Zenon DEF ReaderNext

-----------------------------------------------------------------------------
(* The steps of the reader                                                    *)

\* It gets a block.
LEMMA FillKeeps ==
    ASSUME ReadInv, Intact, Intact', NEW block \in Blocks, fill_in_buffer(block)
    PROVE  AtLine' /\ Reading' /\ ~closed'
<1>1. /\ Reading /\ rest = <<>> /\ ~closed /\ closed' = closed
      /\ received' = received \o block /\ rest' = block /\ piece' = <<>> /\ line' = ascii_cat(piece)
      /\ cut' = (cut \/ (received # <<>> /\ Last(received) = "CR" /\ Head(block) = "LF"))
      /\ UNCHANGED <<prev_cr, check_unfold, parsing, lines, body>>
  BY DEF fill_in_buffer, Reads
<1>2. /\ ReaderType /\ AtLine /\ block \in Text /\ block # <<>>
      /\ received \in Text /\ piece \in Text
  BY <1>1, BlockIsText DEF ReadInv, ReaderType
<1>3. Reading'
  BY <1>1 DEF Reading
<1>4. /\ Place = Len(received) /\ Len(received) \in Nat /\ Place \in 0 .. Len(received)
      /\ Place' = Place
  <2>1. Len(rest) = 0
    BY <1>1, EmptySeq
  <2>2. Len(received') = Len(received) + Len(block) /\ Len(block) \in Nat /\ Len(received) \in Nat
    BY <1>1, <1>2, ConcatProperties DEF Text
  <2>3. Place = Len(received)
    BY <2>1, <2>2 DEF Place
  <2>4. Place' = Len(received)
    BY <1>1, <2>2 DEF Place
  <2> QED
    BY <2>2, <2>3, <2>4
<1>5. \A k \in 0 .. Place : AllTo(received', k) = AllTo(received, k) /\ OpenTo(received', k) = OpenTo(received, k)
  BY <1>1, <1>2, <1>4, ParsedBeginning
<1>6. Said' = Said /\ Open' = Open
  <2>1. Said' = AllTo(received', Place) /\ Open' = OpenTo(received', Place)
    BY <1>4 DEF Said, Open
  <2> QED
    BY <1>4, <1>5, <2>1 DEF Said, Open
<1>7. Held' = Held /\ line' = Held /\ Held \in Text
  <2>1. Held \in Text /\ line' = Held /\ Held # NoLine
    BY <1>1, <1>2, CatIs, NoLineIsNoText DEF Held
  <2>2. Held' = Held \o <<>>
    BY <1>1, <2>1 DEF Held, ascii_cat
  <2> QED
    BY <2>1, <2>2, ConcatEmptySeq DEF Text
<1>8. rest' = SubSeq(received', Place' + 1, Len(received'))
  <2>1. SubSeq(received, Place + 1, Len(received)) = <<>>
    BY <1>1, <1>2 DEF AtLine
  <2>2. SubSeq(received \o block, Place + 1, Len(received \o block)) = <<>> \o block
    BY <1>2, <1>4, <2>1, SuffixMore
  <2>3. <<>> \o block = block
    BY <1>2, ConcatEmptySeq DEF Text
  <2> QED
    BY <1>1, <1>4, <2>2, <2>3
<1>9. prev_cr' /\ piece' = <<>> /\ rest' # <<>> => Head(rest') # "LF"
  <2>1. SUFFICES ASSUME prev_cr PROVE Head(block) # "LF"
    BY <1>1
  <2>2. Open # <<>> /\ Last(Open) = "CR"
    BY <1>2, <2>1 DEF AtLine
  <2>3. Place \in 1 .. Len(received) /\ Last(Open) = received[Place]
    BY <1>2, <1>4, <2>2, OpenEndsThere DEF Open
  <2>4. received # <<>> /\ Last(received) = "CR"
    BY <1>4, <2>2, <2>3, EmptySeq DEF Last
  <2> QED
    BY <1>1, <2>4 DEF Intact
<1>10. Incomplete(received, Place, TRUE) => Incomplete(received', Place', TRUE)
  BY <1>4, <1>5 DEF Incomplete
<1>11. Incomplete(received, Place, FALSE) => Incomplete(received', Place', FALSE)
  BY <1>4, <1>5 DEF Incomplete
<1>12. (Waiting \/ Within \/ Continuing)'
  <2>1. CASE Waiting
    <3>1. Held = line
      <4>1. Held = line \o <<>> /\ line \in Text
        BY <1>2, <2>1 DEF Waiting, Held, ascii_cat, ReaderType
      <4> QED
        BY <4>1, ConcatEmptySeq DEF Text
    <3>2. line' = line
      BY <1>7, <3>1
    <3> QED
      BY <1>1, <1>6, <2>1, <3>2 DEF Waiting
  <2>2. CASE Within
    <3>1. Len(lines) > 1 => Open # <<>> /\ Head(Open) # " "
      BY <1>1, <2>2 DEF Within
    <3> QED
      BY <1>1, <1>6, <1>7, <2>2, <3>1 DEF Within
  <2>3. CASE Continuing
    BY <1>1, <1>6, <1>7, <2>3 DEF Continuing
  <2> QED
    BY <1>2, <2>1, <2>2, <2>3 DEF AtLine
<1>13. AtLine'
  <2>1. /\ body = <<>> /\ Place \in Nat
        /\ prev_cr <=> (Open # <<>> /\ Last(Open) = "CR")
        /\ parsing = "headers" => lines # <<>> /\ Incomplete(received, Place, TRUE)
        /\ parsing = "request line" => lines = <<>> /\ Incomplete(received, Place, FALSE)
    BY <1>2 DEF AtLine
  <2>2. body' = <<>> /\ Place' \in Nat
    BY <1>1, <1>4, <2>1
  <2>3. prev_cr' <=> (Open' # <<>> /\ Last(Open') = "CR")
    BY <1>1, <1>6, <2>1
  <2>4. parsing' = "headers" => lines' # <<>> /\ Incomplete(received', Place', TRUE)
    BY <1>1, <1>10, <2>1
  <2>5. parsing' = "request line" => lines' = <<>> /\ Incomplete(received', Place', FALSE)
    BY <1>1, <1>11, <2>1
  <2> QED
    BY <1>8, <1>9, <1>12, <2>2, <2>3, <2>4, <2>5 DEF AtLine
<1> QED
  BY <1>1, <1>3, <1>13

\* Where the reader has something to read.
LEMMA AtCharacter ==
    ASSUME ReadInv, Intact, Reading, rest # <<>>
    PROVE  /\ ReaderType /\ ~closed /\ AtLine /\ received \in Text
           /\ Place \in Nat /\ Place + 1 \in 1 .. Len(received) /\ Place \in 0 .. Len(received)
           /\ Place + 1 \in Nat /\ Place + 1 \in 0 .. Len(received) /\ Place + 1 - 1 = Place
           /\ received[Place + 1] = Head(rest) /\ Head(rest) \in Char /\ Head(rest) # "0"
           /\ Tail(rest) \in Text /\ Len(received) - Len(Tail(rest)) = Place + 1
           /\ Tail(rest) = SubSeq(received, Place + 1 + 1, Len(received))
           /\ Said \in Seq(Text) /\ Open \in Text
<1>1. ReaderType /\ received \in Text /\ rest \in Text
  BY DEF ReadInv, ReaderType
<1>2. ~closed /\ AtLine
  BY DEF ReadInv, AtClose
<1>3. Place \in Nat /\ rest = SubSeq(received, Place + 1, Len(received))
  BY <1>2 DEF AtLine
<1>4. Place = Len(received) - Len(rest)
  BY DEF Place
<1> HIDE DEF Place
<1>5. /\ Place + 1 \in 1 .. Len(received) /\ Place \in 0 .. Len(received)
      /\ received[Place + 1] = Head(rest) /\ Head(rest) \in Char /\ Head(rest) \in ToSet(received)
      /\ Tail(rest) \in Text /\ Len(received) - Len(Tail(rest)) = Place + 1
      /\ Tail(rest) = SubSeq(received, Place + 1 + 1, Len(received))
  BY <1>1, <1>3, <1>4, NextCharacter
<1>6. Head(rest) # "0"
  BY <1>5 DEF Intact
<1>7. Place + 1 \in Nat /\ Place + 1 \in 0 .. Len(received) /\ Place + 1 - 1 = Place
  BY <1>3, <1>5
<1>8. Said \in Seq(Text) /\ Open \in Text
  BY <1>1, <1>5, ParsedType DEF Said, Open
<1> QED
  BY <1>1, <1>2, <1>3, <1>5, <1>6, <1>7, <1>8

\* It takes a character.
LEMMA CharacterKeeps ==
    ASSUME ReadInv, Intact, OrdinaryCharacter
    PROVE  AtLine' /\ Reading' /\ ~closed'
<1> DEFINE c == Head(rest)
<1>1. /\ Reading /\ rest # <<>> /\ c \notin {"0", "LF"} /\ (check_unfold => c = " ")
      /\ check_unfold' = FALSE /\ prev_cr' = (c = "CR") /\ piece' = Append(piece, c) /\ rest' = Tail(rest)
      /\ UNCHANGED <<received, cut, closed, line, parsing, lines, body>>
  BY DEF OrdinaryCharacter
<1>2. /\ ReaderType /\ ~closed /\ AtLine /\ received \in Text
      /\ Place \in Nat /\ Place + 1 \in 1 .. Len(received) /\ Place \in 0 .. Len(received)
      /\ Place + 1 \in Nat /\ Place + 1 \in 0 .. Len(received) /\ Place + 1 - 1 = Place
      /\ received[Place + 1] = c /\ c \in Char /\ Tail(rest) \in Text
      /\ Len(received) - Len(Tail(rest)) = Place + 1
      /\ Tail(rest) = SubSeq(received, Place + 1 + 1, Len(received))
      /\ Said \in Seq(Text) /\ Open \in Text
  BY <1>1, AtCharacter
<1> HIDE DEF c
<1>3. Place' = Place + 1
  BY <1>1, <1>2 DEF Place
<1>4. Said' = Said /\ Open' = Append(Open, c)
  <2>1. Said' = AllTo(received, Place + 1) /\ Open' = OpenTo(received, Place + 1)
    BY <1>1, <1>3 DEF Said, Open
  <2>2. received[Place + 1] # "LF"
    BY <1>1, <1>2
  <2>3. /\ AllTo(received, Place + 1) = AllTo(received, Place)
        /\ OpenTo(received, Place + 1) = Append(OpenTo(received, Place), received[Place + 1])
    BY <1>2, <2>2, ParsedAfter
  <2> QED
    BY <1>2, <2>1, <2>3, Zenon DEF Said, Open
<1>5. /\ Open' # <<>> /\ Last(Open') = c /\ Head(Open') = IF Open = <<>> THEN c ELSE Head(Open)
  BY <1>2, <1>4, AppendOfConcat
<1>6. piece' # <<>> /\ Held' = Append(Held, c) /\ Held = Begun \o piece /\ Begun \in Text /\ piece \in Text
  <2>1. piece \in Text
    BY <1>2 DEF ReaderType
  <2>2. Held = Begun \o piece /\ Begun \in Text
    BY <1>2, <2>1, CatIs DEF Held
  <2>3. Held' = Begun \o piece'
    BY <1>1, Zenon DEF Held, ascii_cat, Begun
  <2>4. Begun \o Append(piece, c) = Append(Begun \o piece, c) /\ Append(piece, c) # <<>>
    <3>1. Begun \in Text /\ piece \in Text /\ c \in Char
      BY <1>2, <2>1, <2>2
    <3> QED
      BY <3>1, AppendOfConcat
  <2> QED
    BY <1>1, <2>1, <2>2, <2>3, <2>4
<1>7. ASSUME NEW withFields, Incomplete(received, Place, withFields)
      PROVE  Incomplete(received', Place', withFields)
  <2>1. SUFFICES ASSUME NEW j \in 0 .. Place + 1 PROVE ~Complete(AllTo(received, j), withFields)
    BY <1>1, <1>3 DEF Incomplete
  <2>2. j \in 0 .. Place \/ j = Place + 1
    BY <1>2
  <2>3. AllTo(received, Place + 1) = AllTo(received, Place) /\ Place \in 0 .. Place
    <3>1. Place \in 0 .. Place
      BY <1>2
    <3>2. Said' = AllTo(received, Place + 1)
      BY <1>1, <1>3 DEF Said
    <3> QED
      BY <1>4, <3>1, <3>2 DEF Said
  <2> QED
    BY <1>7, <2>2, <2>3, Zenon DEF Incomplete
<1>8. (Waiting \/ Within \/ Continuing)'
  <2>1. CASE Waiting
    <3>1. /\ check_unfold /\ c = " " /\ parsing = "headers" /\ piece = <<>> /\ Open = <<>>
          /\ line # NoLine /\ Said = Append(lines, line)
      BY <1>1, <2>1 DEF Waiting
    <3>2. line \in Text /\ Begun = line
      BY <1>2, <3>1 DEF ReaderType, Begun
    <3>3. Held' = line \o Open'
      <4>1. line \o Append(Open, c) = Append(line \o Open, c)
        BY <1>2, <3>2, AppendOfConcat
      <4> QED
        BY <1>4, <1>6, <3>1, <3>2, <4>1, Zenon
    <3>4. Said' = Append(lines', line)
      BY <1>1, <1>4, <3>1
    <3>5. Head(Open') = " "
      BY <1>5, <3>1
    <3>6. /\ ~check_unfold' /\ parsing' = "headers" /\ Open' # <<>>
      BY <1>1, <1>5, <3>1
    <3> QED
      BY <3>2, <3>3, <3>4, <3>5, <3>6 DEF Continuing
  <2>2. CASE Within
    <3>1. /\ Held = Open /\ Said = lines
          /\ Len(lines) > 1 => IF Open = <<>> THEN c # " " ELSE Head(Open) # " "
      BY <2>2 DEF Within, c
    <3>2. Held' = Open' /\ Said' = lines' /\ ~check_unfold'
      BY <1>1, <1>4, <1>6, <3>1
    <3>3. Len(lines') > 1 => Head(Open') # " "
      BY <1>1, <1>5, <3>1
    <3> QED
      BY <1>5, <3>2, <3>3, Zenon DEF Within
  <2>3. CASE Continuing
    <3>1. /\ parsing = "headers" /\ Open # <<>> /\ Head(Open) = " "
      BY <2>3 DEF Continuing
    <3>2. PICK first \in Text : Said = Append(lines, first) /\ Held = first \o Open
      BY <2>3 DEF Continuing
    <3>3. first \o Append(Open, c) = Append(first \o Open, c)
      BY <1>2, AppendOfConcat
    <3>4. Held' = first \o Open' /\ Said' = Append(lines', first)
      BY <1>1, <1>4, <1>6, <3>2, <3>3
    <3>5. ~check_unfold' /\ parsing' = "headers" /\ Open' # <<>> /\ Head(Open') = " "
      BY <1>1, <1>5, <3>1
    <3> QED
      BY <3>4, <3>5 DEF Continuing
  <2> QED
    BY <1>2, <2>1, <2>2, <2>3 DEF AtLine
<1>9. AtLine'
  <2>1. /\ body = <<>>
        /\ parsing = "headers" => lines # <<>> /\ Incomplete(received, Place, TRUE)
        /\ parsing = "request line" => lines = <<>> /\ Incomplete(received, Place, FALSE)
    BY <1>2 DEF AtLine
  <2>2. body' = <<>> /\ Place' \in Nat
    BY <1>1, <1>2, <1>3, <2>1, Zenon
  <2>3. prev_cr' <=> (Open' # <<>> /\ Last(Open') = "CR")
    BY <1>1, <1>5
  <2>4. parsing' = "headers" => lines' # <<>> /\ Incomplete(received', Place', TRUE)
    BY <1>1, <1>7, <2>1
  <2>5. parsing' = "request line" => lines' = <<>> /\ Incomplete(received', Place', FALSE)
    BY <1>1, <1>7, <2>1
  <2>6. rest' = SubSeq(received', Place' + 1, Len(received'))
    BY <1>1, <1>2, <1>3
  <2> QED
    BY <1>6, <1>8, <2>2, <2>3, <2>4, <2>5, <2>6 DEF AtLine
<1> QED
  BY <1>1, <1>2, <1>9 DEF Reading

\* A line turns out not to be continued.
LEMMA UnfoldedKeeps ==
    ASSUME ReadInv, Intact, Unfolded
    PROVE  AtLine' /\ Reading' /\ ~closed'
<1>1. /\ Reading /\ rest # <<>> /\ Head(rest) # " " /\ check_unfold /\ Takes(line)
      /\ UNCHANGED <<received, cut, closed, rest, piece, body>>
  BY DEF Unfolded
<1>2. ReaderType /\ ~closed /\ AtLine /\ Place \in Nat
  BY <1>1, AtCharacter
<1>3. Waiting
  BY <1>1, <1>2 DEF AtLine, Within, Continuing
<1>4. /\ parsing = "headers" /\ piece = <<>> /\ Open = <<>> /\ line # <<>> /\ line \in Text
      /\ Said = Append(lines, line)
  BY <1>2, <1>3 DEF Waiting, ReaderType
<1>5. /\ lines' = Append(lines, line) /\ line' = NoLine /\ prev_cr' = FALSE /\ check_unfold' = FALSE
      /\ parsing' = "headers"
  BY <1>1, <1>4 DEF Takes
<1>6. Place' = Place /\ Said' = Said /\ Open' = Open
  BY <1>1 DEF Place, Said, Open
<1>7. Held' = <<>>
  <2>1. Held' = <<>> \o <<>>
    BY <1>1, <1>4, <1>5 DEF Held, ascii_cat
  <2> QED
    BY <2>1, EmptySeq, ConcatEmptySeq
<1>8. Within'
  BY <1>1, <1>4, <1>5, <1>6, <1>7 DEF Within
<1>9. lines' # <<>>
  <2>1. lines' \in Seq(Text) /\ lines' # <<>>
    BY <1>1, <1>2, <1>4, TakesType
  <2> QED
    BY <2>1
<1>10. AtLine'
  <2>1. body = <<>> /\ rest = SubSeq(received, Place + 1, Len(received)) /\ Incomplete(received, Place, TRUE)
    BY <1>2, <1>4 DEF AtLine
  <2> QED
    BY <1>1, <1>2, <1>4, <1>5, <1>6, <1>8, <1>9, <2>1 DEF AtLine
<1> QED
  BY <1>1, <1>2, <1>5, <1>10 DEF Reading

\* One more line.
LEMMA CompleteAppend ==
    ASSUME NEW all \in Seq(Text), NEW l \in Text
    PROVE  /\ Append(all, l) \in Seq(Text) /\ Append(all, l) # <<>>
           /\ Len(Append(all, l)) > 1 <=> all # <<>>
           /\ Complete(Append(all, l), FALSE)
           /\ Complete(Append(all, l), TRUE) <=> (all # <<>> /\ l = <<>>)
<1> DEFINE more == Append(all, l)
<1>1. more \in Seq(Text) /\ more # <<>> /\ Len(more) = Len(all) + 1 /\ Last(more) = l
  BY AppendProperties, LastOfAppend
<1>2. all = <<>> => Len(all) = 0
  BY EmptySeq
<1>3. all # <<>> => Len(all) \in Nat \ {0}
  BY EmptySeq
<1>4. (all # <<>>) => Len(all) + 1 > 1
  BY <1>3, MoreThanOne, Zenon
<1>5. ~(0 + 1 > 1)
  OBVIOUS
<1>6. Len(more) > 1 <=> all # <<>>
  BY <1>1, <1>2, <1>4, <1>5, Zenon
<1> HIDE DEF more
<1>7. Complete(more, FALSE) /\ (Complete(more, TRUE) <=> (all # <<>> /\ l = <<>>))
  BY <1>1, <1>6, Zenon DEF Complete
<1> QED
  BY <1>1, <1>6, <1>7, Zenon DEF more

\* One more character without the end of the head.
LEMMA StillIncomplete ==
    ASSUME NEW text, NEW p \in Nat, NEW w, Incomplete(text, p, w), ~Complete(AllTo(text, p + 1), w)
    PROVE  Incomplete(text, p + 1, w)
<1>1. \A j \in 0 .. p + 1 : j \in 0 .. p \/ j = p + 1
  OBVIOUS
<1> QED
  BY <1>1, Zenon DEF Incomplete

\* What has no line has no head.
LEMMA NoLineIncomplete ==
    ASSUME NEW text, NEW p, Incomplete(text, p, FALSE)
    PROVE  Incomplete(text, p, TRUE)
<1>1. ASSUME NEW j \in 0 .. p PROVE ~Complete(AllTo(text, j), TRUE)
  <2>1. AllTo(text, j) = <<>>
    BY Zenon DEF Incomplete, Complete
  <2>2. Len(<<>>) = 0 /\ ~(0 > 1)
    BY EmptySeq
  <2> QED
    BY <2>1, <2>2, Zenon DEF Complete
<1> QED
  BY <1>1 DEF Incomplete

\* The line that ends is the next of the lines.
LEMMA LineIsSaid ==
    ASSUME ReaderType, Open \in Text, Said \in Seq(Text), parsing = "headers" => lines # <<>>,
           Within \/ Continuing,
           NEW l, l = IF Open # <<>> /\ Last(Open) = "CR" THEN Front(Held) ELSE Held
    PROVE  /\ l \in Text /\ WithLine(Said, Bare(Open)) = Append(lines, l)
           /\ Continuing => l # <<>>
<1>1. Bare(Open) \in Text /\ Bare(<<>>) = <<>>
  BY BareType DEF Bare
<1>2. CASE Within
  <2>1. Held = Open /\ Said = lines /\ (Len(lines) > 1 /\ Open # <<>> => Head(Open) # " ")
    BY <1>2 DEF Within
  <2>2. l = Bare(Open)
    BY <2>1, Zenon DEF Bare
  <2>3. Len(Said) > 1 /\ Bare(Open) # <<>> => Head(Bare(Open)) # " "
    BY <1>1, <2>1, BareBegins
  <2>4. WithLine(Said, Bare(Open)) = Append(lines, l)
    BY <2>1, <2>2, <2>3, WithLineOfItsOwn
  <2>5. ~Continuing
    <3>1. SUFFICES ASSUME Continuing PROVE FALSE
      OBVIOUS
    <3>2. PICK first \in Text : Said = Append(lines, first)
      BY <3>1 DEF Continuing
    <3>3. lines \in Seq(Text)
      BY DEF ReaderType
    <3>4. Len(Said) = Len(lines) + 1 /\ Len(lines) \in Nat
      BY <3>2, <3>3, AppendProperties
    <3> QED
      BY <2>1, <3>4, NotOneMore, Zenon
  <2> QED
    BY <1>1, <2>2, <2>4, <2>5
<1>3. CASE Continuing
  <2>1. parsing = "headers" /\ Open # <<>> /\ Head(Open) = " " /\ lines # <<>> /\ lines \in Seq(Text)
    BY <1>3 DEF Continuing, ReaderType
  <2>2. PICK first \in Text : Said = Append(lines, first) /\ Held = first \o Open
    BY <1>3 DEF Continuing
  <2>3. Bare(Open) # <<>> /\ Head(Bare(Open)) = " "
    BY <2>1, BareBegins
  <2>4. Front(Held) = first \o Front(Open)
    BY <2>1, <2>2, FrontOfConcat
  <2>5. l = first \o Bare(Open)
    BY <2>1, <2>2, <2>4, Zenon DEF Bare
  <2>6. WithLine(Append(lines, first), Bare(Open)) = Append(lines, first \o Bare(Open))
    BY <1>1, <2>1, <2>3, WithContinuation
  <2>7. first \o Bare(Open) \in Text /\ first \o Bare(Open) # <<>>
    BY <1>1, <2>3, FrontOfConcat
  <2> QED
    BY <2>2, <2>5, <2>6, <2>7, Zenon
<1> QED
  BY <1>2, <1>3

\* A line ends.
LEMMA LineFeedKeeps ==
    ASSUME ReadInv, Intact, LineFeed
    PROVE  (Reading' => AtLine') /\ (~Reading' => AtBody') /\ ~closed'
<1> DEFINE l == ascii_cat(WithoutCR(piece))
<1>1. /\ Reading /\ rest # <<>> /\ Head(rest) = "LF" /\ ~check_unfold
      /\ rest' = Tail(rest) /\ piece' = <<>>
      /\ parsing = "headers" /\ l # <<>> =>
            /\ line' = l /\ prev_cr' = FALSE /\ check_unfold' = TRUE
            /\ UNCHANGED <<parsing, lines>>
      /\ ~(parsing = "headers" /\ l # <<>>) => Takes(l)
      /\ UNCHANGED <<received, cut, closed, body>>
  BY DEF LineFeed
<1> HIDE DEF l
<1>2. /\ ReaderType /\ ~closed /\ AtLine /\ received \in Text /\ piece \in Text /\ lines \in Seq(Text)
      /\ Place \in Nat /\ Place + 1 \in 1 .. Len(received) /\ Place \in 0 .. Len(received)
      /\ Place + 1 \in Nat /\ Place + 1 \in 0 .. Len(received) /\ Place + 1 - 1 = Place
      /\ received[Place + 1] = "LF" /\ Tail(rest) \in Text
      /\ Len(received) - Len(Tail(rest)) = Place + 1
      /\ Tail(rest) = SubSeq(received, Place + 1 + 1, Len(received))
      /\ Said \in Seq(Text) /\ Open \in Text
  <2>1. ReaderType => piece \in Text /\ lines \in Seq(Text)
    BY DEF ReaderType
  <2> QED
    BY <1>1, <2>1, AtCharacter, Zenon
<1>3. Place' = Place + 1
  BY <1>1, <1>2, Zenon DEF Place
<1>4. Said' = WithLine(Said, Bare(Open)) /\ Open' = <<>> /\ Said' = AllTo(received, Place + 1)
  <2>1. Said' = AllTo(received, Place + 1) /\ Open' = OpenTo(received, Place + 1)
    BY <1>1, <1>3 DEF Said, Open
  <2>2. /\ AllTo(received, Place + 1) = WithLine(AllTo(received, Place), Bare(OpenTo(received, Place)))
        /\ OpenTo(received, Place + 1) = <<>>
    BY <1>2, ParsedAfter
  <2> QED
    BY <2>1, <2>2, Zenon DEF Said, Open
<1>5. prev_cr <=> (Open # <<>> /\ Last(Open) = "CR")
  BY <1>2 DEF AtLine
<1>6. prev_cr => piece # <<>>
  BY <1>1, <1>2 DEF AtLine
<1>7. l = IF Open # <<>> /\ Last(Open) = "CR" THEN Front(Held) ELSE Held
  <2>1. CASE prev_cr
    <3>1. piece # <<>> /\ Front(piece) \in Text
      BY <1>2, <1>6, <2>1, FrontAndLast DEF Text
    <3>2. WithoutCR(piece) = Front(piece)
      BY <2>1, <3>1 DEF WithoutCR
    <3>3. l = Begun \o Front(piece) /\ Held = Begun \o piece /\ Begun \in Text
      BY <1>2, <3>1, <3>2, CatIs DEF l, Held
    <3>4. Front(Begun \o piece) = Begun \o Front(piece)
      BY <1>2, <3>1, <3>3, FrontOfConcat
    <3> QED
      BY <1>5, <2>1, <3>3, <3>4, Zenon
  <2>2. CASE ~prev_cr
    <3>1. WithoutCR(piece) = piece
      BY <2>2 DEF WithoutCR
    <3>2. l = Held
      BY <3>1 DEF l, Held
    <3> QED
      BY <1>5, <2>2, <3>2, Zenon
  <2> QED
    BY <2>1, <2>2
<1>8. Within \/ Continuing
  BY <1>1, <1>2 DEF AtLine, Waiting
<1>9. /\ l \in Text /\ Said' = Append(lines, l) /\ (Continuing => l # <<>>)
  <2>1. parsing = "headers" => lines # <<>>
    BY <1>2 DEF AtLine
  <2>2. l \in Text /\ WithLine(Said, Bare(Open)) = Append(lines, l) /\ (Continuing => l # <<>>)
    BY <1>2, <1>7, <1>8, <2>1, LineIsSaid, Zenon
  <2> QED
    BY <1>4, <2>2, Zenon
<1>10. /\ Append(lines, l) \in Seq(Text) /\ Append(lines, l) # <<>>
       /\ Len(Append(lines, l)) > 1 <=> lines # <<>>
       /\ Complete(Append(lines, l), FALSE)
       /\ Complete(Append(lines, l), TRUE) <=> (lines # <<>> /\ l = <<>>)
  BY <1>2, <1>9, CompleteAppend
<1>11. body' = <<>> /\ Place' \in Nat /\ rest' = SubSeq(received', Place' + 1, Len(received'))
  <2>1. body = <<>>
    BY <1>2 DEF AtLine
  <2> QED
    BY <1>1, <1>2, <1>3, <2>1, Zenon
<1>12. (parsing = "headers" => lines # <<>> /\ Incomplete(received, Place, TRUE))
       /\ (parsing = "request line" => lines = <<>> /\ Incomplete(received, Place, FALSE))
  BY <1>2 DEF AtLine
<1>13. AllTo(received, Place + 1) = Append(lines, l)
  BY <1>4, <1>9, Zenon
<1>14. ASSUME NEW w, w = (Len(lines') > 1), lines' = Append(lines, l), Complete(Append(lines, l), w),
              Incomplete(received, Place, w)
       PROVE  AtBody'
  <2>1. Sent' = received
    BY <1>1, <1>2 DEF Sent
  <2>2. body' \o rest' = SubSeq(received', Place + 1 + 1, Len(received'))
    <3>1. <<>> \o Tail(rest) = Tail(rest)
      BY <1>2, ConcatEmptySeq DEF Text
    <3> QED
      BY <1>1, <1>2, <1>11, <3>1, Zenon
  <2>3. Complete(AllTo(received, Place + 1), w) /\ lines' = AllTo(received, Place + 1)
    BY <1>13, <1>14, Zenon
  <2>4. \E p \in Nat :
          /\ p + 1 \in 1 .. Len(Sent')
          /\ Complete(AllTo(Sent', p + 1), Len(lines') > 1) /\ Incomplete(Sent', p, Len(lines') > 1)
          /\ lines' = AllTo(Sent', p + 1)
          /\ ~closed' => body' \o rest' = SubSeq(received', p + 1 + 1, Len(received'))
    BY <1>2, <1>14, <2>1, <2>2, <2>3, Zenon
  <2> QED
    BY <2>4 DEF AtBody
<1>15. CASE parsing = "headers" /\ l # <<>>
  <2>1. /\ line' = l /\ prev_cr' = FALSE /\ check_unfold' = TRUE /\ parsing' = "headers" /\ lines' = lines
    BY <1>1, <1>15
  <2>2. l # NoLine
    BY <1>9, NoLineIsNoText
  <2>3. Waiting'
    BY <1>1, <1>4, <1>9, <1>15, <2>1, <2>2 DEF Waiting
  <2>4. Incomplete(received', Place', TRUE)
    <3>1. ~Complete(AllTo(received, Place + 1), TRUE)
      BY <1>10, <1>13, <1>15, Zenon
    <3>2. Incomplete(received, Place + 1, TRUE)
      BY <1>2, <1>12, <1>15, <3>1, StillIncomplete
    <3> QED
      BY <1>1, <1>3, <3>2, Zenon
  <2>5. AtLine'
    BY <1>4, <1>11, <1>12, <1>15, <2>1, <2>3, <2>4 DEF AtLine
  <2> QED
    BY <1>1, <1>2, <2>1, <2>5 DEF Reading
<1>16. CASE parsing = "headers" /\ l = <<>>
  <2>1. lines' = Append(lines, l) /\ parsing' = "body"
    BY <1>1, <1>16 DEF Takes
  <2>2. AtBody'
    <3>1. (Len(lines') > 1) = TRUE
      BY <1>10, <1>12, <1>16, <2>1
    <3> QED
      BY <1>10, <1>12, <1>14, <1>16, <2>1, <3>1
  <2> QED
    BY <1>1, <1>2, <2>1, <2>2 DEF Reading
<1>17. CASE parsing = "request line"
  <2>1. /\ lines' = Append(lines, l) /\ line' = NoLine /\ prev_cr' = FALSE /\ check_unfold' = FALSE
        /\ parsing' \in {"headers", "body"}
    BY <1>1, <1>17 DEF Takes
  <2>2. CASE parsing' = "body"
    <3>1. (Len(lines') > 1) = FALSE
      <4>1. ~(Len(lines') > 1)
        BY <1>10, <1>12, <1>17, <2>1, Zenon
      <4> QED
        BY <4>1
    <3>2. AtBody'
      BY <1>10, <1>12, <1>14, <1>17, <2>1, <3>1
    <3> QED
      BY <1>1, <1>2, <2>2, <3>2 DEF Reading
  <2>3. CASE parsing' = "headers"
    <3>1. Held' = <<>>
      <4>1. Held' = <<>> \o <<>>
        BY <1>1, <2>1 DEF Held, ascii_cat
      <4> QED
        BY <4>1, EmptySeq, ConcatEmptySeq
    <3>2. ~(Len(lines') > 1) /\ lines' # <<>>
      BY <1>10, <1>12, <1>17, <2>1
    <3>3. Within'
      BY <1>4, <1>9, <2>1, <3>1, <3>2 DEF Within
    <3>4. Incomplete(received', Place', TRUE)
      <4>1. Incomplete(received, Place, TRUE)
        BY <1>12, <1>17, NoLineIncomplete
      <4>2. ~Complete(AllTo(received, Place + 1), TRUE)
        BY <1>10, <1>12, <1>13, <1>17, Zenon
      <4>3. Incomplete(received, Place + 1, TRUE)
        BY <1>2, <4>1, <4>2, StillIncomplete
      <4> QED
        BY <1>1, <1>3, <4>3, Zenon
    <3>5. AtLine'
      BY <1>4, <1>11, <2>1, <2>3, <3>2, <3>3, <3>4 DEF AtLine
    <3> QED
      BY <1>1, <1>2, <2>3, <3>5 DEF Reading
  <2> QED
    BY <2>1, <2>2, <2>3
<1> QED
  BY <1>1, <1>15, <1>16, <1>17 DEF Reading

\* What is sent when the client has closed.
LEMMA EndedText ==
    ASSUME NEW text \in Text
    PROVE  LET t == text \o <<"LF", "LF">> IN
           /\ t \in Text /\ Len(text) \in Nat /\ Len(t) = Len(text) + 2
           /\ Len(text) + 1 \in 1 .. Len(t) /\ Len(text) + 1 + 1 \in 1 .. Len(t)
           /\ t[Len(text) + 1] = "LF" /\ t[Len(text) + 1 + 1] = "LF"
           /\ \A k \in 0 .. Len(text) : AllTo(t, k) = AllTo(text, k) /\ OpenTo(t, k) = OpenTo(text, k)
<1> DEFINE e == <<"LF", "LF">>
           t == text \o e
           n == Len(text)
<1>1. e \in Seq(Char) /\ Len(e) = 2 /\ e[1] = "LF" /\ e[2] = "LF"
  BY DEF Char
<1> HIDE DEF e
<1>2. n \in Nat
  BY DEF Text
<1>3. /\ t \in Seq(Char) /\ Len(t) = n + 2
      /\ \A i \in 1 .. n + 2 : t[i] = IF i <= n THEN text[i] ELSE e[i - n]
  <2>1. text \in Seq(Char)
    BY DEF Text
  <2>2. /\ t \in Seq(Char) /\ Len(t) = n + Len(e)
        /\ \A i \in 1 .. n + Len(e) : t[i] = IF i <= n THEN text[i] ELSE e[i - n]
    BY <1>1, <2>1, ConcatProperties, Zenon
  <2> HIDE DEF t, n
  <2> QED
    BY <1>1, <2>2, Zenon
<1>4. \A k \in 0 .. n : AllTo(t, k) = AllTo(text, k) /\ OpenTo(t, k) = OpenTo(text, k)
  BY <1>1, ParsedBeginning DEF Text
<1> HIDE DEF t, n
<1>5. /\ n + 1 \in 1 .. n + 2 /\ n + 1 + 1 \in 1 .. n + 2 /\ ~(n + 1 <= n) /\ ~(n + 1 + 1 <= n)
      /\ n + 1 - n = 1 /\ n + 1 + 1 - n = 2
  BY <1>2
<1>6. t[n + 1] = "LF" /\ t[n + 1 + 1] = "LF"
  <2>1. PICK i : i = n + 1
    OBVIOUS
  <2>2. PICK j : j = n + 1 + 1
    OBVIOUS
  <2>3. i \in 1 .. n + 2 /\ ~(i <= n) /\ i - n = 1
    BY <1>2, <2>1
  <2>4. j \in 1 .. n + 2 /\ ~(j <= n) /\ j - n = 2
    BY <1>2, <2>2
  <2>5. t[i] = e[i - n]
    <3>1. t[i] = IF i <= n THEN text[i] ELSE e[i - n]
      BY <1>3, <2>3, Zenon
    <3> QED
      BY <2>3, <3>1, Zenon
  <2>6. t[j] = e[j - n]
    <3>1. t[j] = IF j <= n THEN text[j] ELSE e[j - n]
      BY <1>3, <2>4, Zenon
    <3> QED
      BY <2>4, <3>1, Zenon
  <2>7. t[i] = "LF"
    BY <1>1, <2>3, <2>5, Zenon
  <2>8. t[j] = "LF"
    BY <1>1, <2>4, <2>6, Zenon
  <2> QED
    BY <2>1, <2>2, <2>7, <2>8, Zenon
<1>7. n + 1 \in 1 .. Len(t) /\ n + 1 + 1 \in 1 .. Len(t)
  BY <1>3, <1>5
<1> QED
  BY <1>2, <1>3, <1>4, <1>6, <1>7 DEF t, n, e, Text

\* The client closes, or has closed.
LEMMA CloseKeeps ==
    ASSUME ReadInv, Intact, Intact', EndOfInput
    PROVE  closed' /\ (Reading' => AtClose') /\ (~Reading' => AtBody')
<1> DEFINE t == received \o <<"LF", "LF">>
           n == Len(received)
           l == Held
<1>1. /\ Reading /\ rest = <<>> /\ Takes(l) /\ piece' = <<>> /\ closed' = TRUE
      /\ UNCHANGED <<received, cut, rest, body>>
  BY DEF EndOfInput, Held
<1>2. ReaderType /\ received \in Text /\ lines \in Seq(Text) /\ piece \in Text
  BY DEF ReadInv, ReaderType
<1>3. /\ t \in Text /\ n \in Nat /\ Len(t) = n + 2
      /\ n + 1 \in 1 .. Len(t) /\ n + 1 + 1 \in 1 .. Len(t)
      /\ t[n + 1] = "LF" /\ t[n + 1 + 1] = "LF"
      /\ \A k \in 0 .. n : AllTo(t, k) = AllTo(received, k) /\ OpenTo(t, k) = OpenTo(received, k)
  BY <1>2, EndedText
<1>4. Sent' = t /\ closed'
  BY <1>1 DEF Sent
<1>5. l \in Text
  BY <1>2, CatIs DEF Held
<1> HIDE DEF t, l
<1>6. /\ Append(lines, l) \in Seq(Text) /\ Append(lines, l) # <<>>
      /\ Len(Append(lines, l)) > 1 <=> lines # <<>>
      /\ Complete(Append(lines, l), FALSE)
      /\ Complete(Append(lines, l), TRUE) <=> (lines # <<>> /\ l = <<>>)
  BY <1>2, <1>5, CompleteAppend
<1>7. /\ lines' = Append(lines, l) /\ line' = NoLine /\ prev_cr' = FALSE /\ check_unfold' = FALSE
      /\ parsing = "request line" => parsing' \in {"headers", "body"}
      /\ parsing = "headers" => parsing' = IF l = <<>> THEN "body" ELSE "headers"
  BY <1>1 DEF Takes
<1>8. parsing \in {"request line", "headers"}
  BY <1>1 DEF Reading
<1>9. ASSUME NEW p \in Nat, p + 1 \in 1 .. Len(t), AllTo(t, p + 1) = Append(lines, l), NEW w,
             w = (Len(lines') > 1), Complete(Append(lines, l), w), Incomplete(t, p, w)
      PROVE  AtBody'
  <2>1. \E q \in Nat :
          /\ q + 1 \in 1 .. Len(Sent')
          /\ Complete(AllTo(Sent', q + 1), Len(lines') > 1) /\ Incomplete(Sent', q, Len(lines') > 1)
          /\ lines' = AllTo(Sent', q + 1)
          /\ ~closed' => body' \o rest' = SubSeq(received', q + 1 + 1, Len(received'))
    BY <1>4, <1>7, <1>9, Zenon
  <2> QED
    BY <2>1 DEF AtBody
<1>10. ASSUME NEW k \in {n, n + 1}, AllTo(t, k) = Append(lines, l), OpenTo(t, k) = <<>>,
              Incomplete(t, k, TRUE), parsing' = "headers"
       PROVE  AtClose'
  <2>1. \E j \in {Len(received'), Len(received') + 1} :
          /\ lines' = AllTo(Sent', j) /\ OpenTo(Sent', j) = <<>>
          /\ Incomplete(Sent', j, TRUE)
    BY <1>1, <1>4, <1>7, <1>10, Zenon
  <2> QED
    BY <1>1, <1>6, <1>7, <1>10, <2>1, Zenon DEF AtClose
<1>11. CASE closed
  <2>1. AtClose
    BY <1>1, <1>11 DEF ReadInv
  <2>2. piece = <<>> /\ line = NoLine /\ parsing = "headers" /\ lines # <<>> /\ Sent = t
    BY <1>11, <2>1 DEF AtClose, Sent, t
  <2>3. PICK k \in {n, n + 1} : lines = AllTo(t, k) /\ OpenTo(t, k) = <<>> /\ Incomplete(t, k, TRUE)
    BY <2>1, <2>2 DEF AtClose
  <2>4. l = <<>>
    <3>1. l = <<>> \o <<>>
      BY <2>2 DEF l, Held, ascii_cat
    <3> QED
      BY <3>1, EmptySeq, ConcatEmptySeq
  <2>5. k \in Nat /\ k + 1 \in 1 .. Len(t) /\ t[k + 1] = "LF"
    <3>1. CASE k = n
      BY <1>3, <3>1
    <3>2. CASE k = n + 1
      <4>1. n + 1 \in Nat
        BY <1>3
      <4> QED
        BY <1>3, <3>2, <4>1, Zenon
    <3> QED
      BY <3>1, <3>2
  <2>6. AllTo(t, k + 1) = WithLine(lines, Bare(<<>>))
    BY <1>3, <2>3, <2>5, ParsedAfter
  <2>7. Bare(<<>>) = <<>> /\ WithLine(lines, <<>>) = Append(lines, <<>>)
    BY WithLineOfItsOwn DEF Bare
  <2>8. AllTo(t, k + 1) = Append(lines, l)
    BY <2>4, <2>6, <2>7, Zenon
  <2>9. (Len(lines') > 1) = TRUE
    BY <1>6, <1>7, <2>2
  <2>10. AtBody'
    BY <1>6, <1>9, <2>2, <2>3, <2>4, <2>5, <2>8, <2>9
  <2>11. parsing' = "body"
    BY <1>7, <2>2, <2>4
  <2> QED
    BY <1>1, <2>10, <2>11 DEF Reading
<1>12. CASE ~closed
  <2>1. AtLine
    BY <1>1, <1>12 DEF ReadInv
  <2>2. Place = n /\ n \in 0 .. n
    <3>1. Len(rest) = 0
      BY <1>1, EmptySeq
    <3>2. n - 0 = n /\ n \in 0 .. n
      BY <1>3
    <3> QED
      BY <3>1, <3>2, Zenon DEF Place
  <2>3. Said = AllTo(t, n) /\ Open = OpenTo(t, n)
    BY <1>3, <2>2, Zenon DEF Said, Open
  <2>4. Said \in Seq(Text) /\ Open \in Text
    BY <1>2, <2>2, ParsedType DEF Said, Open
  <2>5. ~(Open # <<>> /\ Last(Open) = "CR")
    <3>1. SUFFICES ASSUME Open # <<>>, Last(Open) = "CR" PROVE FALSE
      OBVIOUS
    <3>2. n \in 1 .. Len(received) /\ received[n] = "CR"
      BY <1>2, <2>2, <3>1, OpenEndsThere DEF Open
    <3>3. DOMAIN received = 1 .. Len(received)
      BY <1>2 DEF Text
    <3>4. ToSet(received) = {received[i] : i \in DOMAIN received}
      BY Zenon DEF ToSet
    <3>5. "CR" \in ToSet(received)
      BY <3>2, <3>3, <3>4
    <3> QED
      BY <1>1, <3>5 DEF Intact
  <2>6. (parsing = "headers" => lines # <<>> /\ Incomplete(received, Place, TRUE))
        /\ (parsing = "request line" => lines = <<>> /\ Incomplete(received, Place, FALSE))
    BY <2>1 DEF AtLine
  <2>7. ASSUME NEW w, Incomplete(received, Place, w) PROVE Incomplete(t, n, w)
    BY <1>3, <2>2, <2>7 DEF Incomplete
  <2>8. CASE Waiting
    <3>1. parsing = "headers" /\ piece = <<>> /\ Open = <<>> /\ line # <<>> /\ line # NoLine /\ Said = Append(lines, line)
      BY <2>8 DEF Waiting
    <3>2. l = line
      <4>1. l = line \o <<>> /\ line \in Text
        BY <1>2, <3>1 DEF l, Held, ascii_cat, ReaderType
      <4> QED
        BY <4>1, ConcatEmptySeq DEF Text
    <3>3. parsing' = "headers"
      BY <1>7, <3>1, <3>2
    <3>4. Incomplete(t, n, TRUE)
      BY <2>6, <2>7, <3>1
    <3>5. AtClose'
      BY <1>10, <2>3, <3>1, <3>2, <3>3, <3>4
    <3> QED
      BY <1>1, <3>3, <3>5 DEF Reading
  <2>9. CASE Within \/ Continuing
    <3>1. l = IF Open # <<>> /\ Last(Open) = "CR" THEN Front(Held) ELSE Held
      BY <2>5, Zenon DEF l
    <3>2. WithLine(Said, Bare(Open)) = Append(lines, l)
      BY <1>2, <2>4, <2>6, <2>9, <3>1, LineIsSaid, Zenon
    <3>3. AllTo(t, n + 1) = Append(lines, l) /\ OpenTo(t, n + 1) = <<>>
      <4>1. /\ AllTo(t, n + 1) = WithLine(AllTo(t, n), Bare(OpenTo(t, n)))
            /\ OpenTo(t, n + 1) = <<>>
        BY <1>3, ParsedAfter
      <4> QED
        BY <2>3, <3>2, <4>1, Zenon
    <3>4. CASE parsing = "headers" /\ l # <<>>
      <4>1. parsing' = "headers"
        BY <1>7, <3>4
      <4>2. ~Complete(AllTo(t, n + 1), TRUE)
        BY <1>6, <3>3, <3>4, Zenon
      <4>3. Incomplete(t, n, TRUE)
        BY <2>6, <2>7, <3>4
      <4>4. Incomplete(t, n + 1, TRUE)
        BY <1>3, <4>2, <4>3, StillIncomplete
      <4>5. AtClose'
        BY <1>10, <3>3, <4>1, <4>4
      <4> QED
        BY <1>1, <4>1, <4>5 DEF Reading
    <3>5. CASE parsing = "headers" /\ l = <<>>
      <4>1. parsing' = "body"
        BY <1>7, <3>5
      <4>2. (Len(lines') > 1) = TRUE
        BY <1>6, <1>7, <2>6, <3>5
      <4>3. Incomplete(t, n, TRUE)
        BY <2>6, <2>7, <3>5
      <4>4. Complete(Append(lines, l), TRUE)
        BY <1>6, <2>6, <3>5
      <4>5. AtBody'
        BY <1>3, <1>9, <3>3, <4>2, <4>3, <4>4
      <4> QED
        BY <1>1, <4>1, <4>5 DEF Reading
    <3>6. CASE parsing = "request line"
      <4>1. ~(Len(lines') > 1)
        BY <1>6, <1>7, <2>6, <3>6, Zenon
      <4>2. Incomplete(t, n, FALSE)
        BY <2>6, <2>7, <3>6
      <4>3. CASE parsing' = "body"
        <5>1. (Len(lines') > 1) = FALSE
          BY <4>1
        <5>2. AtBody'
          BY <1>3, <1>6, <1>9, <3>3, <4>2, <5>1
        <5> QED
          BY <1>1, <4>3, <5>2 DEF Reading
      <4>4. CASE parsing' = "headers"
        <5>1. Incomplete(t, n, TRUE)
          BY <4>2, NoLineIncomplete
        <5>2. ~Complete(AllTo(t, n + 1), TRUE)
          BY <1>6, <2>6, <3>3, <3>6, Zenon
        <5>3. Incomplete(t, n + 1, TRUE)
          BY <1>3, <5>1, <5>2, StillIncomplete
        <5>4. AtClose'
          BY <1>10, <3>3, <4>4, <5>3
        <5> QED
          BY <1>1, <4>4, <5>4 DEF Reading
      <4> QED
        BY <1>7, <3>6, <4>3, <4>4
    <3> QED
      BY <1>8, <3>4, <3>5, <3>6
  <2> QED
    BY <2>1, <2>8, <2>9 DEF AtLine
<1> QED
  BY <1>11, <1>12

\* The character 0.
LEMMA NoZero == ASSUME ReadInv, Intact, ReadZero PROVE FALSE
<1>1. Reading /\ rest # <<>> /\ Head(rest) = "0"
  BY DEF ReadZero
<1> QED
  BY <1>1, AtCharacter

\* The body is passed on.
LEMMA BlockKeeps ==
    ASSUME ReadInv, Intact, HTInputSocket_getBlock
    PROVE  AtBody' /\ ~Reading'
<1>1. /\ parsing = "body" /\ body' = body \o rest /\ rest' = <<>>
      /\ UNCHANGED <<received, closed, parsing, lines>>
  BY DEF HTInputSocket_getBlock
<1>2. ~Reading /\ ~Reading'
  BY <1>1 DEF Reading
<1>3. Sent' = Sent
  BY <1>1 DEF Sent
<1>4. body' \o rest' = body \o rest
  <2>1. body \o rest \in Seq(Char)
    BY ConcatProperties DEF ReadInv, ReaderType, Text
  <2>2. (body \o rest) \o <<>> = body \o rest
    BY <2>1, ConcatEmptySeq
  <2> QED
    BY <1>1, <2>2
<1>5. AtBody
  BY <1>2 DEF ReadInv
<1> QED
  BY <1>1, <1>2, <1>3, <1>4, <1>5 DEF AtBody

\* So is what is read of it.
LEMMA ReadKeeps ==
    ASSUME ReadInv, Intact, NEW block \in Blocks, ReadBlock(block)
    PROVE  AtBody' /\ ~Reading'
<1>1. /\ parsing = "body" /\ rest = <<>> /\ body' = body \o block /\ rest' = rest
      /\ ~closed /\ closed' = closed /\ received' = received \o block
      /\ UNCHANGED <<parsing, lines>>
  BY DEF ReadBlock, Reads, buffer
<1>2. ~Reading /\ ~Reading'
  BY <1>1 DEF Reading
<1>3. block \in Text /\ received \in Text /\ body \in Text
  BY BlockIsText DEF ReadInv, ReaderType
<1>4. Sent = received /\ Sent' = received'
  BY <1>1 DEF Sent
<1>5. AtBody
  BY <1>2 DEF ReadInv
<1>6. PICK p \in Nat :
         /\ p + 1 \in 1 .. Len(received)
         /\ Complete(AllTo(received, p + 1), Len(lines) > 1)
         /\ Incomplete(received, p, Len(lines) > 1)
         /\ lines = AllTo(received, p + 1)
         /\ body \o rest = SubSeq(received, p + 1 + 1, Len(received))
  BY <1>1, <1>4, <1>5, Zenon DEF AtBody
<1>7. PICK k : k = p + 1
  OBVIOUS
<1>8. /\ Len(received) \in Nat /\ Len(received') = Len(received) + Len(block) /\ Len(block) \in Nat
      /\ k \in 0 .. Len(received)
  BY <1>1, <1>3, <1>6, <1>7, ConcatProperties DEF Text
<1>9. p + 1 \in 1 .. Len(received')
  BY <1>6, <1>7, <1>8
<1>10. \A j \in 0 .. Len(received) : AllTo(received', j) = AllTo(received, j)
  BY <1>1, <1>3, ParsedBeginning
<1>11. AllTo(received', p + 1) = AllTo(received, p + 1)
  BY <1>7, <1>8, <1>10, Zenon
<1>12. Incomplete(received', p, Len(lines) > 1)
  <2>1. \A j \in 0 .. p : j \in 0 .. Len(received)
    BY <1>6, <1>7, <1>8
  <2> QED
    BY <1>6, <1>10, <2>1, Zenon DEF Incomplete
<1>13. body' \o rest' = SubSeq(received', p + 1 + 1, Len(received'))
  <2>1. body \o <<>> = body /\ (body \o block) \o <<>> = body \o block
    <3>1. body \in Seq(Char) /\ body \o block \in Seq(Char)
      BY <1>3, ConcatProperties DEF Text
    <3> QED
      BY <3>1, ConcatEmptySeq
  <2>2. SubSeq(received \o block, k + 1, Len(received \o block)) = SubSeq(received, k + 1, Len(received)) \o block
    BY <1>3, <1>8, SuffixMore
  <2> QED
    BY <1>1, <1>6, <1>7, <2>1, <2>2, Zenon
<1> QED
  BY <1>1, <1>2, <1>4, <1>6, <1>9, <1>11, <1>12, <1>13, Zenon DEF AtBody

\* Every step of the reader keeps its invariant.
LEMMA ReaderStep ==
    ASSUME ReadInv, [ReaderNext]_readerVars
    PROVE  ReadInv'
<1>1. ReaderType'
  BY ReaderTypeStep DEF ReadInv
<1>2. ASSUME Intact'
      PROVE  /\ Reading' /\ ~closed' => AtLine'
             /\ Reading' /\ closed' => AtClose'
             /\ ~Reading' => AtBody'
  <2>1. Intact
    BY <1>2, IntactBefore DEF ReadInv
  <2>2. ASSUME NEW block \in Blocks, fill_in_buffer(block) PROVE AtLine' /\ Reading' /\ ~closed'
    BY <1>2, <2>1, <2>2, FillKeeps
  <2>3. CASE EndOfInput
    BY <1>2, <2>1, <2>3, CloseKeeps
  <2>4. CASE ReadZero
    BY <2>1, <2>4, NoZero
  <2>5. CASE Unfolded
    BY <2>1, <2>5, UnfoldedKeeps
  <2>6. CASE OrdinaryCharacter
    BY <2>1, <2>6, CharacterKeeps
  <2>7. CASE LineFeed
    BY <2>1, <2>7, LineFeedKeeps
  <2>8. CASE HTInputSocket_getBlock
    BY <2>1, <2>8, BlockKeeps
  <2>9. ASSUME NEW block \in Blocks, ReadBlock(block) PROVE AtBody' /\ ~Reading'
    BY <2>1, <2>9, ReadKeeps
  <2>10. CASE UNCHANGED readerVars
    <3>1. /\ (AtLine => AtLine') /\ (AtClose => AtClose') /\ (AtBody => AtBody')
          /\ (Reading <=> Reading') /\ (closed <=> closed')
      BY <2>10 DEF AtLine, AtClose, AtBody, Reading, Place, Said, Open, Held, ascii_cat, Waiting, Within,
                   Continuing, Sent, readerVars, buffer
    <3> QED
      BY <2>1, <3>1 DEF ReadInv
  <2> QED
    BY <2>2, <2>3, <2>4, <2>5, <2>6, <2>7, <2>8, <2>9, <2>10, Zenon DEF ReaderNext
<1> QED
  BY <1>1, <1>2 DEF ReadInv

\* The reader (get_some_line, HTInputSocket_getBlock and HTParseRequest) has read
\* a request up to some character of it, at every step.
THEOREM ReaderInductive == ReaderSpec => []ReadInv
<1>1. ReaderInit => ReadInv
  BY ReaderInitInv
<1>2. ReadInv /\ [ReaderNext]_readerVars => ReadInv'
  BY ReaderStep
<1> QED
  BY <1>1, <1>2, PTL DEF ReaderSpec

\* HeadAsSent, for texts of any length and blocks of any size: the lines and the
\* body that HTParseRequest gets are what the client sent, wherever the network
\* has cut it, and it does not wait for more when it has the whole head.
THEOREM RequestReadAsSent == ReaderSpec => []HeadAsSent
<1>1. ASSUME ReadInv PROVE HeadAsSent
  <2> DEFINE withFields == Len(lines) > 1 \/ parsing = "headers"
             upTo == Parsed(Sent)
             Ends(k) == /\ Complete(upTo[k].all, withFields)
                        /\ \A j \in 0 .. k - 1 : ~Complete(upTo[j].all, withFields)
  <2>1. SUFFICES ASSUME Intact
        PROVE /\ parsing = "body" =>
                    \E k \in DOMAIN Sent :
                       /\ Ends(k) /\ lines = upTo[k].all
                       /\ ~closed => body \o rest = SubSeq(received, k + 1, Len(received))
              /\ Reading /\ rest = <<>> /\ ~closed =>
                    \A k \in 0 .. Len(received) : ~Complete(upTo[k].all, withFields)
    BY Zenon DEF HeadAsSent, Intact
  <2>2. ReaderType
    BY <1>1 DEF ReadInv
  <2>3. ASSUME parsing = "body"
        PROVE  \E k \in DOMAIN Sent :
                  /\ Ends(k) /\ lines = upTo[k].all
                  /\ ~closed => body \o rest = SubSeq(received, k + 1, Len(received))
    <3>1. AtBody
      BY <1>1, <2>1, <2>3 DEF ReadInv, Reading
    <3>2. PICK p \in Nat :
             /\ p + 1 \in 1 .. Len(Sent)
             /\ Complete(AllTo(Sent, p + 1), Len(lines) > 1)
             /\ Incomplete(Sent, p, Len(lines) > 1)
             /\ lines = AllTo(Sent, p + 1)
             /\ ~closed => body \o rest = SubSeq(received, p + 1 + 1, Len(received))
      BY <3>1, Zenon DEF AtBody
    <3>3. PICK k : k = p + 1
      OBVIOUS
    <3>4. k - 1 = p
      BY <3>3
    <3>5. Sent \in Text
      <4>1. received \in Text
        BY <2>2 DEF ReaderType
      <4>2. received \o <<"LF", "LF">> \in Text
        BY <4>1, EndedText
      <4> QED
        BY <4>1, <4>2, Zenon DEF Sent
    <3>6. k \in DOMAIN Sent
      BY <3>2, <3>3, <3>5 DEF Text
    <3>7. withFields = (Len(lines) > 1)
      BY <2>3
    <3>8. Ends(k)
      BY <3>2, <3>3, <3>4, <3>7, Zenon DEF Incomplete, AllTo
    <3>9. lines = upTo[k].all
      BY <3>2, <3>3, Zenon DEF AllTo
    <3>10. ~closed => body \o rest = SubSeq(received, k + 1, Len(received))
      BY <3>2, <3>3, Zenon
    <3> HIDE DEF Ends, upTo, withFields
    <3> QED
      BY <3>6, <3>8, <3>9, <3>10
  <2>4. ASSUME Reading, rest = <<>>, ~closed, NEW k \in 0 .. Len(received)
        PROVE  ~Complete(upTo[k].all, withFields)
    <3>1. AtLine
      BY <1>1, <2>1, <2>4 DEF ReadInv
    <3>2. Place = Len(received)
      <4>1. received \in Text
        BY <2>2 DEF ReaderType
      <4>2. Len(received) \in Nat /\ Len(rest) = 0
        BY <2>4, <4>1, EmptySeq DEF Text
      <4>3. Len(received) - 0 = Len(received)
        BY <4>2
      <4> QED
        BY <4>2, <4>3, Zenon DEF Place
    <3>3. Sent = received
      BY <2>4 DEF Sent
    <3>4. CASE parsing = "headers"
      <4>1. Incomplete(received, Place, TRUE)
        BY <3>1, <3>4 DEF AtLine
      <4>2. ~Complete(AllTo(received, k), TRUE)
        BY <2>4, <3>2, <4>1, Zenon DEF Incomplete
      <4>3. withFields = TRUE
        BY <3>4
      <4> QED
        BY <3>3, <4>2, <4>3, Zenon DEF AllTo
    <3>5. CASE parsing = "request line"
      <4>1. Incomplete(received, Place, FALSE) /\ lines = <<>>
        BY <3>1, <3>5 DEF AtLine
      <4>2. ~Complete(AllTo(received, k), FALSE)
        BY <2>4, <3>2, <4>1, Zenon DEF Incomplete
      <4>3. withFields = FALSE
        <5>1. parsing # "headers"
          BY <3>5
        <5>2. Len(<<>>) = 0
          BY EmptySeq
        <5>3. ~(0 > 1)
          OBVIOUS
        <5>4. ~(Len(lines) > 1)
          BY <4>1, <5>2, <5>3, Zenon
        <5>5. ~withFields
          BY <5>1, <5>4, Zenon
        <5> QED
          BY <5>5 DEF withFields
      <4> QED
        BY <3>3, <4>2, <4>3, Zenon DEF AllTo
    <3> QED
      BY <2>4, <3>4, <3>5 DEF Reading
  <2> QED
    BY <2>3, <2>4
<1>2. ReadInv => HeadAsSent
  BY <1>1
<1> QED
  BY <1>2, ReaderInductive, PTL

================================================================================
