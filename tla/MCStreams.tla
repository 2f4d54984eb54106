------------------------------ MODULE MCStreams -------------------------------
(* Instances of the streams between a client and what answers it, one of them *)
(* in each behaviour: the reader of its request, the counter that gives a     *)
(* document its head, the writer of the cache and the writer of the socket;   *)
(* or the accounts that the parent keeps of what was written to the cache.    *)
EXTENDS CacheWriter, RequestReader, OutputStreams, CacheUsage

Long(kind) == <<[kind |-> kind, ends |-> FALSE], Line("tail")>>

Status == {<<Line(k)>> : k \in {"200", "304", "404", "HTTP0"}}
LongStatus == {Long("200"), Long("HTTP0")}
Field == {<<>>} \cup {<<Line(k)>> : k \in {"expires", "expired", "length", "field"}}
LongField == {Long("field"), Long("expires")}
Units == {<<>>, <<Line("body")>>, <<Line("body"), Line("body")>>}

Reply(statuses, first, second) ==
    {s \o f \o g \o <<Line("blank")>> \o b :
        s \in statuses, f \in first, g \in second, b \in Units}

\* A status line, at most two fields of any kind and a body of at most two units;
\* the status line and the first field may be longer than the buffer.
AllReplies == Reply(Status \cup LongStatus, Field \cup LongField, Field)

Old == <<Line("200"), Placeholder, Line("blank"), Line("body")>>

\* The children of CacheUsage are alike.
ChildSymmetry == Permutations(Child)

-----------------------------------------------------------------------------
VARIABLE subject

streamVars == <<subject, vars, readerVars, counterVars, writerStreamVars, usageVars>>

AnyReply == CHOOSE r \in Replies : TRUE

\* The others stay as one of their initial states.
StreamsInit ==
    /\ subject \in {"cache", "reader", "counter", "writer", "usage"}
    /\ IF subject = "cache" THEN reply \in Replies
       ELSE reply = AnyReply /\ announced = 1 /\ http1 = TRUE /\ if_mod_since = TRUE
    /\ IF subject = "counter" THEN TRUE
       ELSE wrapper = "sink" /\ sink = <<>> /\ out_length = 0
    /\ ReaderInit /\ WriterStreamInit /\ CounterInit /\ Init /\ UsageInit
    /\ subject # "usage" => report = [used |-> 0, freed |-> 0] /\ cached = 0

StreamsNext ==
    /\ UNCHANGED subject
    /\ \/ subject = "cache" /\ Next
          /\ UNCHANGED <<readerVars, counterVars, writerStreamVars, usageVars>>
       \/ subject = "reader" /\ ReaderNext
          /\ UNCHANGED <<vars, counterVars, writerStreamVars, usageVars>>
       \/ subject = "counter" /\ CounterNext
          /\ UNCHANGED <<vars, readerVars, writerStreamVars, usageVars>>
       \/ subject = "writer" /\ WriterStreamNext
          /\ UNCHANGED <<vars, readerVars, counterVars, usageVars>>
       \/ subject = "usage" /\ UsageNext
          /\ UNCHANGED <<vars, readerVars, counterVars, writerStreamVars>>

StreamsSpec == StreamsInit /\ [][StreamsNext]_streamVars

=============================================================================
