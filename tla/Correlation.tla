---------------------------- MODULE Correlation ----------------------------
(***************************************************************************)
(* How a log record of the function gets the trace of its invocation:      *)
(* logs::parse puts a request ID where the trace ID belongs                *)
(* (src/src/logs.rs), and export() replaces it by the trace of a span of   *)
(* that request, through an LRU cache that outlives the export             *)
(* (src/src/exporter.rs, lines 260-307).  Exporter.tla has the same        *)
(* exports without what is inside the items.                               *)
(*                                                                         *)
(* A value of a trace ID field is told apart by what the code looks at:    *)
(* its length, and the key of the cache it equals.  The function may write *)
(* any string where its request ID belongs.                                *)
(***************************************************************************)
EXTENDS Naturals, FiniteSets, SequencesExt

CONSTANTS
    Trace,        \* trace IDs: 16 bytes
    Word,         \* 16 bytes that are no trace ID
    RequestId,    \* bytes of any other length but 0: AWS request IDs, and
                  \* whatever else stands in their place
    SpanId,       \* span IDs: 8 bytes
    Odd,          \* IDs of spans of another length that is not 0
    Empty,        \* no bytes
    Absent,       \* a field that is not there
    Undecodable,  \* a field of the wrong type, or not hexadecimal
    Plain,        \* a message that is not a JSON object
    Record,       \* the log records the function writes
    Span,         \* the spans its SDK sends
    Capacity,     \* of the LRU cache: 8, or 1024 in a managed runtime
    MaxHeld       \* bound: records and spans buffered between two exports

(***************************************************************************)
(* LambdaLogRecord: a JSON object, or a line of text.  prefix is the       *)
(* second word of a line that parse_text takes apart, or Absent.           *)
(***************************************************************************)
JsonLogRecord ==
    [traceId : Trace \cup RequestId \cup {Empty, Absent, Undecodable},
     requestId : RequestId \cup Word \cup {Empty, Absent, Undecodable},
     spanId : SpanId \cup Odd \cup {Empty, Absent, Undecodable}]
TextLogRecord ==
    [prefix : RequestId \cup Word \cup {Empty, Absent},
     message : JsonLogRecord \cup {Plain}]
LambdaLogRecord ==
    [kind : {"json"}, json : JsonLogRecord] \cup [kind : {"text"}, text : TextLogRecord]

(***************************************************************************)
(* A span.  ids are the values of its attributes faas.invocation_id and    *)
(* faas.execution in their order, Undecodable for one that is no string.   *)
(* Any string is a key of the cache.                                       *)
(***************************************************************************)
Key == RequestId \cup Word \cup {Empty}
SpanRecord ==
    [ids : Seq(Key \cup {Undecodable}),
     trace : Trace \cup Odd \cup {Empty}, span : SpanId \cup Odd \cup {Empty}]

(***************************************************************************)
(* The lengths tell the values apart, but for a word of 16 bytes: it is no *)
(* trace ID although it is as long as one.                                 *)
(***************************************************************************)
ASSUME CorrelationAssumption ==
    /\ Record \subseteq LambdaLogRecord
    /\ Span \subseteq SpanRecord
    /\ Capacity \in Nat \ {0}
    /\ MaxHeld \in Nat
    /\ Trace \cap (Word \cup RequestId \cup Odd) = {}
    /\ Word \cap RequestId = {}
    /\ SpanId \cap Odd = {}
    /\ {Empty, Absent, Undecodable} \cap (Trace \cup Word \cup RequestId) = {}
    /\ {Empty, Absent, Undecodable} \cap (SpanId \cup Odd) = {}
    /\ Empty # Absent
    /\ Undecodable \notin {Empty, Absent}
    /\ Absent \notin [trace : Trace, span : SpanId]

VARIABLES
    spans,   \* the spans of State.traces
    logs,    \* the records of State.logs, and what each was parsed from
    cache,   \* State.cache: the least recently used entry first
    sent,    \* the logs of the last export, until the next one is received
    latest,  \* history: the last context cached for each request
    since    \* history: the other requests used since the request was

vars == <<spans, logs, cache, sent, latest, since>>

Context == [trace : Trace, span : SpanId]
Entry == [key : Key, context : Context]
Log == [from : Record,
        trace : Trace \cup Word \cup RequestId \cup {Empty},
        span : SpanId \cup Odd \cup {Empty}]
-----------------------------------------------------------------------------
\* Option::or
Or(field, other) == IF field = Absent THEN other ELSE field

\* A field that does not decode fails the whole object.
Decodes(message) ==
    /\ message # Plain
    /\ Undecodable \notin {message.traceId, message.requestId, message.spanId}

\* The request ID of the line is preferred to the one in the JSON object.
PrefixFirst(json, requestId) ==
    [trace |-> Or(Or(Or(json.traceId, requestId), json.requestId), Empty),
     span |-> Or(json.spanId, Empty)]

convert_json(json, requestId) ==
    [trace |-> Or(Or(Or(json.traceId, json.requestId), requestId), Empty),
     span |-> Or(json.spanId, Empty)]

convert_text(requestId) == [trace |-> Or(requestId, Empty), span |-> Empty]

\* A line without a time and three words is not looked into for JSON.
parse_line(text) ==
    IF text.prefix # Absent /\ Decodes(text.message)
    THEN convert_json(text.message, text.prefix)
    ELSE convert_text(text.prefix)

parse(record) ==
    IF record.kind = "json" THEN convert_json(record.json, Absent)
                            ELSE parse_line(record.text)

LogOf(record) ==
    LET log == parse(record) IN [from |-> record, trace |-> log.trace, span |-> log.span]
-----------------------------------------------------------------------------
Position(c, key) == SelectInSeq(c, LAMBDA entry : entry.key = key)

Used(c, i) == Append(RemoveAt(c, i), c[i])

\* LruCache::push: replaces the entry of the key, or evicts the oldest one.
push(c, key, context) ==
    LET i    == Position(c, key)
        kept == IF i # 0 THEN RemoveAt(c, i)
                ELSE IF Len(c) = Capacity THEN Tail(c) ELSE c
    IN  Append(kept, [key |-> key, context |-> context])

\* A span is cached whatever the length of its trace ID.
IsMappingAnyTrace(span) ==
    /\ span.ids # <<>> /\ Head(span.ids) \in Key
    /\ span.span \in SpanId

\* The loop over the spans; IsMapping says which of them it caches.
IsMapping(span) ==
    /\ span.ids # <<>> /\ Head(span.ids) \in Key
    /\ span.trace \in Trace
    /\ span.span \in SpanId

ContextOf(span) == [trace |-> span.trace, span |-> span.span]

\* Only the first context of a request is cached.
PopulateOnce(c, span) ==
    IF IsMapping(span) /\ Position(c, Head(span.ids)) = 0
    THEN push(c, Head(span.ids), ContextOf(span)) ELSE c

Populate(c, span) ==
    IF IsMapping(span) THEN push(c, Head(span.ids), ContextOf(span)) ELSE c

\* The cache is read without marking the entry as used.
CorrelatePeeking(done, log) ==
    LET i == Position(done.cache, log.trace)
        context == done.cache[i].context
    IN  IF log.trace \in Trace \cup Word \cup {Empty}
        THEN [done EXCEPT !.logs = Append(@, log)]
        ELSE IF i = 0
        THEN [done EXCEPT !.logs = Append(@, [log EXCEPT !.trace = Empty])]
        ELSE [done EXCEPT !.logs = Append(@, [log EXCEPT
                  !.trace = context.trace,
                  !.span = IF @ = Empty THEN context.span ELSE @])]

\* A log that is not correlated keeps what it has.
CorrelateLeaving(done, log) ==
    LET i == Position(done.cache, log.trace)
    IN  IF log.trace \in Trace \cup Word \cup {Empty} \/ i = 0
        THEN [done EXCEPT !.logs = Append(@, log)]
        ELSE [cache |-> Used(done.cache, i),
              logs |-> Append(done.logs, [log EXCEPT
                  !.trace = done.cache[i].context.trace,
                  !.span = IF @ = Empty THEN done.cache[i].context.span ELSE @])]

\* The loop over the logs: done is what it has made of the logs so far.
Correlate(done, log) ==
    LET i == Position(done.cache, log.trace)
        context == done.cache[i].context
    IN  IF log.trace \in Trace \cup Word \cup {Empty}
        THEN [done EXCEPT !.logs = Append(@, log)]
        ELSE IF i = 0
        THEN [done EXCEPT !.logs = Append(@, [log EXCEPT !.trace = Empty])]
        ELSE [cache |-> Used(done.cache, i),
              logs |-> Append(done.logs, [log EXCEPT
                  !.trace = context.trace,
                  !.span = IF @ = Empty THEN context.span ELSE @])]
-----------------------------------------------------------------------------
(***************************************************************************)
(* The history, kept without a cache: a use of a request is the caching of *)
(* a context, or a log that finds it.  A request is remembered as long as  *)
(* fewer than Capacity others have been used since.                        *)
(***************************************************************************)
Remembered(h, r) == h.latest[r] # Absent /\ Cardinality(h.since[r]) < Capacity

Use(h, r) == [h EXCEPT !.since =
    [q \in Key |-> IF q = r THEN {} ELSE h.since[q] \cup {r}]]

NoteSpan(h, span) ==
    IF IsMapping(span)
    THEN Use([h EXCEPT !.latest[Head(span.ids)] = ContextOf(span)], Head(span.ids))
    ELSE h

NoteLog(h, log) ==
    IF log.trace \in RequestId /\ Remembered(h, log.trace) THEN Use(h, log.trace) ELSE h

History == [latest |-> latest, since |-> since]
-----------------------------------------------------------------------------
\* A span arrives in the buffer of traces.
ReceiveSpan(span) ==
    /\ Len(spans) + Len(logs) < MaxHeld
    /\ spans' = Append(spans, span)
    /\ sent' = <<>>
    /\ UNCHANGED <<logs, cache, latest, since>>

(***************************************************************************)
(* A function record is parsed by the telemetry handler and arrives in the *)
(* buffer of logs.  A JSON record that does not decode is rejected with    *)
(* the batch it is in.                                                     *)
(***************************************************************************)
ReceiveLog(record) ==
    /\ Len(spans) + Len(logs) < MaxHeld
    /\ record.kind = "json" => Decodes(record.json)
    /\ logs' = Append(logs, LogOf(record))
    /\ sent' = <<>>
    /\ UNCHANGED <<spans, cache, latest, since>>

\* The logs are correlated before the spans of the export are cached.
ExportLogsFirst ==
    /\ spans \o logs # <<>>
    /\ LET done == FoldLeft(Correlate, [cache |-> cache, logs |-> <<>>], logs)
           h    == FoldLeft(NoteLog, FoldLeft(NoteSpan, History, spans), logs)
       IN  /\ cache' = FoldLeft(Populate, done.cache, spans)
           /\ sent' = done.logs
           /\ latest' = h.latest
           /\ since' = h.since
    /\ spans' = <<>>
    /\ logs' = <<>>

(***************************************************************************)
(* export(): every span is cached before the first log is looked up, and   *)
(* both buffers are taken.  Exports of empty buffers change nothing.       *)
(***************************************************************************)
Export ==
    /\ spans \o logs # <<>>
    /\ LET populated == FoldLeft(Populate, cache, spans)
           done      == FoldLeft(Correlate, [cache |-> populated, logs |-> <<>>], logs)
           h         == FoldLeft(NoteLog, FoldLeft(NoteSpan, History, spans), logs)
       IN  /\ cache' = done.cache
           /\ sent' = done.logs
           /\ latest' = h.latest
           /\ since' = h.since
    /\ spans' = <<>>
    /\ logs' = <<>>

Init ==
    /\ spans = <<>>
    /\ logs = <<>>
    /\ cache = <<>>
    /\ sent = <<>>
    /\ latest = [r \in Key |-> Absent]
    /\ since = [r \in Key |-> {}]

Next ==
    \/ \E span \in Span : ReceiveSpan(span)
    \/ \E record \in Record : ReceiveLog(record)
    \/ Export

Spec == Init /\ [][Next]_vars
-----------------------------------------------------------------------------
\* The types of the variables; the cache holds a request at most once.
CorrelationTypeOK ==
    /\ spans \in Seq(Span)
    /\ logs \in Seq(Log)
    /\ Len(spans) + Len(logs) <= MaxHeld
    /\ cache \in Seq(Entry)
    /\ Len(cache) <= Capacity
    /\ IsInjective([i \in DOMAIN cache |-> cache[i].key])
    /\ sent \in Seq(Log)
    /\ latest \in [Key -> Context \cup {Absent}]
    /\ since \in [Key -> SUBSET Key]

(***************************************************************************)
(* What the cache promises: a request has its latest context as long as    *)
(* fewer than Capacity other requests were used since its last use, and    *)
(* nothing afterwards.  A busy request is not lost to idle ones, and a     *)
(* context replaced by a later span of the same request is never shown.    *)
(***************************************************************************)
Remembers ==
    \A r \in Key :
        LET i == Position(cache, r) IN
        IF Remembered(History, r) THEN i # 0 /\ cache[i].context = latest[r] ELSE i = 0

\* What a record says of itself: its JSON object, its trace, its request.
Said(record) ==
    CASE record.kind = "json" -> record.json
      [] record.kind = "text" /\ record.text.prefix # Absent
                              /\ Decodes(record.text.message) -> record.text.message
      [] OTHER -> [traceId |-> Absent, requestId |-> Absent, spanId |-> Absent]

RequestOf(record) ==
    IF Said(record).requestId # Absent THEN Said(record).requestId
    ELSE IF record.kind = "text" THEN record.text.prefix ELSE Absent

\* The ID a record goes by: the trace it says it has, or else its request.
Named(record) ==
    IF Said(record).traceId # Absent THEN Said(record).traceId ELSE RequestOf(record)

(***************************************************************************)
(* No log is exported with another invocation's trace, or with what is     *)
(* left of a request ID: it leaves with the trace it names, the latest     *)
(* trace of the request it goes by, or none.  The third case is what the   *)
(* comment at exporter.rs:303 rules out and the code does: 16 bytes in the *)
(* place of a request ID, in JSON or in a line of text, are taken for a    *)
(* trace ID and stay, though they name no trace.                           *)
(***************************************************************************)
TracesAreOwn ==
    \A i \in DOMAIN sent :
        LET id == Named(sent[i].from) IN
        \/ sent[i].trace = Empty
        \/ id \in Trace /\ sent[i].trace = id
        \/ id \in Word /\ sent[i].trace = id
        \/ id \in RequestId /\ latest[id] # Absent /\ sent[i].trace = latest[id].trace

(***************************************************************************)
(* Whether a log arrives before or after the spans of its request, one     *)
(* export that holds both correlates them, with the last of these spans,   *)
(* unless its spans are of more requests than the cache has room for.      *)
(***************************************************************************)
SpansOf(r) == {i \in DOMAIN spans : IsMapping(spans[i]) /\ Head(spans[i].ids) = r}
LastSpan(r) == spans[Max(SpansOf(r))]
RequestsTraced == {r \in Key : SpansOf(r) # {}}

SameExportCorrelates ==
    [][logs # <<>> /\ logs' = <<>> /\ Cardinality(RequestsTraced) <= Capacity =>
        \A i \in DOMAIN logs :
            LET r == Named(logs[i].from)
                said == Or(Said(logs[i].from).spanId, Empty)
            IN  r \in RequestId \cap RequestsTraced =>
                    /\ Len(sent') = Len(logs)
                    /\ sent'[i].trace = LastSpan(r).trace
                    /\ sent'[i].span = IF said = Empty THEN LastSpan(r).span ELSE said]_vars
-----------------------------------------------------------------------------
Keys(c) == {c[i].key : i \in 1 .. Len(c)}

(***************************************************************************)
(* The cache c and the history h agree: an entry has the latest context of *)
(* its request, which has seen exactly the uses of the entries behind it;  *)
(* a request that was evicted has seen those of all entries.               *)
(***************************************************************************)
Agree(c, h) ==
    /\ \A i \in 1 .. Len(c) :
          /\ h.latest[c[i].key] = c[i].context
          /\ h.since[c[i].key] = {c[j].key : j \in i + 1 .. Len(c)}
    /\ \A r \in Key \ Keys(c) : h.latest[r] # Absent =>
          /\ Len(c) = Capacity
          /\ Keys(c) \subseteq h.since[r]
    /\ \A r \in Key : IsFiniteSet(h.since[r])

(***************************************************************************)
(* The inductive strengthening of the invariants above: cache and history  *)
(* agree, and a log in the buffer is what its record was parsed to.        *)
(***************************************************************************)
CorrelationInv ==
    /\ CorrelationTypeOK
    /\ Agree(cache, History)
    /\ \A i \in DOMAIN logs : LET record == logs[i].from IN
          /\ logs[i] = LogOf(record)
          /\ record.kind = "json" => Decodes(record.json)
    /\ TracesAreOwn
=============================================================================
