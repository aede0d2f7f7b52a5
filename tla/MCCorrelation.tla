--------------------------- MODULE MCCorrelation ---------------------------
(***************************************************************************)
(* The records and spans of the TLC instance: two requests, and a word in  *)
(* the place of one, compete for two entries of the cache; r1 has spans of *)
(* two traces, r3 has none that counts.                                    *)
(***************************************************************************)
EXTENDS Correlation

CONSTANTS t1, t2, word, r1, r2, r3, odd, s1, s2

Json(traceId, requestId, spanId) ==
    [traceId |-> traceId, requestId |-> requestId, spanId |-> spanId]
JsonRecord(json) == [kind |-> "json", json |-> json]
TextRecord(prefix, message) ==
    [kind |-> "text", text |-> [prefix |-> prefix, message |-> message]]

MCRecord == {
    JsonRecord(Json(Absent, r1, Empty)),                 \* to be correlated
    JsonRecord(Json(Absent, r2, s2)),                    \* with a span of its own
    JsonRecord(Json(t2, r1, odd)),                       \* traced by its logger
    JsonRecord(Json(r3, r1, Absent)),                    \* with an odd trace ID
    JsonRecord(Json(Absent, word, Absent)),              \* with a request of its own
    JsonRecord(Json(Absent, Undecodable, Absent)),       \* rejected
    TextRecord(r3, Plain),                               \* a runtime's line
    TextRecord(r2, Json(Absent, r1, Absent)),            \* two request IDs
    TextRecord(r2, Json(Empty, r1, s1)),                 \* with an empty trace ID
    TextRecord(r2, Json(Absent, r1, Undecodable)),       \* JSON taken as text
    TextRecord(Absent, Json(t1, r1, s1)),                \* JSON not looked for
    TextRecord(word, Plain)}                             \* no request ID

MCSpan == {
    [ids |-> <<r1>>, trace |-> t1, span |-> s1],
    [ids |-> <<r1, r2>>, trace |-> t2, span |-> s2],
    [ids |-> <<r2>>, trace |-> t1, span |-> s2],
    [ids |-> <<word>>, trace |-> t2, span |-> s1],
    [ids |-> <<Undecodable, r3>>, trace |-> t1, span |-> s1],
    [ids |-> <<r3>>, trace |-> odd, span |-> s1]}
=============================================================================
