---------------------------- MODULE MCJsClient -----------------------------
EXTENDS JsBatch

ClientOptions(hedged, delay, attempts, retryWrites, codes) ==
    [timeout |-> TRUE, hedgedReads |-> hedged, hedgeDelay |-> delay,
     retryMaxAttempts |-> attempts, retryOnWrites |-> retryWrites,
     retryableStatusCodes |-> codes]

\* The defaults, hedged reads, writes retried, and one retry for other codes.
AllOptions == {ClientOptions(FALSE, TRUE, 2, FALSE, {}), ClientOptions(TRUE, TRUE, 2, FALSE, {}),
               ClientOptions(TRUE, FALSE, 2, TRUE, {}), ClientOptions(FALSE, TRUE, 0, TRUE, {"INTERNAL"}),
               [ClientOptions(FALSE, TRUE, 2, FALSE, {}) EXCEPT !.timeout = FALSE]}

HedgedOptions == {ClientOptions(TRUE, TRUE, 2, FALSE, {})}

Point(bytes, valid) == [bytes |-> bytes, valid |-> valid]

PointLists == {<<>>, <<Point(3, TRUE), Point(1, TRUE), Point(1, TRUE)>>,
               <<Point(1, TRUE), Point(1, FALSE), Point(2, TRUE)>>}
\* Two single calls; the reads differ in nothing but get's check of the point.
TwoCalls == <<{"createCollection", "upsert", "get"}, {"createCollection", "delete", "search"}, {}>>
OneRead == <<{"get"}>>
NoSlots == <<>>
Slots == <<1, 2, 3>>
=============================================================================
