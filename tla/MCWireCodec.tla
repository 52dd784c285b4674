---------------------------- MODULE MCWireCodec -----------------------------
EXTENDS WireCodec

ApiGateway == INSTANCE ApiGatewayProto
AuthApi    == INSTANCE AuthProto
Worker     == INSTANCE WorkerProto
Placement  == INSTANCE PlacementProto
Reranker   == INSTANCE RerankerProto

AllServices == [apigateway |-> ApiGateway!VectronService, auth |-> AuthApi!AuthService,
                worker |-> Worker!WorkerService, placement |-> Placement!PlacementService,
                reranker |-> Reranker!RerankService]

Peer(descending, packing, extra) ==
    [descending |-> descending, packed |-> packing, extra |-> extra]

\* The client itself, a sender of the opposite habits, and one for each addition.
Senders == {Peer(FALSE, "own", "none"), Peer(TRUE, "yes", "none"),
            Peer(TRUE, "no", "number"), Peer(FALSE, "own", "message"),
            Peer(FALSE, "no", "retyped"), Peer(FALSE, "own", "padding")}

----------------------------------------------------------------------------
(* Samples: every field alone with each of its values, and all together.   *)

RECURSIVE Full(_)

ScalarSamples(field) ==
    CASE field.type = "string"             -> {"a"}
      [] field.type = "bytes"              -> {<<255, 0>>}
      [] field.type = "bool"               -> {TRUE}
      [] field.type = "int32"              -> {-1}
      [] field.type = "uint32"             -> {2147483647}
      [] field.type = "enum"               -> {1, 7}   \* 7 names no value
      [] field.type = "int64"              -> {"-9223372036854775808"}
      [] field.type = "uint64"             -> {"18446744073709551615"}
      [] field.type = "float"              -> {"0.5", "0.1", "-0"}
      [] field.type = "message"            -> {Full(field.of)}

FieldSamples(field) ==
    LET scalars == ScalarSamples(field)
        zero    == IF field.type = "message" THEN CreateBase(field.of) ELSE Zero(field.type)
    IN  CASE field.card = "one" /\ field.type = "message"
               -> {<<zero>>} \cup {<<v>> : v \in scalars}
          [] field.card = "one"  -> scalars
          [] field.card = "many" -> {<<zero>>} \cup {<<v, zero>> : v \in scalars}
          [] field.card = "map"  -> {[k \in {"", "k"} |-> IF k = "" THEN "v" ELSE ""]}

Full(fields) ==
    [f \in DOMAIN fields |-> CHOOSE v \in FieldSamples(fields[f]) : v # Default(fields[f])]

Samples(fields) ==
    {CreateBase(fields), Full(fields)} \cup
    UNION {{Create(fields, [g \in {f} |-> v]) : v \in FieldSamples(fields[f])} :
              f \in DOMAIN fields}

RECURSIVE NestingOf(_)
RECURSIVE Within(_)

NestingOf(fields) ==
    1 + Max({0} \cup {NestingOf(fields[f].of) : f \in {g \in DOMAIN fields : fields[g].type = "message"}})

\* A message with all that is inside it.
Within(p) == {p} \cup UNION {Within(q) : q \in Inside(p)}

AllTypes == UNION {UNION {{AllServices[s][m].request, AllServices[s][m].response} :
                            m \in DOMAIN AllServices[s]} : s \in DOMAIN AllServices}

AllMessages == UNION {UNION {Within(<<fields, m>>) : m \in Samples(fields)} : fields \in AllTypes}

SampleHeight == [p \in AllMessages |-> NestingOf(p[1])]
=============================================================================
