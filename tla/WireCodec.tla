------------------------------ MODULE WireCodec ------------------------------
(***************************************************************************)
(* The functions that ts-proto generates for every message of the          *)
(* JavaScript client: encode, decode, toJSON and fromJSON, written once    *)
(* over the field descriptors of WireTypes.                                *)
(*                                                                         *)
(* The bytes are a sequence of tokens, one per tag: the tag, the value     *)
(* behind it, and the number of tokens of the message that it frames.      *)
(* decode is a loop over a shared reader: the calls of the nested decoders *)
(* are a stack of frames, and one step is one iteration of the loop of the *)
(* innermost decoder.                                                      *)
(***************************************************************************)
EXTENDS WireTypes, SequencesExt

CONSTANTS
    Services,   \* the service tables of the message modules, by name
    Peers,      \* the ways in which a sender may lay out a message
    Height,     \* the messages of an instance and those inside them, as <<fields, message>>,
                \* with the depth to which messages nest in each
    MaxHeight,  \* messages nest no deeper than this
    MaxNo       \* no field has a larger number

VARIABLES
    call,       \* the service, the method and the direction
    sent,       \* the message handed to encode
    phase,      \* "given", "reading", "read" or "json"
    wire,       \* the tokens
    pos,        \* reader.pos
    stack,      \* the running decoders, the innermost last
    result      \* what decode, or fromJSON after toJSON, returned

vars == <<call, sent, phase, wire, pos, stack, result>>

FieldsOf(c) == Services[c[1]][c[2]][c[3]]

\* The messages in which messages nest at most h deep.
Messages == [h \in 0..MaxHeight |-> {p \in DOMAIN Height : Height[p] <= h}]

----------------------------------------------------------------------------
(* What the types and the messages of an instance have to be.              *)

IsField(field) ==
    /\ field.no \in 1..MaxNo
    /\ field.type \in {"string", "bytes", "bool", "int32", "uint32", "int64", "uint64", "float",
                       "enum", "message"}
    /\ field.card \in {"one", "many", "map"}
    /\ field.packed \in BOOLEAN /\ (field.packed => field.type \notin {"string", "bytes", "message"})
    /\ field.type = "enum" => "UNRECOGNIZED" \notin DOMAIN field.of
    /\ field.card = "map" => field.type = "message" /\ field.of = [key |-> string(1), value |-> string(2)]

IsType(fields) ==
    /\ \A f \in DOMAIN fields : IsField(fields[f])
    /\ \A f, g \in DOMAIN fields : fields[f].no = fields[g].no => f = g

IsValue(field, value) ==
    /\ field.card = "many" \/ (field.card = "one" /\ field.type = "message") => value \in Seq(Range(value))
    /\ field.card = "one" /\ field.type = "message" => Len(value) <= 1
    /\ field.card = "map" => IsFiniteSet(DOMAIN value) /\ value = [k \in DOMAIN value |-> value[k]]

IsMessage(p) ==
    /\ p = <<p[1], p[2]>> /\ p[2] = [f \in DOMAIN p[1] |-> p[2][f]]
    /\ \A f \in DOMAIN p[1] : IsValue(p[1][f], p[2][f])

\* The entry of a map is a message of its own.
Entry(value, k) == [key |-> k, value |-> value[k]]

\* The messages directly inside one.
Inside(p) ==
    UNION {CASE p[1][f].type # "message" -> {}
             [] p[1][f].type = "message" /\ p[1][f].card # "map" -> {<<p[1][f].of, v>> : v \in Range(p[2][f])}
             [] p[1][f].type = "message" /\ p[1][f].card = "map"
                  -> {<<p[1][f].of, Entry(p[2][f], k)>> : k \in DOMAIN p[2][f]} : f \in DOMAIN p[1]}

ASSUME WireAssumption ==
    /\ MaxHeight \in Nat /\ MaxNo \in Nat
    /\ Peers \subseteq [descending : BOOLEAN, packed : {"own", "yes", "no"},
                        extra : {"none", "number", "message", "retyped", "padding"}]
    /\ \A p \in DOMAIN Height :
          /\ Height[p] \in 1..MaxHeight
          /\ IsType(p[1]) /\ IsMessage(p)
          /\ \A q \in Inside(p) : q \in DOMAIN Height /\ Height[q] < Height[p]

----------------------------------------------------------------------------
(* encode.                                                                 *)

WireType(type) == CASE type \in {"bool", "int32", "uint32", "int64", "uint64", "enum"} -> 0
                    [] type \in {"string", "bytes", "message"}                         -> 2
                    [] type = "float"                                                  -> 5

IsNumber(field) == WireType(field.type) # 2

Tag(number, wireType) == number * 8 + wireType

\* BinaryWriter.float stores 32 bits of the double.
WriteScalar(type, value) == IF type = "float" /\ value = "0.1" THEN "f32(0.1)" ELSE value

Token(tag, value, body) == [tag |-> tag, val |-> value, body |-> body]

\* writer.uint32(tag).fork() ... join()
Framed(number, body) == <<Token(Tag(number, 2), <<>>, Len(body))>> \o body

\* The client's own layout of a field is peer.packed = "own".
Packs(field, peer) == \/ peer.packed = "own" /\ field.packed
                      \/ peer.packed = "yes" /\ IsNumber(field)

FieldNo(fields, number) == CHOOSE f \in DOMAIN fields : fields[f].no = number

\* What a sender may add that this client has no case for: a field of a later
\* version, fields whose type has changed, or a zero tag as padding.
Extra(peer) ==
    CASE peer.extra = "none"    -> <<>>
      [] peer.extra = "number"  -> << <<Token(Tag(MaxNo + 1, 0), 1, 0)>> >>
      [] peer.extra = "message" -> <<Framed(MaxNo + 1, <<Token(Tag(1, 2), "b", 0),
                                                         Token(Tag(2, 5), "0.5", 0)>>)>>
      [] peer.extra = "retyped" -> [i \in 1..MaxNo |-> <<Token(Tag(i, 1), "0.5", 0)>>]
      [] peer.extra = "padding" -> << <<Token(0, 0, 0)>> >>

\* The pieces that a field is written in: a tag with what belongs to it.  encode
\* are the encodings of the messages that may be inside.
EncodeField(encode, field, value, peer) ==
    LET scalar(v) == <<Token(Tag(field.no, WireType(field.type)), WriteScalar(field.type, v), 0)>>
        one(v)    == IF field.type = "message" THEN Framed(field.no, encode[<<field.of, v>>])
                                               ELSE scalar(v)
        keys      == SetToSeq(DOMAIN value)
    IN  CASE field.card = "one" /\ IsDefault(field, value)         -> <<>>
          [] field.card = "one" /\ ~IsDefault(field, value)
               -> <<one(IF field.type = "message" THEN value[1] ELSE value)>>
          [] field.card = "many" /\ Packs(field, peer)
               -> << <<Token(Tag(field.no, 2),
                             [i \in DOMAIN value |-> WriteScalar(field.type, value[i])], 0)>> >>
          [] field.card = "many" /\ ~Packs(field, peer) -> [i \in DOMAIN value |-> one(value[i])]
          [] field.card = "map" -> [i \in DOMAIN keys |-> one(Entry(value, keys[i]))]

\* The generated code writes the fields by number; the encoding fixes no order.
Place(peer, number) == IF peer.descending THEN MaxNo + 1 - number ELSE number

\* The fields of a message, each in its pieces, in the order they are written in.
EncodeFields(encode, p, peer) ==
    Append([i \in 1..MaxNo |->
              IF \E f \in DOMAIN p[1] : p[1][f].no = Place(peer, i)
              THEN LET f == FieldNo(p[1], Place(peer, i))
                   IN  EncodeField(encode, p[1][f], p[2][f], peer)
              ELSE <<>>],
           Extra(peer))

\* Foo.encode(message, writer), for the messages in which others nest at most h deep.
Encode(peer) ==
    LET encode[h \in 0..MaxHeight] ==
            [p \in Messages[h] |->
                FlattenSeq(FlattenSeq(EncodeFields(encode[h - 1], p, peer)))]
    IN  encode

----------------------------------------------------------------------------
(* toJSON and fromJSON.                                                    *)

\* fooToJSON(value) and fooFromJSON(name): a number that names no value of the
\* enumeration becomes "UNRECOGNIZED", and comes back as -1.
EnumToJSON(values, v) ==
    IF \E n \in DOMAIN values : values[n] = v THEN CHOOSE n \in DOMAIN values : values[n] = v
                                              ELSE "UNRECOGNIZED"

\* Mutant: an unknown name becomes the first value.
EnumFromJSON_First(values, name) == IF name \in DOMAIN values THEN values[name] ELSE 0

EnumFromJSON(values, name) == IF name \in DOMAIN values THEN values[name] ELSE -1

ToJSONValue(toJSON, field, v) == CASE field.type = "enum"    -> EnumToJSON(field.of, v)
                                   [] field.type = "message" -> toJSON[<<field.of, v>>]
                                   [] field.type = "bytes"   -> [base64 |-> v]
                                   [] OTHER                  -> v

FromJSONValue(fromJSON, field, v) == CASE field.type = "enum"    -> EnumFromJSON(field.of, v)
                                       [] field.type = "message" -> fromJSON[<<field.of, v>>]
                                       [] field.type = "bytes"   -> v.base64
                                       [] OTHER                  -> v

ToJSONField(toJSON, field, value) ==
    CASE field.card = "one" /\ field.type = "message" -> ToJSONValue(toJSON, field, value[1])
      [] field.card = "one" /\ field.type # "message" -> ToJSONValue(toJSON, field, value)
      [] field.card = "many" -> [i \in DOMAIN value |-> ToJSONValue(toJSON, field, value[i])]
      [] field.card = "map"  -> value

FromJSONField(fromJSON, field, v) ==
    CASE field.card = "one" /\ field.type = "message" -> <<FromJSONValue(fromJSON, field, v)>>
      [] field.card = "one" /\ field.type # "message" -> FromJSONValue(fromJSON, field, v)
      [] field.card = "many" -> [i \in DOMAIN v |-> FromJSONValue(fromJSON, field, v[i])]
      [] field.card = "map"  -> v

\* A property is set only when the field differs from its default.
ToJSONFields(toJSON, p) ==
    [f \in {g \in DOMAIN p[1] : ~IsDefault(p[1][g], p[2][g])} |-> ToJSONField(toJSON, p[1][f], p[2][f])]

\* isSet(object.f) ? ... : the default
FromJSONFields(fromJSON, fields, object) ==
    [f \in DOMAIN fields |-> IF f \in DOMAIN object THEN FromJSONField(fromJSON, fields[f], object[f])
                                                    ELSE Default(fields[f])]

ToJSON[h \in 0..MaxHeight] == [p \in Messages[h] |-> ToJSONFields(ToJSON[h - 1], p)]

\* The objects that fromJSON is called with, by the fields of their types.
Objects(h) == {<<p[1], ToJSON[h][p]>> : p \in Messages[h]}

FromJSON[h \in 0..MaxHeight] ==
    [o \in Objects(h) |-> FromJSONFields(FromJSON[h - 1], o[1], o[2])]

----------------------------------------------------------------------------
(* decode.                                                                 *)

\* Mutant: a repeated number is read only the way this side writes it.
Tags_OwnPacking(field) ==
    {Tag(field.no, IF field.packed THEN 2 ELSE WireType(field.type))}

\* The tags that a field's case accepts: a repeated number is read packed and
\* unpacked, whichever way this side would write it.
Tags(field) ==
    {Tag(field.no, WireType(field.type))} \cup
    (IF field.card = "many" /\ IsNumber(field) THEN {Tag(field.no, 2)} ELSE {})

Frame(fields, end, into) ==
    [fields |-> fields, end |-> end, msg |-> CreateBase(fields), into |-> into]

Inner == Last(stack)
Upcoming == wire[pos]

\* `while (reader.pos < end)`, and the break on a zero tag or an end of group.
AtEnd == pos <= Inner.end => (Upcoming.tag % 8 = 4 \/ Upcoming.tag = 0)

Known(f) == Upcoming.tag \in Tags(Inner.fields[f])

Init ==
    /\ \E s \in DOMAIN Services : \E m \in DOMAIN Services[s] :
          \E d \in {"request", "response"} : call = <<s, m, d>>
    /\ \E p \in Messages[MaxHeight] : p[1] = FieldsOf(call) /\ sent = p[2]
    /\ phase = "given" /\ wire = <<>> /\ pos = 1 /\ stack = <<>> /\ result = <<>>

\* encode(...).finish() on one side, the call of decode on the other.
Send ==
    /\ phase = "given"
    /\ \E peer \in Peers : wire' = Encode(peer)[MaxHeight][<<FieldsOf(call), sent>>]
    /\ stack' = <<Frame(FieldsOf(call), Len(wire'), "")>>
    /\ phase' = "reading"
    /\ UNCHANGED <<call, sent, pos, result>>

ThroughJSON ==
    /\ phase = "given"
    /\ LET object == ToJSON[MaxHeight][<<FieldsOf(call), sent>>]
       IN  result' = <<FromJSON[MaxHeight][<<FieldsOf(call), object>>]>>
    /\ phase' = "json"
    /\ UNCHANGED <<call, sent, wire, pos, stack>>

\* A case that reads a scalar, an element or a packed run of elements.
ReadValue ==
    /\ phase = "reading" /\ ~AtEnd
    /\ \E f \in DOMAIN Inner.fields :
          LET field == Inner.fields[f]
              old   == Inner.msg[f]
              new   == CASE field.card = "one" -> Upcoming.val
                         [] field.card = "many" /\ IsNumber(field) /\ Upcoming.tag % 8 = 2
                              -> old \o Upcoming.val
                         [] field.card = "many" /\ ~(IsNumber(field) /\ Upcoming.tag % 8 = 2)
                              -> Append(old, Upcoming.val)
          IN  /\ Known(f) /\ field.type # "message"
              /\ stack' = [stack EXCEPT ![Len(stack)].msg[f] = new]
    /\ pos' = pos + 1
    /\ UNCHANGED <<call, sent, phase, wire, result>>

\* Mutant: off by one in the end of a nested message.
EnterMessage_Overruns ==
    /\ phase = "reading" /\ ~AtEnd
    /\ \E f \in DOMAIN Inner.fields :
          /\ Known(f) /\ Inner.fields[f].type = "message"
          /\ stack' = Append(stack, Frame(Inner.fields[f].of, pos + Upcoming.body + 1, f))
    /\ pos' = pos + 1
    /\ UNCHANGED <<call, sent, phase, wire, result>>

\* Foo.decode(reader, reader.uint32())
EnterMessage ==
    /\ phase = "reading" /\ ~AtEnd
    /\ \E f \in DOMAIN Inner.fields :
          /\ Known(f) /\ Inner.fields[f].type = "message"
          /\ stack' = Append(stack, Frame(Inner.fields[f].of, pos + Upcoming.body, f))
    /\ pos' = pos + 1
    /\ UNCHANGED <<call, sent, phase, wire, result>>

\* Mutant: the tag is looked at, not read.
SkipField_Stays ==
    /\ phase = "reading" /\ ~AtEnd
    /\ \A f \in DOMAIN Inner.fields : ~Known(f)
    /\ UNCHANGED vars

\* reader.skip(tag & 7)
SkipField ==
    /\ phase = "reading" /\ ~AtEnd
    /\ \A f \in DOMAIN Inner.fields : ~Known(f)
    /\ pos' = pos + 1 + Upcoming.body
    /\ UNCHANGED <<call, sent, phase, wire, stack, result>>

\* The tag that breaks the loop has been read.
AfterEnd == IF pos > Inner.end THEN pos ELSE pos + 1

\* A nested decoder returns: the field is set, pushed to, or put in the map.
LeaveMessage ==
    /\ phase = "reading" /\ AtEnd /\ Len(stack) > 1
    /\ LET outer == stack[Len(stack) - 1]
           f     == Inner.into
           old   == outer.msg[f]
           new   == CASE outer.fields[f].card = "one"  -> <<Inner.msg>>
                      [] outer.fields[f].card = "many" -> Append(old, Inner.msg)
                      [] outer.fields[f].card = "map"
                           -> [k \in DOMAIN old \cup {Inner.msg.key} |->
                                  IF k = Inner.msg.key THEN Inner.msg.value ELSE old[k]]
       IN  stack' = [Front(stack) EXCEPT ![Len(stack) - 1].msg[f] = new]
    /\ pos' = AfterEnd
    /\ UNCHANGED <<call, sent, phase, wire, result>>

Return ==
    /\ phase = "reading" /\ AtEnd /\ Len(stack) = 1
    /\ result' = <<Inner.msg>>
    /\ phase' = "read" /\ stack' = <<>> /\ pos' = AfterEnd
    /\ UNCHANGED <<call, sent, wire>>

Decode == ReadValue \/ EnterMessage \/ SkipField \/ LeaveMessage \/ Return

Next == Send \/ ThroughJSON \/ Decode

\* decode runs to its end once called: it is synchronous.
Spec == Init /\ [][Next]_vars /\ WF_vars(Decode)

----------------------------------------------------------------------------
(* Properties.                                                             *)

\* The reader never runs past the message that the innermost decoder was given,
\* and the messages of the running decoders lie within one another, each with
\* the fields of its type (the `end` of every decode).
WireTypeOK ==
    /\ phase \in {"given", "reading", "read", "json"}
    /\ phase = "reading" <=> stack # <<>>
    /\ \A i \in DOMAIN stack :
          /\ pos <= stack[i].end + 1
          /\ i > 1 => stack[i].end <= stack[i - 1].end
          /\ DOMAIN stack[i].msg = DOMAIN stack[i].fields
    /\ Len(result) <= 1

\* What must come out of a field: its value, with its floats at 32 bits after the
\* wire, and with -1 for a value that its enumeration does not have after JSON; the
\* sign of a zero that is not sent is lost.
ScalarAfter(medium, after, field, v) ==
    CASE field.type = "message" -> after[<<field.of, v>>]
      [] medium = "wire" /\ field.type = "float" /\ v = "0.1" -> "f32(0.1)"
      [] medium = "json" /\ field.type = "enum" /\ v \notin {field.of[n] : n \in DOMAIN field.of} -> -1
      [] OTHER -> v

FieldAfter(medium, after, field, value) ==
    CASE IsDefault(field, value) -> Default(field)
      [] ~IsDefault(field, value) /\ field.card = "map" -> value
      [] ~IsDefault(field, value) /\ field.card # "map" /\ (field.card = "many" \/ field.type = "message")
           -> [i \in DOMAIN value |-> ScalarAfter(medium, after, field, value[i])]
      [] ~IsDefault(field, value) /\ field.card = "one" /\ field.type # "message"
           -> ScalarAfter(medium, after, field, value)

\* What must come out of a message: the same message, field by field.
After(medium) ==
    LET after[h \in 0..MaxHeight] ==
            [p \in Messages[h] |->
                [f \in DOMAIN p[1] |-> FieldAfter(medium, after[h - 1], p[1][f], p[2][f])]]
    IN  after

\* Every message of the five services is decoded to what was encoded, whatever
\* order and packing the sender uses and whatever it adds that this version does
\* not know (encode and decode of every generated message).
RoundTrip == phase = "read" => result = <<After("wire")[MaxHeight][<<FieldsOf(call), sent>>]>>

\* fromJSON(toJSON(m)) loses no field of any message of the five services: 64-bit
\* numbers keep all their digits, presence and empty elements survive.
JsonRoundTrip == phase = "json" => result = <<After("json")[MaxHeight][<<FieldsOf(call), sent>>]>>

\* decode returns: every iteration of every loop moves the shared reader on.
DecodeReturns == phase = "reading" ~> phase = "read"
=============================================================================
