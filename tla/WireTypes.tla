------------------------------ MODULE WireTypes ------------------------------
(***************************************************************************)
(* The vocabulary in which the message modules of the JavaScript client    *)
(* (clientlibs/js/proto, written by ts-proto) are stated.  A generated     *)
(* message is a createBase function and six functions of one shape,        *)
(* encode, decode, fromJSON, toJSON, create and fromPartial, that differ   *)
(* only in the fields they go through.  A message is therefore modelled by *)
(* its fields: a function from field names to descriptors.  WireCodec      *)
(* gives the functions that are common to all messages.                    *)
(*                                                                         *)
(* Values.  A 64-bit integer is a decimal string, as in the generated      *)
(* interfaces.  A float is one of a few named doubles: "0.5" is exact in   *)
(* 32 bits, "0.1" is not and "f32(0.1)" is what it is rounded to, "-0" is  *)
(* the negative zero.  Bytes are a tuple.  A message field, which may be   *)
(* undefined, is a sequence of at most one message.  A map is a function.  *)
(***************************************************************************)
EXTENDS Integers, Sequences, FiniteSets

Descriptor(number, type) ==
    [no |-> number, type |-> type, card |-> "one", packed |-> FALSE, of |-> <<>>]

string(number) == Descriptor(number, "string")
bytes(number)  == Descriptor(number, "bytes")
bool(number)   == Descriptor(number, "bool")
int32(number)  == Descriptor(number, "int32")
uint32(number) == Descriptor(number, "uint32")
int64(number)  == Descriptor(number, "int64")
uint64(number) == Descriptor(number, "uint64")
float(number)  == Descriptor(number, "float")

enum(number, values)     == [Descriptor(number, "enum") EXCEPT !.of = values]
message(number, fields)  == [Descriptor(number, "message") EXCEPT !.of = fields]
map(number, entry)       == [message(number, entry) EXCEPT !.card = "map"]

\* Elements written one tag each, which ts-proto does for strings, bytes and
\* messages, and for a number whose field carries options.
repeated(field) == [field EXCEPT !.card = "many"]

\* Numbers written behind one tag and their length.
packed(field) == [field EXCEPT !.card = "many", !.packed = TRUE]

NoFields == <<>>

----------------------------------------------------------------------------
(* createBase: the value of every field that is not given.                 *)

Zero(type) ==
    CASE type = "string"                       -> ""
      [] type = "bytes"                        -> <<>>
      [] type = "bool"                         -> FALSE
      [] type \in {"int32", "uint32", "enum"}  -> 0
      [] type \in {"int64", "uint64"}          -> "0"
      [] type = "float"                        -> "0"
      [] type = "message"                      -> <<>>

Default(field) == IF field.card = "one" THEN Zero(field.type) ELSE <<>>

CreateBase(fields) == [f \in DOMAIN fields |-> Default(fields[f])]

\* create and fromPartial: what the caller gives, createBase's value elsewhere.
Create(fields, partial) ==
    [f \in DOMAIN fields |-> IF f \in DOMAIN partial THEN partial[f]
                                                     ELSE Default(fields[f])]

\* What `message.x !== <default>` tests: a negative zero equals zero.
IsDefault(field, value) ==
    \/ value = Default(field)
    \/ field.card = "one" /\ field.type = "float" /\ value = "-0"
=============================================================================
