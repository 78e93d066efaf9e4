------------------------------ MODULE Message ------------------------------
(***************************************************************************)
(* The messages of the metric log and their wire format: the classes       *)
(* Header, Field and Message of message.pb.cc.                             *)
(*                                                                         *)
(* An object is a function from the names of the fields whose has-bit is   *)
(* set to their values; repeated fields are always in its domain.  Strings *)
(* are atoms, spelled in bytes by Utf8; bytes fields hold their bytes.  A  *)
(* double is a small number, the first of its eight bytes.                 *)
(***************************************************************************)
EXTENDS Integers, SequencesExt

CONSTANTS
    Utf8,       \* the bytes of every string
    Malformed   \* what a reader makes of bytes that are no message

ASSUME Utf8Assumption ==
    /\ \A s \in DOMAIN Utf8 : Utf8[s] \in Seq(0 .. 255)
    /\ \A s, t \in DOMAIN Utf8 : Utf8[s] = Utf8[t] => s = t

Str(bytes) == CHOOSE s \in DOMAIN Utf8 : Utf8[s] = bytes

-----------------------------------------------------------------------------
(***************************************************************************)
(* WireFormatLite, as far as the generated code uses it: numbers in base   *)
(* 128 with the lowest digit first, and every field led by a tag.          *)
(***************************************************************************)

VARINT           == 0
FIXED64          == 1
LENGTH_DELIMITED == 2

Varint[n \in Nat] ==
    IF n < 128 THEN <<n>> ELSE <<128 + (n % 128)>> \o Varint[n \div 128]

VarintSize[n \in Nat] == IF n < 128 THEN 1 ELSE 1 + VarintSize[n \div 128]

Tag(number, wire) == Varint[8 * number + wire]

Delimited(number, bytes) ==
    Tag(number, LENGTH_DELIMITED) \o Varint[Len(bytes)] \o bytes

\* The size of what Delimited() writes behind its tag.
DelimitedSize(n) == VarintSize[n] + n

DoubleBytes(d) == <<d, 0, 0, 0, 0, 0, 0, 0>>
BoolBytes(b) == IF b THEN <<1>> ELSE <<0>>

\* Each element of a sequence in bytes, one behind the other.
Each(op(_), s) == FlattenSeq([i \in DOMAIN s |-> op(s[i])])
EachSize(op(_), s) == FoldLeft(LAMBDA n, e : n + op(e), 0, s)

UnknownBytes(items) ==
    Each(LAMBDA it :
            IF it.wire = VARINT THEN Tag(it.number, VARINT) \o Varint[it.value]
            ELSE IF it.wire = FIXED64 THEN Tag(it.number, FIXED64) \o it.value
            ELSE Delimited(it.number, it.value), items)

\* The fields of a message: tag number, wire type and value of each, up to the
\* end of the bytes; the wire type is "bad" where they stop making sense.
Bad == <<[number |-> 0, wire |-> -1, value |-> 0]>>

\* A number has ten digits at most.
LastDigit(s, i) ==
    SelectInSubSeq(s, i, IF i + 9 < Len(s) THEN i + 9 ELSE Len(s),
                   LAMBDA b : b < 128)

Number(s, i) ==
    LET value[k \in i .. LastDigit(s, i)] ==
            IF k = LastDigit(s, i) THEN s[k]
                                   ELSE (s[k] % 128) + 128 * value[k + 1]
    IN  value[i]

\* Item(s, i) begins at s[i] with its tag, a single byte.
Item(number, wire, value) == [number |-> number, wire |-> wire, value |-> value]

Items(s) ==
    LET from[i \in 1 .. Len(s) + 1] ==
            IF i = Len(s) + 1 THEN <<>>
            ELSE LET n == s[i] \div 8
                     w == s[i] % 8
                     e == LastDigit(s, i + 1)     \* the end of a number
                     l == IF e = 0 THEN 0 ELSE Number(s, i + 1)
                 IN  CASE w = VARINT /\ e # 0 ->
                            <<Item(n, w, l)>> \o from[e + 1]
                       [] w = FIXED64 /\ i + 8 <= Len(s) ->
                            <<Item(n, w, SubSeq(s, i + 1, i + 8))>> \o from[i + 9]
                       [] w = LENGTH_DELIMITED /\ e # 0 /\ e + l <= Len(s) ->
                            <<Item(n, w, SubSeq(s, e + 1, e + l))>>
                                \o from[e + l + 1]
                       [] OTHER -> Bad
    IN  from[1]

\* What is packed: the numbers, or the eight bytes of each double, one behind
\* the other.
Numbers(s) ==
    LET from[i \in 1 .. Len(s) + 1] ==
            IF i = Len(s) + 1 THEN <<>>
            ELSE <<Number(s, i)>> \o from[LastDigit(s, i) + 1]
    IN  from[1]

Doubles(s) == [i \in 1 .. Len(s) \div 8 |-> s[8 * i - 7]]

-----------------------------------------------------------------------------
(***************************************************************************)
(* What the three classes share: the has-bits and the way one field is     *)
(* measured and written.                                                   *)
(***************************************************************************)

Set(obj, name, value) ==
    [n \in DOMAIN obj \union {name} |-> IF n = name THEN value ELSE obj[n]]

HasVarint(obj, name, number) ==
    IF name \in DOMAIN obj THEN Tag(number, VARINT) \o Varint[obj[name]] ELSE <<>>

HasString(obj, name, number) ==
    IF name \in DOMAIN obj THEN Delimited(number, Utf8[obj[name]]) ELSE <<>>

HasBytes(obj, name, number) ==
    IF name \in DOMAIN obj THEN Delimited(number, obj[name]) ELSE <<>>

VarintLen(obj, name) ==
    IF name \in DOMAIN obj THEN 1 + VarintSize[obj[name]] ELSE 0

StringLen(obj, name) ==
    IF name \in DOMAIN obj THEN 1 + DelimitedSize(Len(Utf8[obj[name]])) ELSE 0

BytesLen(obj, name) ==
    IF name \in DOMAIN obj THEN 1 + DelimitedSize(Len(obj[name])) ELSE 0

\* handle_uninterpreted: a field this version does not know, or not with this
\* wire type, is kept as it came.
Uninterpreted(obj, it) == Set(obj, "unknown", Append(obj.unknown, it))

\* MergePartialFromCodedStream() takes the items in their order and gives up at
\* the first that does not make sense.
MergeItems(take(_, _), obj, items) ==
    FoldLeft(LAMBDA o, it : IF o = Malformed \/ it.wire = -1 THEN Malformed
                            ELSE take(o, it), obj, items)

-----------------------------------------------------------------------------
(***************************************************************************)
(* Header: the length of the message that follows, and its signature,      *)
(* which this program does not set.                                        *)
(***************************************************************************)

NewHeader == [unknown |-> <<>>]

HeaderIsInitialized(h) == "message_length" \in DOMAIN h

HeaderBytes(h) ==
    HasVarint(h, "message_length", 1) \o HasVarint(h, "hmac_hash_function", 3)
    \o HasString(h, "hmac_signer", 4) \o HasVarint(h, "hmac_key_version", 5)
    \o HasBytes(h, "hmac", 6) \o UnknownBytes(h.unknown)

HeaderByteSize(h) ==
    VarintLen(h, "message_length") + VarintLen(h, "hmac_hash_function")
    + StringLen(h, "hmac_signer") + VarintLen(h, "hmac_key_version")
    + BytesLen(h, "hmac") + Len(UnknownBytes(h.unknown))

HeaderMerge(h, s) ==
    LET Take(o, it) ==
            CASE it.number = 1 /\ it.wire = VARINT ->
                    Set(o, "message_length", it.value)
              [] it.number = 3 /\ it.wire = VARINT /\ it.value \in 0 .. 1 ->
                    Set(o, "hmac_hash_function", it.value)
              [] it.number = 4 /\ it.wire = LENGTH_DELIMITED ->
                    Set(o, "hmac_signer", Str(it.value))
              [] it.number = 5 /\ it.wire = VARINT ->
                    Set(o, "hmac_key_version", it.value)
              [] it.number = 6 /\ it.wire = LENGTH_DELIMITED ->
                    Set(o, "hmac", it.value)
              [] OTHER -> Uninterpreted(o, it)
    IN  MergeItems(Take, h, Items(s))

-----------------------------------------------------------------------------
(***************************************************************************)
(* Field: a name, what its values represent, and the values of one type.   *)
(***************************************************************************)

DOUBLE == 3   \* ValueType is STRING, BYTES, INTEGER, DOUBLE or BOOL, from 0 on

NewField ==
    [value_string |-> <<>>, value_bytes |-> <<>>, value_integer |-> <<>>,
     value_double |-> <<>>, value_bool |-> <<>>, unknown |-> <<>>]

\* Mutant of FieldClear: the values of the last message stay.
FieldClearKeepsValues(f) == [NewField EXCEPT !.value_double = f.value_double]

\* Clear() leaves nothing behind but memory.
FieldClear(f) == NewField

FieldIsInitialized(f) == "name" \in DOMAIN f

\* The elements of a packed field share one tag and one length, which is not
\* written for no elements.
Packed(number, bytes) == IF bytes = <<>> THEN <<>> ELSE Delimited(number, bytes)
PackedLen(n) == IF n = 0 THEN 0 ELSE 1 + DelimitedSize(n)

FieldBytes(f) ==
    HasString(f, "name", 1) \o HasVarint(f, "value_type", 2)
    \o HasString(f, "representation", 3)
    \o Each(LAMBDA v : Delimited(4, Utf8[v]), f.value_string)
    \o Each(LAMBDA v : Delimited(5, v), f.value_bytes)
    \o Packed(6, Each(LAMBDA v : Varint[v], f.value_integer))
    \o Packed(7, Each(DoubleBytes, f.value_double))
    \o Packed(8, Each(BoolBytes, f.value_bool))
    \o UnknownBytes(f.unknown)

FieldByteSize(f) ==
    StringLen(f, "name") + VarintLen(f, "value_type")
    + StringLen(f, "representation")
    + EachSize(LAMBDA v : 1 + DelimitedSize(Len(Utf8[v])), f.value_string)
    + EachSize(LAMBDA v : 1 + DelimitedSize(Len(v)), f.value_bytes)
    + PackedLen(EachSize(LAMBDA v : VarintSize[v], f.value_integer))
    + PackedLen(8 * Len(f.value_double))
    + PackedLen(Len(f.value_bool))
    + Len(UnknownBytes(f.unknown))

\* Numbers, doubles and Booleans are also taken one by one, each under a tag.
FieldMerge(f, s) ==
    LET Take(o, it) ==
            LET Is(number, wire) == it.number = number /\ it.wire = wire
            IN  CASE Is(1, LENGTH_DELIMITED) -> Set(o, "name", Str(it.value))
                  [] Is(2, VARINT) /\ it.value \in 0 .. 4 ->
                        Set(o, "value_type", it.value)
                  [] Is(3, LENGTH_DELIMITED) ->
                        Set(o, "representation", Str(it.value))
                  [] Is(4, LENGTH_DELIMITED) ->
                        [o EXCEPT !.value_string = Append(@, Str(it.value))]
                  [] Is(5, LENGTH_DELIMITED) ->
                        [o EXCEPT !.value_bytes = Append(@, it.value)]
                  [] Is(6, LENGTH_DELIMITED) ->
                        [o EXCEPT !.value_integer = @ \o Numbers(it.value)]
                  [] Is(6, VARINT) ->
                        [o EXCEPT !.value_integer = Append(@, it.value)]
                  [] Is(7, LENGTH_DELIMITED) ->
                        [o EXCEPT !.value_double = @ \o Doubles(it.value)]
                  [] Is(7, FIXED64) ->
                        [o EXCEPT !.value_double = @ \o Doubles(it.value)]
                  [] Is(8, LENGTH_DELIMITED) ->
                        [o EXCEPT !.value_bool =
                                @ \o [i \in DOMAIN it.value |-> it.value[i] # 0]]
                  [] Is(8, VARINT) ->
                        [o EXCEPT !.value_bool = Append(@, it.value # 0)]
                  [] OTHER -> Uninterpreted(o, it)
    IN  MergeItems(Take, f, Items(s))

-----------------------------------------------------------------------------
(***************************************************************************)
(* Message.  Its repeated field keeps the Field objects it has ever had:   *)
(* elements[1 .. size] are the fields of the message, the others wait to   *)
(* be used again.                                                          *)
(***************************************************************************)

NewMessage == [elements |-> <<>>, size |-> 0, unknown |-> <<>>]

Fields(m) == SubSeq(m.elements, 1, m.size)

\* The objects stay, cleared.
clear_fields(m) ==
    [m EXCEPT !.elements = [i \in DOMAIN @ |-> IF i <= m.size THEN FieldClear(@[i])
                                                              ELSE @[i]],
              !.size = 0]

\* The first object that waits, or a new one, for the caller to fill in.
add_fields(m) ==
    [m EXCEPT !.elements = IF m.size < Len(@) THEN @ ELSE Append(@, NewField),
              !.size = @ + 1]

MessageClear(m) ==
    [n \in {"elements", "size", "unknown"} |->
        IF n = "unknown" THEN <<>> ELSE clear_fields(m)[n]]

MessageIsInitialized(m) ==
    /\ {"uuid", "timestamp"} \subseteq DOMAIN m
    /\ \A i \in 1 .. m.size : FieldIsInitialized(m.elements[i])

MessageBytes(m) ==
    HasBytes(m, "uuid", 1) \o HasVarint(m, "timestamp", 2)
    \o HasString(m, "type", 3) \o HasString(m, "logger", 4)
    \o HasVarint(m, "severity", 5) \o HasString(m, "payload", 6)
    \o HasString(m, "env_version", 7) \o HasVarint(m, "pid", 8)
    \o HasString(m, "hostname", 9)
    \o Each(LAMBDA f : Delimited(10, FieldBytes(f)), Fields(m))
    \o UnknownBytes(m.unknown)

MessageByteSize(m) ==
    BytesLen(m, "uuid") + VarintLen(m, "timestamp") + StringLen(m, "type")
    + StringLen(m, "logger") + VarintLen(m, "severity")
    + StringLen(m, "payload") + StringLen(m, "env_version")
    + VarintLen(m, "pid") + StringLen(m, "hostname")
    + EachSize(LAMBDA f : 1 + DelimitedSize(FieldByteSize(f)), Fields(m))
    + Len(UnknownBytes(m.unknown))

MessageMerge(m, s) ==
    LET Text(o, it, name) == Set(o, name, Str(it.value))
        Take(o, it) ==
            CASE it.number = 1 /\ it.wire = LENGTH_DELIMITED -> Set(o, "uuid", it.value)
              [] it.number = 2 /\ it.wire = VARINT -> Set(o, "timestamp", it.value)
              [] it.number = 3 /\ it.wire = LENGTH_DELIMITED -> Text(o, it, "type")
              [] it.number = 4 /\ it.wire = LENGTH_DELIMITED -> Text(o, it, "logger")
              [] it.number = 5 /\ it.wire = VARINT -> Set(o, "severity", it.value)
              [] it.number = 6 /\ it.wire = LENGTH_DELIMITED -> Text(o, it, "payload")
              [] it.number = 7 /\ it.wire = LENGTH_DELIMITED -> Text(o, it, "env_version")
              [] it.number = 8 /\ it.wire = VARINT -> Set(o, "pid", it.value)
              [] it.number = 9 /\ it.wire = LENGTH_DELIMITED -> Text(o, it, "hostname")
              [] it.number = 10 /\ it.wire = LENGTH_DELIMITED ->
                    IF FieldMerge(NewField, it.value) = Malformed THEN Malformed
                    ELSE [add_fields(o) EXCEPT
                            !.elements[o.size + 1] = FieldMerge(@, it.value)]
              [] OTHER -> Uninterpreted(o, it)
    IN  MergeItems(Take, m, Items(s))

=============================================================================
