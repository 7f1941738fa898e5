------------------------------- MODULE Codec -------------------------------
(****************************************************************************
The binary codec (protocol/codec.py): how a structure becomes bytes and how bytes
become a structure again, over any tables of classes and of their slots; the package's
are those of LLRPParams, ImpinjParams and LLRPMessages.

The wire is a sequence of bytes. A structure is a record
   cls     its class, or one of the four Unknown... classes
   id      what identifies it beyond its class: <<>> for a known parameter, the
           type or vendor and subtype bytes of an unknown one, and for a message
           the version and the message ID's bytes before those
   fields  for each field of the class its bits, a vector's count among them, and
           none for reserved ones; of an unknown class its payload
   slots   one sequence of structures per slot of the class
   extra   the sub-parameters that matched no slot (_unbound_params)
What the bits of a field mean (numbers, signs, enumerations, texts) is left out;
reserved bits are read over and written as zero.
****************************************************************************)
EXTENDS LLRPStructs, FiniteSetsExt, SequencesExt

CONSTANTS Classes,      \* what each class says of itself, by its name
          AllSlots      \* the slots of the classes that have some

Unknown == {"UnknownParameter", "UnknownCustomParameter", "UnknownMessage", "UnknownCustomMessage"}

Byte == 0..255

VENDOR_ID == <<0, 0, 101, 26>>     \* 25882, Impinj

TYPE_CUSTOM == 1023

MAX_TLV == 65535

SlotsOf(c) == IF c \in DOMAIN AllSlots THEN AllSlots[c] ELSE <<>>

IsMessage(c) == IF c \in Unknown THEN c \in {"UnknownMessage", "UnknownCustomMessage"}
                                 ELSE Classes[c].kind \in {"msg", "custommsg"}

\* to_bytes(size, "big"); a first byte beyond 255 is its OverflowError.
PutU16(n) == <<n \div 256, n % 256>>

TopByte(n) == n \div 16777216

PutU32(n) == <<TopByte(n), (n \div 65536) % 256, (n \div 256) % 256, n % 256>>

U16(w, pos) == w[pos + 1] * 256 + w[pos + 2]

\* The registries: what register_parameter and register_message enter, by kind, a vendor
\* class under the bytes of its vendor and subtype.
OfKinds(kinds) == {c \in DOMAIN Classes : Classes[c].kind \in kinds}

Key(c) == CASE Classes[c].kind = "custom" -> VENDOR_ID \o PutU32(Classes[c].type)
            [] Classes[c].kind = "custommsg" -> Append(VENDOR_ID, Classes[c].type)
            [] OTHER -> Classes[c].type

Registry(kinds) ==
    [k \in {Key(c) : c \in OfKinds(kinds)} |-> CHOOSE c \in OfKinds(kinds) : Key(c) = k]

PARAMETER_REGISTRY == Registry({"tlv", "tv"})

CUSTOM_PARAMETER_REGISTRY == Registry({"custom"})

MESSAGE_REGISTRY == Registry({"msg"})

CUSTOM_MESSAGE_REGISTRY == Registry({"custommsg"})

-----------------------------------------------------------------------------
(* Bits. *)

Weight == <<128, 64, 32, 16, 8, 4, 2, 1>>

\* Mutant of Bit: the bits are taken from the low end of the byte.
BitLow(w, p) == (w[p \div 8 + 1] \div Weight[8 - (p % 8)]) % 2

\* Bit p of a wire.
Bit(w, p) == (w[p \div 8 + 1] \div Weight[(p % 8) + 1]) % 2

\* ByteReader.bits: n bits from p on.
Bits(w, p, n) == [i \in 1..n |-> Bit(w, p + i - 1)]

\* ByteWriter.bits: eight of them make a byte.
PackByte(bits, i) ==
    bits[8 * i - 7] * 128 + bits[8 * i - 6] * 64 + bits[8 * i - 5] * 32 + bits[8 * i - 4] * 16
        + bits[8 * i - 3] * 8 + bits[8 * i - 2] * 4 + bits[8 * i - 1] * 2 + bits[8 * i]

Pack(bits) == [i \in 1..(Len(bits) \div 8) |-> PackByte(bits, i)]

-----------------------------------------------------------------------------
(* Fields. *)

\* Raw bytes and vectors, which begin on a byte: _require_aligned.
Raw(kind) == kind > 64

Written(ok, bits) == [ok |-> ok, bits |-> bits]

WriteField(o, kind, value) ==
    Written(o.ok /\ (Raw(kind) => Len(o.bits) % 8 = 0),
            o.bits \o IF kind < 0 THEN [k \in 1..(-kind) |-> 0] ELSE value)

\* _encode_fields: what is written after each field.
Writing(kinds, values) ==
    LET out[i \in 0..Len(kinds)] ==
            IF i = 0 THEN Written(TRUE, <<>>) ELSE WriteField(out[i - 1], kinds[i], values[i])
    IN  out

WriteFields(c, values) == Writing(Classes[c].fields, values)[Len(Classes[c].fields)]

\* getvalue() demands byte alignment.
Aligned(o) == o.ok /\ Len(o.bits) % 8 = 0

Read(ok, p, values) == [ok |-> ok, p |-> p, values |-> values]

\* How many bits a field at bit p of w takes, a vector with its count.
FieldSize(w, p, kind) ==
    CASE kind < 0 -> -kind
      [] kind \in 0..100 -> kind
      [] OTHER -> 16 + 8 * ((U16(w, p \div 8) * (kind - 100) + 7) \div 8)

\* The field at r, if its size bits, and the count that tells them, are there; what is
\* reserved has no value.
Readable(w, r, kind) ==
    r.ok /\ (Raw(kind) => r.p % 8 = 0) /\ (kind > 100 => r.p + 16 <= 8 * Len(w))

ReadField(w, r, kind) ==
    IF Readable(w, r, kind) /\ r.p + FieldSize(w, r.p, kind) <= 8 * Len(w)
    THEN Read(TRUE, r.p + FieldSize(w, r.p, kind),
              Append(r.values, IF kind < 0 THEN <<>> ELSE Bits(w, r.p, FieldSize(w, r.p, kind))))
    ELSE Read(FALSE, r.p, r.values)

\* _decode_fields: what is read after each field, from byte pos on.
Reading(kinds, w, pos) ==
    LET in[i \in 0..Len(kinds)] ==
            IF i = 0 THEN Read(TRUE, 8 * pos, <<>>) ELSE ReadField(w, in[i - 1], kinds[i])
    IN  in

DecodeFields(c, w, pos) == Reading(Classes[c].fields, w, pos)[Len(Classes[c].fields)]

-----------------------------------------------------------------------------
(* Structures. *)

Struct(c, id, fields, slots, extra) ==
    [cls |-> c, id |-> id, fields |-> fields, slots |-> slots, extra |-> extra]

\* isinstance(p, slot.types), CustomParameter being the base of every vendor class.
IsInstance(x, types) ==
    \/ x.cls \in types
    \/ /\ "CustomParameter" \in types
       /\ \/ x.cls = "UnknownCustomParameter"
          \/ x.cls \notin Unknown /\ Classes[x.cls].kind = "custom"

\* Mutant of Keep: parameters without a slot are ignored.
KeepNone(extra, x) == extra

\* leftovers: what matches no slot is kept.
Keep(extra, x) == Append(extra, x)

Bound(slots, extra) == [slots |-> slots, extra |-> extra]

\* The slots that take x as things are.
Room(c, b, x) == {i \in DOMAIN b.slots : /\ IsInstance(x, SlotsOf(c)[i].types)
                                         /\ SlotsOf(c)[i].list \/ b.slots[i] = <<>>}

\* A parameter goes to the first slot with room for it, or is kept apart.
Bind(c, b, x) ==
    IF Room(c, b, x) = {} THEN Bound(b.slots, Keep(b.extra, x))
    ELSE Bound([b.slots EXCEPT ![Min(Room(c, b, x))] = Append(@, x)], b.extra)

\* bind_params: what is bound after each parameter.
Binding(c, params) ==
    LET bound[n \in 0..Len(params)] ==
            IF n = 0 THEN Bound([i \in 1..Len(SlotsOf(c)) |-> <<>>], <<>>)
                     ELSE Bind(c, bound[n - 1], params[n])
    IN  bound

BindParams(c, params) == Binding(c, params)[Len(params)]

\* The required slots are filled: the check of bind_params, and of _encode_subparams.
Complete(c, slots) == \A i \in DOMAIN slots : Len(slots[i]) >= SlotsOf(c)[i].min

-----------------------------------------------------------------------------
(* Encoding. *)

\* _encode_subparams: the slots in their order, then what was bound to none.
Subparams(x) == FlattenSeq(x.slots) \o x.extra

\* The prefix a vendor class writes before its fields.
Prefix(x) ==
    CASE x.cls = "UnknownCustomParameter" -> x.id
      [] x.cls = "UnknownCustomMessage" -> SubSeq(x.id, 6, 10)
      [] x.cls \in OfKinds({"custom", "custommsg"}) -> Key(x.cls)
      [] OTHER -> <<>>

\* The bytes behind the header; e tells what the sub-parameters were encoded to.
Body(e, x) ==
    Prefix(x) \o IF x.cls \in Unknown THEN x.fields[1]
                 ELSE Pack(WriteFields(x.cls, x.fields).bits)
                          \o FlattenSeq([k \in DOMAIN Subparams(x) |-> e[Subparams(x)[k]].wire])

Type(x) ==
    CASE x.cls = "UnknownParameter" -> U16(x.id, 0)
      [] x.cls = "UnknownMessage" -> U16(x.id, 5)
      [] x.cls \in OfKinds({"tlv", "tv", "msg"}) -> Classes[x.cls].type
      [] OTHER -> TYPE_CUSTOM

\* LLRPParameter.encode, LLRPMessage.to_bytes and those of the unknown ones: the header
\* of a message, a TV or a TLV, before the body.
Frame(x, body) ==
    IF IsMessage(x.cls)
    THEN PutU16(x.id[1] * 1024 + Type(x)) \o PutU32(10 + Len(body)) \o SubSeq(x.id, 2, 5) \o body
    ELSE IF x.cls \in OfKinds({"tv"}) THEN <<128 + Type(x)>> \o body
    ELSE PutU16(Type(x)) \o PutU16(4 + Len(body)) \o body

\* The length fits its field: a message's 32 bits, a TLV's 16.
Fits(x, body) ==
    IF IsMessage(x.cls) THEN TopByte(10 + Len(body)) <= 255
                        ELSE x.cls \in OfKinds({"tv"}) \/ 4 + Len(body) <= MAX_TLV

\* No MessageEncodeError: the required slots are filled, the fields end on a byte, the
\* length fits, and none of the sub-parameters raises one.
Encodes(e, x) ==
    /\ Fits(x, Body(e, x))
    /\ x.cls \notin Unknown =>
          /\ Complete(x.cls, x.slots)
          /\ Aligned(WriteFields(x.cls, x.fields))
          /\ \A k \in DOMAIN Subparams(x) : e[Subparams(x)[k]].ok

\* Structures whose sub-parameters are in S.
StructsOver(S) ==
    [cls : DOMAIN Classes \cup Unknown, id : Seq(Byte), fields : Seq(Seq(Byte)),
     slots : Seq(Seq(S)), extra : Seq(S)]

\* encode() and to_bytes(), of structures that nest to a depth of d.
Encoding[d \in Nat] ==
    LET e == IF d = 0 THEN <<>> ELSE Encoding[d - 1]
    IN  [x \in StructsOver(DOMAIN e) |-> [ok |-> Encodes(e, x), wire |-> Frame(x, Body(e, x))]]

-----------------------------------------------------------------------------
(* Decoding. A failed result is a MessageDecodeError. *)

Parsed(pos, val) == [ok |-> TRUE, pos |-> pos, val |-> val]

Ok(pos, x) == Parsed(pos, <<x>>)

Failed == [ok |-> FALSE, pos |-> 0, val |-> <<>>]

\* The object of decode_struct, from its fields and sub-parameters.
Assemble(c, id, fields, params) ==
    LET bound == BindParams(c, params.val)
    IN  IF params.ok /\ Complete(c, bound.slots)
        THEN Ok(params.pos, Struct(c, id, fields.values, bound.slots, bound.extra))
        ELSE Failed

\* decode_struct: the fields and, while the cursor is before end, sub-parameters, which
\* rest has for each position and end.
DecodeStruct(rest, c, id, w, pos, end) ==
    LET fields == DecodeFields(c, w, pos)
    IN  IF fields.ok /\ fields.p % 8 = 0 THEN Assemble(c, id, fields, rest[fields.p \div 8][end])
        ELSE Failed

TvParam(c, fields) ==
    IF fields.ok /\ fields.p % 8 = 0
    THEN Ok(fields.p \div 8, Struct(c, <<>>, fields.values, <<>>, <<>>)) ELSE Failed

\* decode_parameter for a TV: a type known to be one, and its fields.
DecodeTv(w, pos) ==
    LET type == w[pos + 1] % 128
        c == PARAMETER_REGISTRY[type]
    IN  IF type \in DOMAIN PARAMETER_REGISTRY /\ Classes[c].kind = "tv"
        THEN TvParam(c, DecodeFields(c, w, pos + 1)) ELSE Failed

\* What the header of a TLV at pos says: its type, where its content begins, behind the
\* vendor and the subtype if it has them, and where it ends.
TlvType(w, pos) == U16(w, pos) % 1024

TlvBody(w, pos) == pos + IF TlvType(w, pos) = TYPE_CUSTOM THEN 12 ELSE 4

TlvEnd(w, pos) == pos + U16(w, pos + 2)

\* The class a TLV is decoded as, by its vendor and subtype or by its type, none when it is
\* kept as an unknown parameter.
NoClass == "none"

VendorClass(key) ==
    IF key \in DOMAIN CUSTOM_PARAMETER_REGISTRY THEN CUSTOM_PARAMETER_REGISTRY[key] ELSE NoClass

StandardClass(type) ==
    IF type \in DOMAIN PARAMETER_REGISTRY /\ Classes[PARAMETER_REGISTRY[type]].kind = "tlv"
    THEN PARAMETER_REGISTRY[type] ELSE NoClass

TlvClass(w, pos) ==
    IF TlvType(w, pos) = TYPE_CUSTOM THEN VendorClass(SubSeq(w, pos + 5, pos + 12))
                                     ELSE StandardClass(TlvType(w, pos))

\* A result that ends where it should.
Exactly(r, end) == IF r.ok /\ r.pos = end THEN r ELSE Failed

\* Mutant of DecodeKnownTlv: the length field is believed.
DecodeKnownTlvAnywhere(rest, c, w, body, end) == DecodeStruct(rest, c, <<>>, w, body, end)

\* A known TLV, decoded to exactly where its length says it ends.
DecodeKnownTlv(rest, c, w, body, end) == Exactly(DecodeStruct(rest, c, <<>>, w, body, end), end)

UnknownTlv(w, pos, end) ==
    IF TlvType(w, pos) = TYPE_CUSTOM
    THEN Struct("UnknownCustomParameter", SubSeq(w, pos + 5, pos + 12),
                <<SubSeq(w, pos + 13, end)>>, <<>>, <<>>)
    ELSE Struct("UnknownParameter", PutU16(TlvType(w, pos)), <<SubSeq(w, pos + 5, end)>>, <<>>, <<>>)

\* decode_parameter for a TLV, standard or vendor.
TlvParam(rest, c, w, pos, end) ==
    IF c = NoClass THEN Ok(end, UnknownTlv(w, pos, end)) ELSE DecodeKnownTlv(rest, c, w, TlvBody(w, pos), end)

DecodeTlv(rest, w, pos) ==
    IF pos + 4 <= Len(w) /\ TlvEnd(w, pos) <= Len(w) /\ TlvBody(w, pos) <= TlvEnd(w, pos)
    THEN TlvParam(rest, TlvClass(w, pos), w, pos, TlvEnd(w, pos)) ELSE Failed

\* decode_parameter.
DecodeParam(rest, w, pos) ==
    IF pos >= Len(w) THEN Failed
    ELSE IF w[pos + 1] >= 128 THEN DecodeTv(w, pos) ELSE DecodeTlv(rest, w, pos)

\* One parameter, and those behind it.
Before(head, tail) == IF tail.ok THEN Parsed(tail.pos, head.val \o tail.val) ELSE Failed

DecodeNext(rest, w, pos, end) ==
    LET head == DecodeParam(rest, w, pos)
    IN  IF pos >= end THEN Parsed(pos, <<>>)
        ELSE IF head.ok THEN Before(head, rest[head.pos][end]) ELSE Failed

\* The loop of decode_struct, from every position to every end.
DecodeParams(w) ==
    LET rest[pos \in 0..Len(w)] == [end \in 0..Len(w) |-> DecodeNext(rest, w, pos, end)]
    IN  rest

\* The body of a vendor message, known or not.
DecodeCustom(w, id) ==
    LET key == SubSeq(w, 11, 15)
    IN  IF key \in DOMAIN CUSTOM_MESSAGE_REGISTRY
        THEN DecodeStruct(DecodeParams(w), CUSTOM_MESSAGE_REGISTRY[key], id, w, 15, Len(w))
        ELSE Ok(Len(w), Struct("UnknownCustomMessage", id \o key, <<SubSeq(w, 16, Len(w))>>, <<>>, <<>>))

\* The body of a message of a type, whose header says who it is.
DecodeBody(w, type, id) ==
    IF type = TYPE_CUSTOM
    THEN IF Len(w) < 15 THEN Failed ELSE DecodeCustom(w, id)
    ELSE IF type \in DOMAIN MESSAGE_REGISTRY
         THEN DecodeStruct(DecodeParams(w), MESSAGE_REGISTRY[type], id, w, 10, Len(w))
         ELSE Ok(Len(w), Struct("UnknownMessage", id \o PutU16(type), <<SubSeq(w, 11, Len(w))>>, <<>>, <<>>))

\* decode_message: the buffer is exactly one message.
DecodeMessage(w) ==
    IF Len(w) >= 10 /\ SubSeq(w, 3, 6) = PutU32(Len(w))
    THEN Exactly(DecodeBody(w, U16(w, 0) % 1024, <<(w[1] \div 4) % 8>> \o SubSeq(w, 7, 10)), Len(w))
    ELSE Failed
=============================================================================
