---------------------------- MODULE LLRPStructs ----------------------------
(****************************************************************************
The vocabulary of the generated protocol classes (protocol/codec.py): what a
class says of itself - the kind of structure, its type number, its fields in
order - and the slots its sub-parameters are bound to.

A field is a number: n > 0 is a value of n bits, -n is n reserved bits, and
100 + n is a vector of n-bit elements behind a 16-bit count (V8 is a byte string
and a text alike).
****************************************************************************)
EXTENDS Integers, Sequences, TLC

V1 == 101

V8 == 108

V16 == 116

V32 == 132

\* LLRPParameter: a TLV parameter, and a TV one, which has no length on the wire.
Tlv(type, fields) == [kind |-> "tlv", type |-> type, fields |-> fields]

Tv(type, fields) == [kind |-> "tv", type |-> type, fields |-> fields]

\* CustomParameter: TLV type 1023 with the vendor number and a subtype.
CustomTlv(subtype, fields) == [kind |-> "custom", type |-> subtype, fields |-> fields]

\* LLRPMessage and CustomMessage.
StandardMsg(type, fields) == [kind |-> "msg", type |-> type, fields |-> fields]

CustomMsg(subtype, fields) == [kind |-> "custommsg", type |-> subtype, fields |-> fields]

\* ParamSlot: the classes a slot takes, the least it must hold, whether it is a list.
Slot(types, min, list) == [types |-> types, min |-> min, list |-> list]

Opt(types) == Slot(types, 0, FALSE)

Req(types) == Slot(types, 1, FALSE)

Many(types) == Slot(types, 0, TRUE)

Some(types) == Slot(types, 1, TRUE)

Customs == Many({"CustomParameter"})

=============================================================================
