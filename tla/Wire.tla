-------------------------------- MODULE Wire --------------------------------
(****************************************************************************
Structures put on the wire, and the wire altered: a byte changed, a byte lost, a byte
doubled. Sending is one state per structure; Garble, Lose and Double are what a decoder
that may be pointed at arbitrary bytes has to stand.
****************************************************************************)
EXTENDS Codec

CONSTANTS Structures,   \* what is sent, with every structure inside it
          MaxDepth,     \* how deep they nest
          MaxEdits,     \* how many alterations one wire undergoes
          MaxAltered    \* the longest wire that is altered, half of it for a second time

VARIABLES original,     \* the structure that was encoded
          bytes,        \* its bytes, as they arrive
          edits         \* the alterations so far

bvars == <<original, bytes, edits>>

-----------------------------------------------------------------------------
(* What is assumed of the classes and of the structures. *)

\* What the definitions of the generator guarantee of a class: every number is of its size,
\* and a TV parameter has no slots.
IsClass(c) ==
    /\ Classes[c].kind \in {"tlv", "tv", "custom", "msg", "custommsg"}
    /\ Classes[c].type \in Nat
    /\ Classes[c].kind \in {"tlv", "msg"} => Classes[c].type < TYPE_CUSTOM
    /\ Classes[c].kind = "tv" => Classes[c].type < 128 /\ SlotsOf(c) = <<>>
    /\ Classes[c].kind = "custom" => TopByte(Classes[c].type) <= 255
    /\ Classes[c].kind = "custommsg" => Classes[c].type <= 255
    /\ Classes[c].fields \in Seq(Int)
    /\ SlotsOf(c) \in Seq([types : SUBSET (DOMAIN Classes \cup {"CustomParameter"}),
                           min : Nat, list : BOOLEAN])

\* What register_parameter and register_message guarantee: no number is given twice within a
\* registry.
OneClassPerKey(kinds) == \A c, d \in OfKinds(kinds) : Key(c) = Key(d) => c = d

WellDefined ==
    /\ DOMAIN Classes \cap (Unknown \cup {NoClass}) = {}
    /\ \A c \in DOMAIN Classes : IsClass(c)
    /\ \A kinds \in {{"tlv", "tv"}, {"custom"}, {"msg"}, {"custommsg"}} : OneClassPerKey(kinds)

\* The bits of a field: none if it is reserved, of a vector as many as its count says.
IsValue(v, kind) ==
    /\ v \in Seq({0, 1})
    /\ IF kind < 0 THEN v = <<>> ELSE (kind > 100 => Len(v) >= 16) /\ Len(v) = FieldSize(Pack(v), 0, kind)

IsFields(c, values) ==
    /\ values \in Seq(Seq({0, 1})) /\ Len(values) = Len(Classes[c].fields)
    /\ \A i \in DOMAIN values : IsValue(values[i], Classes[c].fields[i])

\* Every parameter is in the first slot that has room for it, whatever came before.
IsPlaced(c, slots, extra) ==
    LET taken(i, x) == IsInstance(x, SlotsOf(c)[i].types) => ~SlotsOf(c)[i].list /\ slots[i] # <<>>
    IN  /\ Len(slots) = Len(SlotsOf(c))
        /\ \A i \in DOMAIN slots :
              /\ SlotsOf(c)[i].list \/ Len(slots[i]) <= 1
              /\ \A x \in ToSet(slots[i]) : /\ IsInstance(x, SlotsOf(c)[i].types)
                                            /\ \A j \in 1..(i - 1) : taken(j, x)
        /\ \A x \in ToSet(extra), i \in DOMAIN slots : taken(i, x)

IsHeader(id) == id \in Seq(Byte) /\ Len(id) = 5 /\ id[1] <= 7

\* What is unknown has a payload, and an identity that no registry knows.
IsUnknown(x) ==
    /\ x.slots = <<>> /\ x.extra = <<>> /\ Len(x.fields) = 1
    /\ CASE x.cls = "UnknownParameter" ->
              /\ x.id \in {PutU16(t) : t \in 0..(TYPE_CUSTOM - 1)}
              /\ U16(x.id, 0) \notin {Classes[c].type : c \in OfKinds({"tlv"})}
         [] x.cls = "UnknownCustomParameter" ->
              Len(x.id) = 8 /\ x.id \notin DOMAIN CUSTOM_PARAMETER_REGISTRY
         [] x.cls = "UnknownMessage" ->
              /\ Len(x.id) = 7 /\ IsHeader(SubSeq(x.id, 1, 5))
              /\ SubSeq(x.id, 6, 7) \in {PutU16(t) : t \in 0..(TYPE_CUSTOM - 1)}
              /\ U16(x.id, 5) \notin DOMAIN MESSAGE_REGISTRY
         [] x.cls = "UnknownCustomMessage" ->
              /\ Len(x.id) = 10 /\ IsHeader(SubSeq(x.id, 1, 5))
              /\ SubSeq(x.id, 6, 10) \notin DOMAIN CUSTOM_MESSAGE_REGISTRY

\* Structures as the classes build them, with every parameter in its place.
Regular(x) ==
    IF x.cls \in Unknown THEN IsUnknown(x)
    ELSE /\ IF IsMessage(x.cls) THEN IsHeader(x.id) ELSE x.id = <<>>
         /\ IsFields(x.cls, x.fields)
         /\ IsPlaced(x.cls, x.slots, x.extra)
         /\ Classes[x.cls].kind = "tv" => x.extra = <<>>
         /\ \A k \in DOMAIN Subparams(x) : ~IsMessage(Subparams(x)[k].cls)

\* Structures that can be built and encoded, one inside the other.
Sound(S, depth) ==
    \A x \in S : /\ x \in DOMAIN Encoding[depth] /\ Regular(x) /\ Encoding[depth][x].ok
                 /\ ToSet(Subparams(x)) \subseteq S

ASSUME SchemaAssumption == WellDefined
ASSUME StructuresAssumption == MaxDepth \in Nat /\ Sound(Structures, MaxDepth)

-----------------------------------------------------------------------------
(* The wire. *)

Decode(w) == IF IsMessage(original.cls) THEN DecodeMessage(w) ELSE DecodeParam(DecodeParams(w), w, 0)

WireInit ==
    /\ original \in Structures
    /\ bytes = Encoding[MaxDepth][original].wire
    /\ edits = 0

Altered(w) ==
    /\ edits < MaxEdits
    /\ Len(bytes) * (edits + 1) <= MaxAltered
    /\ bytes' = w
    /\ edits' = edits + 1
    /\ UNCHANGED original

Garble == \E i \in DOMAIN bytes, by \in {1, 2, 4, 128, 255} :
              Altered([bytes EXCEPT ![i] = (@ + by) % 256])

Lose == \E i \in DOMAIN bytes : Altered(RemoveAt(bytes, i))

Double == \E i \in DOMAIN bytes : Altered(InsertAt(bytes, i, bytes[i]))

WireNext == Garble \/ Lose \/ Double

WireSpec == WireInit /\ [][WireNext]_bvars

-----------------------------------------------------------------------------

\* The parameters behind some fields fill the window up to hi; ends tells where the windows
\* from each position on can end.
Covers(ends, fields, hi) == fields.ok /\ fields.p % 8 = 0 /\ hi \in ends[fields.p \div 8]

\* The parameters between lo and hi fill that window exactly, one after the other, and so
\* do the parameters inside each of them behind its fields: every length is the length of
\* what it frames.
Tiles(ends, w, lo, hi) ==
    \/ lo = hi
    \/ /\ lo < hi
       /\ w[lo + 1] >= 128
       /\ w[lo + 1] % 128 \in DOMAIN PARAMETER_REGISTRY
       /\ Covers(ends, DecodeFields(PARAMETER_REGISTRY[w[lo + 1] % 128], w, lo + 1), hi)
    \/ /\ lo + 4 <= hi
       /\ ~(w[lo + 1] >= 128)
       /\ TlvBody(w, lo) <= TlvEnd(w, lo) /\ TlvEnd(w, lo) <= hi
       /\ TlvClass(w, lo) # NoClass =>
             Covers(ends, DecodeFields(TlvClass(w, lo), w, TlvBody(w, lo)), TlvEnd(w, lo))
       /\ hi \in ends[TlvEnd(w, lo)]

Endings(ends, w, lo) == {hi \in Nat : lo <= hi /\ hi <= Len(w) /\ Tiles(ends, w, lo, hi)}

Tiling(w) ==
    LET ends[lo \in 0..Len(w)] == Endings(ends, w, lo)
    IN  ends

\* The window of the sub-parameters of what arrived, a message or one parameter.
Framed(w, r) ==
    LET x == r.val[1]
    IN  IF ~IsMessage(x.cls) THEN r.pos \in Tiling(w)[0]
        ELSE x.cls \in Unknown \/ Covers(Tiling(w), DecodeFields(x.cls, w, 10 + Len(Prefix(x))), Len(w))

\* RoundTrip: what this package can build and encode, of any class and with any of its slots
\* filled, it decodes to the same value, unknown parameters included (bind_params: "unknown
\* extensions survive a decode/encode round-trip"), provided that every parameter is in the
\* slot that bind_params would choose (IsPlaced). A vendor parameter with a slot of its own
\* that a caller put into `custom` comes back in its own slot.
RoundTrip == edits = 0 => Decode(bytes) = Ok(Len(bytes), original)

\* A decoding that is refused, or frames what it accepted.
StrictOf(r) == r.ok => Framed(bytes, r)

\* Strict: bytes are accepted only when every length field in them, at every depth, is the
\* length of what it frames: no parameter reaches into its neighbour or out of its parent,
\* although a nested length is compared with the end of the buffer only.
Strict == StrictOf(Decode(bytes))

\* Structure x can be encoded, to pos bytes that decode to it.
ComesBack(x, encoded, pos) ==
    encoded.ok /\ Len(encoded.wire) = pos /\ Decode(encoded.wire) = Ok(pos, x)

LosslessOf(r) ==
    r.ok => r.val[1] \in DOMAIN Encoding[Len(bytes)]
            /\ ComesBack(r.val[1], Encoding[Len(bytes)][r.val[1]], r.pos)

\* Lossless: what was accepted can be encoded again, to as many bytes as arrived, and these
\* decode to the same value: no parameter is dropped, doubled or moved to another container,
\* whatever order and number they arrived in.
Lossless == LosslessOf(Decode(bytes))
=============================================================================
