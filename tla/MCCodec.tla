------------------------------ MODULE MCCodec ------------------------------
(* Structures of every class of the package, on the wire. *)
EXTENDS Wire, LLRPParams, ImpinjParams, LLRPMessages

CONSTANT Pairs      \* whether two slots are filled beyond what is required

\* The tables of the package; MCClasses and MCSlots name them for the configuration (the
\* LET keeps TLC's coverage statistics from counting the tables' entries at each use).
PackageClasses == Params @@ Impinj @@ Messages

PackageSlots == ParamSlots @@ ImpinjSlots @@ MessageSlots

MCClasses == LET classes == PackageClasses IN classes

MCSlots == LET slots == PackageSlots IN slots

\* The bits of bytes, the high ones first.
BitsOf(b) == [i \in 1..(8 * Len(b)) |-> (b[(i - 1) \div 8 + 1] \div 2 ^ (7 - ((i - 1) % 8))) % 2]

\* The contents of a field, all bits clear and all bits set.
Fill(kind, high) ==
    CASE kind = V1 -> BitsOf(IF high THEN <<0, 11, 255, 224>> ELSE <<0, 0>>)
      [] kind = V8 -> BitsOf(IF high THEN <<0, 2, 65, 66>> ELSE <<0, 0>>)
      [] kind = V16 -> BitsOf(IF high THEN <<0, 2, 255, 1, 2, 3>> ELSE <<0, 0>>)
      [] kind = V32 -> BitsOf(IF high THEN <<0, 1, 255, 1, 2, 3>> ELSE <<0, 0>>)
      [] OTHER -> [i \in 1..kind |-> IF high THEN 1 ELSE 0]

Fills(c, high) == [i \in DOMAIN Classes[c].fields |-> Fill(Classes[c].fields[i], high)]

Id(c) == IF IsMessage(c) THEN <<1, 0, 0, 1, 4>> ELSE <<>>

AnUnknown == Struct("UnknownParameter", <<3, 0>>, <<<<7>>>>, <<>>, <<>>)

AnUnknownCustom ==
    Struct("UnknownCustomParameter", <<0, 0, 101, 26, 0, 0, 3, 200>>, <<<<>>>>, <<>>, <<>>)

RECURSIVE Minimal(_, _)

\* The least structure of a class: its required slots hold the least of one class each.
Minimal(c, high) ==
    LET least(slot) == IF slot.min = 0 THEN <<>>
                       ELSE <<Minimal(CHOOSE t \in slot.types : t # "CustomParameter", high)>>
    IN  Struct(c, Id(c), Fills(c, high), [i \in DOMAIN SlotsOf(c) |-> least(SlotsOf(c)[i])], <<>>)

\* What a slot may hold beyond the least: one of each class, and two in a list.
Members(slot) ==
    {Minimal(t, TRUE) : t \in slot.types \ {"CustomParameter"}}
    \cup IF "CustomParameter" \in slot.types
         THEN {AnUnknownCustom, Minimal("ImpinjRequestedData", TRUE)} ELSE {}

Holdings(slot) ==
    {<<x>> : x \in Members(slot)}
    \cup IF slot.list THEN {<<x, y>> : x, y \in Members(slot)} ELSE {}

\* One slot filled beyond the least, and two.
Filled(c) ==
    LET least == Minimal(c, TRUE)
        slots == SlotsOf(c)
    IN  UNION {{[least EXCEPT !.slots[i] = h] : h \in Holdings(slots[i])} : i \in DOMAIN slots}

FilledTwice(c) ==
    LET slots == SlotsOf(c)
    IN  UNION {{[x EXCEPT !.slots[i] = <<y>>] : x \in Filled(c), y \in Members(slots[i])} : i \in DOMAIN slots}

Instances ==
    UNION {{Minimal(c, FALSE), Minimal(c, TRUE)} \cup Filled(c)
           \cup (IF Pairs THEN FilledTwice(c) ELSE {})
           \cup (IF Classes[c].kind = "tv" THEN {} ELSE {[Minimal(c, TRUE) EXCEPT !.extra = <<AnUnknown>>]})
             : c \in DOMAIN Classes}
    \cup {AnUnknown, AnUnknownCustom,
          Struct("UnknownMessage", <<1, 0, 0, 1, 4, 2, 0>>, <<<<1, 2>>>>, <<>>, <<>>),
          Struct("UnknownCustomMessage", <<1, 0, 0, 1, 4, 0, 0, 101, 27, 9>>, <<<<>>>>, <<>>, <<>>)}

MCStructures == LET structures == Instances IN structures
=============================================================================
