------------------------------- MODULE Policy -------------------------------
(***************************************************************************)
(* Which tags a reader keeps (policy.py): the category a catalog gives a   *)
(* tag, the rules of its antenna, and the counters of what they dropped.   *)
(*                                                                         *)
(* A tag is [epc, gtin, company, antenna, rssi]: its EPC as a sequence of  *)
(* digits, what decode_epc() finds in it or None, and None for an antenna  *)
(* or a signal strength the report does not carry.  A label goes wherever  *)
(* its category goes and is left out.                                      *)
(***************************************************************************)
EXTENDS Integers, SequencesExt, Bags

CONSTANT None

UNKNOWN_CATEGORY == "unknown"

\* The index _rebuild() keeps by value: of two rules for one value the last.
Lookup(catalog, match, value) ==
    LET places == {i \in DOMAIN catalog : catalog[i].match = match /\ catalog[i].value = value}
    IN  IF places = {} THEN None ELSE catalog[Max(places)]

\* The longest rule whose value the EPC begins with, of two as long the first.
LongestPrefix(catalog, epc) ==
    LET places == {i \in DOMAIN catalog : /\ catalog[i].match = "epc_prefix"
                                         /\ IsPrefix(catalog[i].value, epc)}
        longest == {i \in places :
                       \A j \in places : Len(catalog[j].value) <= Len(catalog[i].value)}
    IN  IF places = {} THEN None ELSE catalog[Min(longest)]

\* Mutant of Candidates: a company prefix wins over a GTIN.
CandidatesCompanyFirst(catalog, tag) ==
    << Lookup(catalog, "epc", tag.epc), Lookup(catalog, "company_prefix", tag.company),
       Lookup(catalog, "gtin", tag.gtin), LongestPrefix(catalog, tag.epc) >>

\* What each kind of rule says of a tag, most specific first.
Candidates(catalog, tag) ==
    << Lookup(catalog, "epc", tag.epc), Lookup(catalog, "gtin", tag.gtin),
       Lookup(catalog, "company_prefix", tag.company), LongestPrefix(catalog, tag.epc) >>

\* ItemCatalog.classify()
Classify(catalog, tag) ==
    LET candidates == Candidates(catalog, tag)
        found == {i \in DOMAIN candidates : candidates[i] # None}
    IN  IF found = {} THEN UNKNOWN_CATEGORY ELSE candidates[Min(found)].category

\* AntennaPolicy.allows()
Allows(rule, category) ==
    IF rule.mode = "allow" THEN category \in rule.categories ELSE category \notin rule.categories

TooWeak(tag, floor) == floor # None /\ tag.rssi # None /\ tag.rssi < floor

\* Decision.reason of a tag that is kept.
NO_REASON == ""

\* ReaderPolicy._reject_reason(), NO_REASON for None.  An antenna without a rule, or
\* a read without an antenna, is passed.
RejectReason(policy, tag, category) ==
    IF TooWeak(tag, policy.floor) THEN "weak-rssi"
    ELSE IF policy.ignoreUnknown /\ category = UNKNOWN_CATEGORY THEN "unknown-ignored"
    ELSE IF tag.antenna \notin DOMAIN policy.antennas THEN NO_REASON
    ELSE LET rule == policy.antennas[tag.antenna]
         IN  IF TooWeak(tag, rule.floor) THEN "weak-rssi"
             ELSE IF Allows(rule, category) THEN NO_REASON
             ELSE IF rule.mode = "deny" THEN "category-denied" ELSE "category-not-allowed"

\* Counters of a policy no tag has met: kept, and drops, which is a bag.
NoCounters == [kept |-> 0, drops |-> EmptyBag]

\* Mutant of Tally: what the catalog does not know is not counted by category.
TallyKnown(counters, tag, category, reason) ==
    IF reason = NO_REASON THEN [counters EXCEPT !.kept = @ + 1]
    ELSE [counters EXCEPT !.drops = @ (+) SetToBag({
              <<"antenna", tag.antenna>>, <<"reason", reason>>, <<"total">>}
              \cup IF category = UNKNOWN_CATEGORY THEN {} ELSE {<<"category", category>>})]

\* The counters after one more tag.
Tally(counters, tag, category, reason) ==
    IF reason = NO_REASON THEN [counters EXCEPT !.kept = @ + 1]
    ELSE [counters EXCEPT !.drops = @ (+) SetToBag({
              <<"antenna", tag.antenna>>, <<"category", category>>,
              <<"reason", reason>>, <<"total">>})]

\* ReaderPolicy.evaluate(): the decision, and the counters it leaves.
Evaluate(policy, counters, tag) ==
    LET category == Classify(policy.catalog, tag)
        reason == IF policy.enabled THEN RejectReason(policy, tag, category) ELSE NO_REASON
    IN  [keep |-> reason = NO_REASON, category |-> category, reason |-> reason,
         counters |-> Tally(counters, tag, category, reason)]

\* ReaderPolicy.counters(): one of the tallies, as a bag.
By(counters, what) ==
    LET keys == {k \in BagToSet(counters.drops) : k[1] = what}
    IN  [k \in keys |-> counters.drops[k]]

-----------------------------------------------------------------------------
\* What a policy document says, without the order the code decides it in.

\* A rule applies to a tag ...
Matches(rule, tag) ==
    \/ rule.match = "epc" /\ rule.value = tag.epc
    \/ rule.match = "gtin" /\ rule.value = tag.gtin
    \/ rule.match = "company_prefix" /\ rule.value = tag.company
    \/ rule.match = "epc_prefix" /\ IsPrefix(rule.value, tag.epc)

\* ... and another says more about it: by kind, then by length.
Kinds == [epc |-> 4, gtin |-> 3, company_prefix |-> 2, epc_prefix |-> 1]
MoreSpecific(rule, other) ==
    \/ Kinds[rule.match] > Kinds[other.match]
    \/ rule.match = "epc_prefix" /\ other.match = "epc_prefix" /\ Len(rule.value) > Len(other.value)

\* The categories the most specific rules give a tag.
CategoriesOf(catalog, tag) ==
    LET rules == {e \in ToSet(catalog) : Matches(e, tag)}
        best == {e \in rules : \A f \in rules : ~MoreSpecific(f, e)}
    IN  IF rules = {} THEN {UNKNOWN_CATEGORY} ELSE {e.category : e \in best}

\* A catalog of rules that CatalogEntry admits.
IsCatalog(catalog) ==
    /\ catalog = [i \in 1..Len(catalog) |-> catalog[i]] /\ Len(catalog) \in Nat
    /\ \A e \in ToSet(catalog) : /\ e # None /\ e.match \in DOMAIN Kinds
                                 /\ e.match = "epc_prefix" => Len(e.value) \in Nat

\* A policy lets a tag of a category through.
Permits(policy, tag, category) ==
    \/ ~policy.enabled
    \/ /\ ~(policy.ignoreUnknown /\ category = UNKNOWN_CATEGORY)
       /\ ~TooWeak(tag, policy.floor)
       /\ tag.antenna \in DOMAIN policy.antennas =>
             /\ Allows(policy.antennas[tag.antenna], category)
             /\ ~TooWeak(tag, policy.antennas[tag.antenna].floor)
=============================================================================
