----------------------------- MODULE MCMonitor -----------------------------
(* Instances of Monitor for TLC. *)
EXTENDS Monitor

\* A pail and a jar, both of company 7, the pail with a GTIN and weakly read;
\* and a tag nothing is known of.
MCPail == [epc |-> <<1, 2>>, gtin |-> 5, company |-> 7, antenna |-> 1, rssi |-> -70]
MCJar == [epc |-> <<1, 3>>, gtin |-> 6, company |-> 7, antenna |-> 2, rssi |-> None]
MCOther == [epc |-> <<2, 2>>, gtin |-> None, company |-> None, antenna |-> 2, rssi |-> -40]

Entry(match, value, category) == [match |-> match, value |-> value, category |-> category]
Policies(catalog, floor, ignoreUnknown, antennas) ==
    [catalog : {catalog}, floor : {floor}, ignoreUnknown : {ignoreUnknown},
     antennas : antennas, enabled : BOOLEAN]
Rule(mode, categories, floor) == [mode |-> mode, categories |-> categories, floor |-> floor]

\* By company and GTIN, with two rules for one company.
MCGoods == << Entry("company_prefix", 7, "pails"), Entry("gtin", 5, "pails"),
              Entry("company_prefix", 7, "goods"), Entry("epc_prefix", <<2>>, "odd") >>
\* By the number alone, the shorter prefix first.
MCNumbers == << Entry("epc_prefix", <<1>>, "pails"), Entry("epc_prefix", <<1, 3>>, "jars"),
                Entry("epc", <<1, 2>>, "goods") >>

MCPolicies ==
    Policies(MCGoods, None, FALSE,
             {2 :> Rule("allow", {"pails"}, None), 1 :> Rule("deny", {"goods"}, None)})
    \cup Policies(MCNumbers, None, TRUE, {2 :> Rule("deny", {"goods"}, -60), 1 :> Rule("deny", {}, -60)})
    \cup Policies(MCNumbers, -60, FALSE, {2 :> Rule("allow", {"jars"}, None)})

MCSituations ==
    { [tags |-> {MCPail, MCJar}, policies |-> {}, counted |-> 0, faults |-> TRUE,
       subscriber |-> FALSE],
      [tags |-> {MCPail, MCJar, MCOther}, policies |-> MCPolicies \cup {None}, counted |-> 4,
       faults |-> FALSE, subscriber |-> FALSE],
      [tags |-> {MCPail}, policies |-> {}, counted |-> 0, faults |-> FALSE, subscriber |-> TRUE] }
=============================================================================
