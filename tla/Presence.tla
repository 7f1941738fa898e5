------------------------------ MODULE Presence ------------------------------
(***************************************************************************)
(* PresenceTracker of presence.py: the visits of tags, as a function from  *)
(* the tags that have one.  A visit keeps how often the tag was seen, up   *)
(* to what announces it, and for how long it has been silent, up to what   *)
(* ends it: the clock adds to the silence of all.                          *)
(***************************************************************************)
EXTENDS Naturals, Functions

CONSTANTS
    MinReads,       \* min_reads
    DepartAfter     \* depart_after, in steps of the clock

ASSUME PresenceAssumption ==
    MinReads \in Nat \ {0} /\ DepartAfter \in Nat \ {0}

NoVisits == [e \in {} |-> {}]

UpTo(n, limit) == IF n < limit THEN n ELSE limit

\* announced
Announced(visits, e) == e \in DOMAIN visits /\ visits[e].reads = MinReads

\* The property `present`.
Present(visits) == {e \in DOMAIN visits : Announced(visits, e)}

\* The visits with that of e replaced or begun.
Replaced(visits, e, visit) ==
    [d \in DOMAIN visits \cup {e} |-> IF d = e THEN visit ELSE visits[d]]

\* How often e was seen, with one more read.
Seen(visits, e) ==
    UpTo(IF e \in DOMAIN visits THEN visits[e].reads + 1 ELSE 1, MinReads)

\* Mutant of Observe: a read of a tag that is present does not prolong it.
ObserveFirst(visits, e) ==
    Replaced(visits, e, [reads |-> Seen(visits, e),
                         silence |-> IF e \in DOMAIN visits THEN visits[e].silence ELSE 0])

\* observe(): the visits after a read; the tag has arrived if it is then
\* announced and was not before.
Observe(visits, e) ==
    Replaced(visits, e, [reads |-> Seen(visits, e), silence |-> 0])

Arrives(visits, e) == Announced(Observe(visits, e), e) /\ ~Announced(visits, e)

\* check(): the tags whose visits are over, and those of them that depart.
Over(visits) == {e \in DOMAIN visits : visits[e].silence >= DepartAfter}
Departs(visits) == Over(visits) \cap Present(visits)
Check(visits) == Restrict(visits, DOMAIN visits \ Over(visits))

\* The clock moves on by a step.
Later(visits) ==
    [e \in DOMAIN visits |->
        [visits[e] EXCEPT !.silence = UpTo(@ + 1, DepartAfter)]]
=============================================================================
