----------------------------- MODULE MCEmulator -----------------------------
(* Instances of Emulator for TLC. *)
EXTENDS Emulator

CONSTANTS p1, a1

\* A ROSpec that p1 starts and stops, with a timeout, and one for the host.
MCGated == [port |-> p1, high |-> TRUE, cap |-> TRUE, antennas |-> {a1}]
\* Two clients one after the other on a reader whose sends block, and one with
\* two ROSpecs of opposite polarity: an edge starts one and stops one.
MCBlocking == [ids |-> {1}, specs |-> {MCGated, [MCGated EXCEPT !.port = "none", !.cap = FALSE]},
               blocking |-> TRUE, conns |-> 2, runs |-> 3]
MCOpposite == [ids |-> {1, 2}, specs |-> {MCGated, [MCGated EXCEPT !.high = FALSE]},
               blocking |-> FALSE, conns |-> 1, runs |-> 4]
MCNext == [ids |-> {1}, specs |-> {MCGated}, blocking |-> FALSE, conns |-> 2, runs |-> 3]
MCSetups == {MCBlocking, MCOpposite, MCNext}
=============================================================================
