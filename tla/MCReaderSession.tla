--------------------------- MODULE MCReaderSession ---------------------------
(* Instances of ReaderSession for TLC. *)
EXTENDS ReaderSession

CONSTANTS t1, t2

\* Host-driven and gated streams on a reader that answers in time, cancelled before
\* the teardown; tag operations of one task on a reader that may not, cancelled also
\* where a timeout would not end them.
MCStreams == [kinds |-> [t \in Tasks |-> {"inventory", "gated"}], slow |-> FALSE,
              cancel |-> Awaits \ {"stop", "delete", "aclean"},
              calls |-> 3, reports |-> 3, conns |-> 2]
MCAccess == [kinds |-> [t \in Tasks |-> IF t = t1 THEN {"access", "inventory"} ELSE {"inventory"}],
             slow |-> TRUE, cancel |-> Suppressed, calls |-> 2, reports |-> 2, conns |-> 2]
MCSituations == {MCStreams, MCAccess}
=============================================================================
