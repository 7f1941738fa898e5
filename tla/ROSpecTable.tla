---------------------------- MODULE ROSpecTable ----------------------------
(***************************************************************************)
(* The ROSpecs of a reader, as emulator/core.py keeps them: a dictionary   *)
(* from ROSpec IDs to a specification and a state.  What the four states   *)
(* of LLRP's life cycle allow is decided here, message by message.         *)
(***************************************************************************)
EXTENDS Functions

States == {"Disabled", "Enabled", "Active"}

\* The names the enumeration of the protocol has for them.
ROSpecState == {"Disabled", "Inactive", "Active"}

\* The state each message wants a ROSpec to be in ...
Expected == [ENABLE |-> "Disabled", DISABLE |-> "Enabled",
             START |-> "Enabled", STOP |-> "Active"]
\* ... and the one it puts it in.
Target == [ENABLE |-> "Enabled", DISABLE |-> "Disabled",
           START |-> "Active", STOP |-> "Enabled"]

RoOps == {"ADD", "DELETE"} \cup DOMAIN Expected

NoROSpecs == [r \in {} |-> {}]

\* table[id] = entry
Put(table, id, entry) ==
    [r \in DOMAIN table \cup {id} |-> IF r = id THEN entry ELSE table[r]]

\* _add_rospec, _set_rospec_state and the DELETE_ROSPEC branch: is the
\* response M_Success?
Accepts(rospecs, op, id) ==
    IF op = "ADD" THEN id \notin DOMAIN rospecs
    ELSE /\ id \in DOMAIN rospecs
         /\ op \in DOMAIN Expected => rospecs[id].state = Expected[op]

\* The table after the message; spec is what an ADD_ROSPEC brings.
After(rospecs, op, id, spec) ==
    IF ~Accepts(rospecs, op, id) THEN rospecs
    ELSE CASE op = "ADD"    -> Put(rospecs, id, [spec |-> spec, state |-> "Disabled"])
           [] op = "DELETE" -> Restrict(rospecs, DOMAIN rospecs \ {id})
           [] OTHER         -> [rospecs EXCEPT ![id].state = Target[op]]

IsActive(rospecs) == \E r \in DOMAIN rospecs : rospecs[r].state = "Active"
=============================================================================
