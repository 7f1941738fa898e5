---------------------------- MODULE RequestService ----------------------------
(***************************************************************************)
(* What an LLRPClient promises to the tasks that share it: transact() does *)
(* "send a message and await the response with the same message ID", and   *)
(* a client can connect again "with fresh per-connection state".  Requests *)
(* and connections are numbered.  An answer is to one request, comes over  *)
(* the connection that the request went out on and at most once, and       *)
(* reaches the task that waits for it or nobody; when the connection ends, *)
(* everybody who waits is told at once.                                    *)
(***************************************************************************)
EXTENDS Naturals

CONSTANT Tasks

VARIABLES
    link,       \* the connection that is up, 0 for none
    links,      \* connections so far
    requests,   \* requests so far
    state,      \* what each task has of its request: none, undone, reply, failed
    number,     \* its number, 0 if there is none
    answer,     \* the request that its answer is to, 0 if there is none
    owed        \* requests that may still be answered

calls == <<state, number, answer>>
vars == <<link, links, requests, calls, owed>>

Init ==
    /\ link = 0 /\ links = 0 /\ requests = 0
    /\ state = [t \in Tasks |-> "none"]
    /\ number = [t \in Tasks |-> 0]
    /\ answer = [t \in Tasks |-> 0]
    /\ owed = {}

Up ==
    /\ link = 0
    /\ links' = links + 1
    /\ link' = links + 1
    /\ UNCHANGED <<requests, calls, owed>>

\* A task sends a request, perhaps to a reader that is gone already.
Ask(t) ==
    /\ link # 0 /\ state[t] = "none"
    /\ requests' = requests + 1
    /\ state' = [state EXCEPT ![t] = "undone"]
    /\ number' = [number EXCEPT ![t] = requests + 1]
    /\ owed' \in {owed, owed \cup {requests + 1}}
    /\ UNCHANGED <<link, links, answer>>

\* The task that waits for the answer to request n: one, or none any more.
Waiters(n) == {t \in Tasks : state[t] = "undone" /\ number[t] = n}

\* The answer to request n comes.
Answer(n) ==
    /\ n \in owed
    /\ owed' = owed \ {n}
    /\ state' = [t \in Tasks |-> IF t \in Waiters(n) THEN "reply" ELSE state[t]]
    /\ answer' = [t \in Tasks |-> IF t \in Waiters(n) THEN n ELSE answer[t]]
    /\ UNCHANGED <<link, links, requests, number>>

\* Task t ends its request, and s is what the other tasks have of theirs.
Ends(t, s) ==
    /\ state[t] # "none"
    /\ state' = [s EXCEPT ![t] = "none"]
    /\ number' = [number EXCEPT ![t] = 0]
    /\ answer' = [answer EXCEPT ![t] = 0]

\* A call returns, or raises: LLRPTimeoutError, a cancellation, what it was told.
Return(t) ==
    /\ Ends(t, state)
    /\ UNCHANGED <<link, links, requests, owed>>

\* Everybody who waits is told.
Told == [t \in Tasks |-> IF state[t] = "undone" THEN "failed" ELSE state[t]]

\* The connection ends, perhaps with the call that said goodbye.
Down ==
    /\ link # 0
    /\ link' = 0
    /\ owed' = {}
    /\ \/ state' = Told /\ UNCHANGED <<number, answer>>
       \/ \E t \in Tasks : Ends(t, Told)
    /\ UNCHANGED <<links, requests>>

Next ==
    \/ Up \/ Down
    \/ \E t \in Tasks : Ask(t) \/ Return(t)
    \/ \E n \in owed : Answer(n)

Spec == Init /\ [][Next]_vars
=============================================================================
