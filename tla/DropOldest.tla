----------------------------- MODULE DropOldest -----------------------------
(***************************************************************************)
(* The bounded queues of LLRPClient: a producer that never blocks and,     *)
(* when the queue is full, throws the oldest entry away to make room.      *)
(***************************************************************************)
EXTENDS Naturals, Sequences

\* Mutant of IsFull: off by one.
IsOverfull(queue, cap) == Len(queue) > cap

\* An asyncio.Queue(maxsize=cap) with cap > 0 is full.
IsFull(queue, cap) == Len(queue) >= cap

\* Mutant of Offer: a full queue refuses the newest entry.
OfferDropNewest(queue, msg, cap) ==
    IF IsFull(queue, cap) THEN queue ELSE Append(queue, msg)

\* LLRPClient._offer: the queue after msg went in.
Offer(queue, msg, cap) ==
    Append(IF IsFull(queue, cap) THEN Tail(queue) ELSE queue, msg)

\* Mutant of OfferDrops: nothing is counted.
OfferDropsUnseen(queue, cap) == 0

\* LLRPClient._offer: the number of entries it reports as dropped.
OfferDrops(queue, cap) == IF IsFull(queue, cap) THEN 1 ELSE 0
=============================================================================
