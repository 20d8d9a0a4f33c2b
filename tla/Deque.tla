------------------------------- MODULE Deque -------------------------------
(***************************************************************************)
(* What an SSDB queue promises its clients: a double-ended sequence of    *)
(* items with push and pop at both ends and overwrite by index, each     *)
(* operation answering with a reply.  A push may be refused (the store    *)
(* answers -1 when its sequence range is used up); the abstract queue     *)
(* does not say when, only that a refused push changes nothing.          *)
(***************************************************************************)
EXTENDS Integers, Sequences

CONSTANTS Vals

VARIABLES q, reply

vars == <<q, reply>>

Init == q = <<>> /\ reply = 0

PushFront(v) == q' = <<v>> \o q /\ reply' = Len(q) + 1
PushBack(v) == q' = Append(q, v) /\ reply' = Len(q) + 1
RefusePush == UNCHANGED q /\ reply' = -1

\* A pop answers the end item, or 0 when the queue is empty.
PopFront == IF q = <<>> THEN UNCHANGED q /\ reply' = 0
            ELSE q' = Tail(q) /\ reply' = Head(q)
PopBack == IF q = <<>> THEN UNCHANGED q /\ reply' = 0
           ELSE q' = SubSeq(q, 1, Len(q) - 1) /\ reply' = q[Len(q)]

\* Indexes count from the front when >= 0 and from the back when < 0.
Position(i) == IF i >= 0 THEN i + 1 ELSE Len(q) + i + 1
SetAt(i, v) == IF i >= Len(q) \/ i < -Len(q) THEN UNCHANGED q /\ reply' = 0
               ELSE q' = [q EXCEPT ![Position(i)] = v] /\ reply' = 1

\* A repair of a consistent queue leaves it as it is.
Repair == UNCHANGED q /\ reply' = 0

Next ==
    \/ \E v \in Vals : PushFront(v) \/ PushBack(v)
    \/ RefusePush
    \/ PopFront \/ PopBack
    \/ \E i \in -Len(q) - 1 .. Len(q), v \in Vals : SetAt(i, v)
    \/ Repair

Spec == Init /\ [][Next]_vars

=============================================================================
