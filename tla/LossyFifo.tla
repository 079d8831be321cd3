------------------------------ MODULE LossyFifo ------------------------------
(***************************************************************************)
(* What the capture queue promises the rest of the program: the items it   *)
(* delivers come out in the order they went in and none comes out twice;   *)
(* an item that is lost was the oldest one still waiting; and the end is   *)
(* only announced when the queue is shut and empty.                        *)
(***************************************************************************)
EXTENDS Naturals, Sequences

CONSTANTS
    Item,               \* the items that may be put
    None                \* nothing delivered yet

VARIABLES
    waiting,            \* items put and not yet delivered or lost
    delivered,          \* the last item delivered, or none
    shut,               \* no more items are to be expected
    over                \* the end was announced to the consumer

fifoVars == <<waiting, delivered, shut, over>>

Init ==
    /\ waiting = <<>>
    /\ delivered = None
    /\ shut = FALSE
    /\ over = FALSE

\* An item put after the shutdown is accepted all the same.
Put(x) ==
    /\ waiting' = Append(waiting, x)
    /\ UNCHANGED <<delivered, shut, over>>

\* The oldest item gives way.
Lose ==
    /\ waiting # <<>>
    /\ waiting' = Tail(waiting)
    /\ UNCHANGED <<delivered, shut, over>>

Deliver ==
    /\ waiting # <<>>
    /\ ~over
    /\ delivered' = Head(waiting)
    /\ waiting' = Tail(waiting)
    /\ UNCHANGED <<shut, over>>

Shut ==
    /\ shut' = TRUE
    /\ UNCHANGED <<waiting, delivered, over>>

AnnounceEnd ==
    /\ shut
    /\ waiting = <<>>
    /\ over' = TRUE
    /\ UNCHANGED <<waiting, delivered, shut>>

Next ==
    \/ \E x \in Item : Put(x)
    \/ Lose \/ Deliver \/ Shut \/ AnnounceEnd

Spec == Init /\ [][Next]_fifoVars

=============================================================================
