--------------------------- MODULE ByteBudgetQueue ---------------------------
(***************************************************************************)
(* ByteBudgetQueue (duplicata-core/src/queue.rs): the queue between the    *)
(* threads that capture and the worker.  A mutex guards the items, their   *)
(* total size and the "closed" flag; the worker sleeps on a condition      *)
(* variable without a timeout.  A push never blocks: it throws away the    *)
(* oldest items until the new one fits the budget, whatever they are.      *)
(***************************************************************************)
EXTENDS Naturals, Sequences

CONSTANTS
    Producer,           \* the threads that push
    Item,               \* what they push; each item is pushed once
    Size,               \* Size[i]: the bytes item i counts for
    Budget,             \* the byte budget
    Nobody,             \* holder of a free mutex
    NoItem              \* what a consumer without an item holds

Worker == "worker"
Main == "main"

ASSUME QueueAssumption ==
    /\ Size \in [Item -> Nat]
    /\ Budget \in Nat
    /\ Nobody \notin Producer \cup {Worker, Main}
    /\ Worker \notin Producer /\ Main \notin Producer
    /\ NoItem \notin Item

VARIABLES
    items, bytes, closed,   \* the state behind the mutex
    lock,                   \* the thread that holds the mutex
    pc,                     \* where each producer and the closing thread is
    pushing,                \* the item each producer is pushing
    consumer,               \* where the worker is inside pop
    got,                    \* what the last pop returned
    unpushed                \* items nobody has pushed yet

vars == <<items, bytes, closed, lock, pc, pushing, consumer, got, unpushed>>

Init ==
    /\ items = <<>> /\ bytes = 0 /\ closed = FALSE
    /\ lock = Nobody
    /\ pc = [p \in Producer \cup {Main} |-> "idle"]
    /\ pushing = [p \in Producer |-> NoItem]
    /\ consumer = "outside"
    /\ got = NoItem
    /\ unpushed = Item

-----------------------------------------------------------------------------
(* push                                                                     *)

PushLock(p, x) ==
    /\ pc[p] = "idle"
    /\ x \in unpushed
    /\ lock = Nobody
    /\ lock' = p
    /\ pc' = [pc EXCEPT ![p] = "locked"]
    /\ pushing' = [pushing EXCEPT ![p] = x]
    /\ unpushed' = unpushed \ {x}
    /\ UNCHANGED <<items, bytes, closed, consumer, got>>

TooMuch(p) == items # <<>> /\ bytes + Size[pushing[p]] > Budget

\* Mutant of Evict: the freed bytes are forgotten.
Evict_KeepBytes(p) ==
    /\ pc[p] = "locked"
    /\ TooMuch(p)
    /\ items' = Tail(items)
    /\ UNCHANGED <<bytes, closed, lock, pc, pushing, consumer, got, unpushed>>

\* Mutant of Evict: the newest item gives way.
Evict_Newest(p) ==
    /\ pc[p] = "locked"
    /\ TooMuch(p)
    /\ items' = SubSeq(items, 1, Len(items) - 1)
    /\ bytes' = bytes - Size[items[Len(items)]]
    /\ UNCHANGED <<closed, lock, pc, pushing, consumer, got, unpushed>>

Evict(p) ==
    /\ pc[p] = "locked"
    /\ TooMuch(p)
    /\ items' = Tail(items)
    /\ bytes' = bytes - Size[Head(items)]
    /\ UNCHANGED <<closed, lock, pc, pushing, consumer, got, unpushed>>

\* Mutant of PushBack: no notification for an item that finds none waiting.
PushBack_NotifyLater(p) ==
    /\ pc[p] = "locked"
    /\ ~TooMuch(p)
    /\ items' = Append(items, pushing[p])
    /\ bytes' = bytes + Size[pushing[p]]
    /\ lock' = Nobody
    /\ pc' = [pc EXCEPT ![p] = IF items # <<>> THEN "notify" ELSE "idle"]
    /\ UNCHANGED <<closed, pushing, consumer, got, unpushed>>

\* The mutex is dropped before the notification.
PushBack(p) ==
    /\ pc[p] = "locked"
    /\ ~TooMuch(p)
    /\ items' = Append(items, pushing[p])
    /\ bytes' = bytes + Size[pushing[p]]
    /\ lock' = Nobody
    /\ pc' = [pc EXCEPT ![p] = "notify"]
    /\ UNCHANGED <<closed, pushing, consumer, got, unpushed>>

\* notify_one and notify_all wake the worker if it sleeps, and are lost if
\* it does not.
Notify(p) ==
    /\ pc[p] = "notify"
    /\ pc' = [pc EXCEPT ![p] = IF p = Main THEN "done" ELSE "idle"]
    /\ consumer' = IF consumer = "asleep" THEN "woken" ELSE consumer
    /\ UNCHANGED <<items, bytes, closed, lock, pushing, got, unpushed>>

-----------------------------------------------------------------------------
(* close, by the main thread at shutdown; the threads that push may still   *)
(* be running.                                                              *)

\* Mutant of Close: the flag is set and the worker is left asleep.
Close_Silent ==
    /\ pc[Main] = "idle"
    /\ lock = Nobody
    /\ closed' = TRUE
    /\ pc' = [pc EXCEPT ![Main] = "done"]
    /\ UNCHANGED <<items, bytes, lock, pushing, consumer, got, unpushed>>

Close ==
    /\ pc[Main] = "idle"
    /\ lock = Nobody
    /\ closed' = TRUE
    /\ pc' = [pc EXCEPT ![Main] = "notify"]
    /\ UNCHANGED <<items, bytes, lock, pushing, consumer, got, unpushed>>

-----------------------------------------------------------------------------
(* pop, by the worker.                                                      *)

PopLock ==
    /\ consumer \in {"outside", "woken"}
    /\ lock = Nobody
    /\ lock' = Worker
    /\ consumer' = "inside"
    /\ UNCHANGED <<items, bytes, closed, pc, pushing, got, unpushed>>

PopItem ==
    /\ consumer = "inside"
    /\ items # <<>>
    /\ got' = Head(items)
    /\ items' = Tail(items)
    /\ bytes' = bytes - Size[Head(items)]
    /\ lock' = Nobody
    /\ consumer' = "outside"
    /\ UNCHANGED <<closed, pc, pushing, unpushed>>

PopEnd ==
    /\ consumer = "inside"
    /\ items = <<>>
    /\ closed
    /\ lock' = Nobody
    /\ consumer' = "ended"
    /\ UNCHANGED <<items, bytes, closed, pc, pushing, got, unpushed>>

\* Condvar::wait gives the mutex up and sleeps in one step.
PopWait ==
    /\ consumer = "inside"
    /\ items = <<>>
    /\ ~closed
    /\ lock' = Nobody
    /\ consumer' = "asleep"
    /\ UNCHANGED <<items, bytes, closed, pc, pushing, got, unpushed>>

\* A condition variable may wake its thread for no reason.
SpuriousWakeup ==
    /\ consumer = "asleep"
    /\ consumer' = "woken"
    /\ UNCHANGED <<items, bytes, closed, lock, pc, pushing, got, unpushed>>

-----------------------------------------------------------------------------
Push(p) == Evict(p) \/ PushBack(p) \/ Notify(p)

Pop == PopLock \/ PopItem \/ PopEnd \/ PopWait

\* Everything has been pushed and the worker has ended.
Finished ==
    /\ consumer = "ended"
    /\ pc[Main] = "done"
    /\ \A p \in Producer : pc[p] = "idle"
    /\ unpushed = {}
    /\ UNCHANGED vars

Next ==
    \/ \E p \in Producer : (\E x \in Item : PushLock(p, x)) \/ Push(p)
    \/ Close \/ Notify(Main)
    \/ Pop \/ SpuriousWakeup
    \/ Finished

(* A thread that has the mutex goes on, a notification is delivered, and    *)
(* the worker always gets the mutex in the end: it is held for a moment at  *)
(* a time.  Nobody owes a push, and the condition variable no wakeup.       *)
Fairness ==
    /\ \A p \in Producer : WF_vars(Push(p))
    /\ WF_vars(Notify(Main))
    /\ SF_vars(PopLock)
    /\ WF_vars(PopItem \/ PopEnd \/ PopWait)

Spec == Init /\ [][Next]_vars

FairSpec == Spec /\ Fairness

-----------------------------------------------------------------------------
(* Properties.                                                              *)

Total[q \in Seq(Item)] == IF q = <<>> THEN 0 ELSE Size[Head(q)] + Total[Tail(q)]

\* The running total is the size of what is in the queue: no eviction and no
\* pop ever takes it below zero or leaves some of it behind.  Whenever the
\* mutex is free, the queue is within its budget or holds one item that is too
\* large for it on its own.
BytesExact ==
    /\ bytes = Total[items]
    /\ lock = Nobody => bytes <= Budget \/ Len(items) = 1

\* The worker never sleeps over an item or over the end of the queue without
\* a notification on its way: the mutex is dropped before the notification,
\* and a notification nobody waits for is lost.
NoLostWakeup ==
    consumer = "asleep" /\ (items # <<>> \/ closed) =>
        \E p \in Producer \cup {Main} : pc[p] = "notify"

\* The queue keeps what LossyFifo promises.
Abstract == INSTANCE LossyFifo WITH
    waiting <- items,
    delivered <- got,
    shut <- closed,
    over <- consumer = "ended",
    None <- NoItem

KeepsItsPromise == Abstract!Spec

\* After close the worker drains the queue and ends: joining it at shutdown
\* cannot hang.
WorkerEnds == closed ~> consumer = "ended"

=============================================================================
