------------------------ MODULE ByteBudgetQueue_proofs ------------------------
(***************************************************************************)
(* Proofs about ByteBudgetQueue, for every number of producers, items,     *)
(* sizes and budget.                                                       *)
(***************************************************************************)
EXTENDS ByteBudgetQueue, SequenceTheorems, WellFoundedInduction, TLAPS

-----------------------------------------------------------------------------
(* The types the proofs need.  That the running total is a natural number   *)
(* is a fact about the sum of the items; it has its own invariant below.    *)

QueueTypes ==
    /\ items \in Seq(Item) /\ closed \in BOOLEAN
    /\ lock \in Producer \cup {Worker, Nobody}
    /\ pc \in [Producer \cup {Main} -> {"idle", "locked", "notify", "done"}]
    /\ pushing \in [Producer -> Item \cup {NoItem}]
    /\ consumer \in {"outside", "inside", "asleep", "woken", "ended"}
    /\ got \in Item \cup {NoItem}

\* Whoever is inside a push holds an item and the mutex, and the worker is
\* inside a pop exactly when it holds the mutex.
HeldBy ==
    /\ \A p \in Producer : pc[p] = "locked" => lock = p /\ pushing[p] \in Item
    /\ consumer = "inside" => lock = Worker

MutexInv == QueueTypes /\ HeldBy

LEMMA MutexInit == Init => MutexInv
<1> SUFFICES ASSUME Init
             PROVE  MutexInv
  OBVIOUS
<1>1. closed \in BOOLEAN
  BY Zenon DEF Init
<1>2. QueueTypes
  BY <1>1, QueueAssumption DEF Init, QueueTypes
<1>3. HeldBy
  BY QueueAssumption DEF Init, HeldBy, Main, Worker
<1>4. QED
  BY <1>2, <1>3 DEF MutexInv

LEMMA MutexStep == MutexInv /\ [Next]_vars => MutexInv'
<1> SUFFICES ASSUME MutexInv, [Next]_vars
             PROVE  MutexInv'
  OBVIOUS
<1> USE QueueAssumption DEF MutexInv, QueueTypes, HeldBy, Worker, Main
<1>1. ASSUME NEW p \in Producer, NEW x \in Item, PushLock(p, x)
      PROVE  MutexInv'
  BY <1>1 DEF PushLock
<1>2. ASSUME NEW p \in Producer, Evict(p)
      PROVE  MutexInv'
  BY <1>2 DEF Evict, TooMuch
<1>3. ASSUME NEW p \in Producer, PushBack(p)
      PROVE  MutexInv'
  BY <1>3 DEF PushBack
<1>4. ASSUME NEW p \in Producer \cup {Main}, Notify(p)
      PROVE  MutexInv'
  BY <1>4 DEF Notify
<1>5. CASE Close
  BY <1>5 DEF Close
<1>6. CASE PopLock
  BY <1>6 DEF PopLock
<1>7. CASE PopItem
  BY <1>7 DEF PopItem
<1>8. CASE PopEnd
  BY <1>8 DEF PopEnd
<1>9. CASE PopWait
  BY <1>9 DEF PopWait
<1>10. CASE SpuriousWakeup
  BY <1>10 DEF SpuriousWakeup
<1>11. CASE UNCHANGED vars
  BY <1>11 DEF vars
<1>12. CASE Finished
  BY <1>11, <1>12 DEF Finished
<1>13. QED
  BY <1>1, <1>2, <1>3, <1>4, <1>5, <1>6, <1>7, <1>8, <1>9, <1>10, <1>11,
     <1>12 DEF Next, Push, Pop

\* At most one thread is between taking and dropping the mutex.
MutualExclusion ==
    /\ \A p, q \in Producer :
          pc[p] = "locked" /\ pc[q] = "locked" => p = q
    /\ \A p \in Producer : pc[p] = "locked" => consumer # "inside"

\* The mutex excludes: a push and a pop, or two pushes, never overlap.
THEOREM OneThreadAtATime == Spec => []MutualExclusion
<1>1. MutexInv => MutualExclusion
  BY QueueAssumption DEF MutexInv, HeldBy, MutualExclusion
<1>2. QED
  BY <1>1, MutexInit, MutexStep, PTL DEF Spec

-----------------------------------------------------------------------------
(* No lost wakeup.                                                          *)

LEMMA WakeupStep ==
    MutexInv /\ NoLostWakeup /\ [Next]_vars => NoLostWakeup'
<1> SUFFICES ASSUME MutexInv, NoLostWakeup, [Next]_vars
             PROVE  NoLostWakeup'
  OBVIOUS
<1> USE QueueAssumption DEF MutexInv, QueueTypes, NoLostWakeup, Worker, Main
<1>1. ASSUME NEW p \in Producer, NEW x \in Item, PushLock(p, x)
      PROVE  NoLostWakeup'
  BY <1>1 DEF PushLock
<1>2. ASSUME NEW p \in Producer, Evict(p)
      PROVE  NoLostWakeup'
  BY <1>2 DEF Evict, TooMuch
<1>3. ASSUME NEW p \in Producer, PushBack(p)
      PROVE  NoLostWakeup'
  BY <1>3 DEF PushBack
<1>4. ASSUME NEW p \in Producer \cup {Main}, Notify(p)
      PROVE  NoLostWakeup'
  BY <1>4 DEF Notify
<1>5. CASE Close
  BY <1>5 DEF Close
<1>6. CASE PopLock
  BY <1>6 DEF PopLock
<1>7. CASE PopItem
  BY <1>7 DEF PopItem
<1>8. CASE PopEnd
  BY <1>8 DEF PopEnd
<1>9. CASE PopWait
  BY <1>9 DEF PopWait
<1>10. CASE SpuriousWakeup
  BY <1>10 DEF SpuriousWakeup
<1>11. CASE UNCHANGED vars
  BY <1>11 DEF vars
<1>12. CASE Finished
  BY <1>11, <1>12 DEF Finished
<1>13. QED
  BY <1>1, <1>2, <1>3, <1>4, <1>5, <1>6, <1>7, <1>8, <1>9, <1>10, <1>11,
     <1>12 DEF Next, Push, Pop

\* The worker never sleeps over an item or over the end of the queue without
\* a notification on its way.
THEOREM WorkerIsWoken == Spec => []NoLostWakeup
<1>1. Init => NoLostWakeup
  BY DEF Init, NoLostWakeup
<1>2. QED
  BY <1>1, WakeupStep, MutexInit, MutexStep, PTL DEF Spec

-----------------------------------------------------------------------------
(* Refinement: taking an item out of the front is Lose or Deliver, storing  *)
(* one at the back is Put, and everything else leaves the promise alone.    *)

LEMMA PromiseInit == Init => Abstract!Init
BY DEF Init, Abstract!Init

LEMMA PromiseStep ==
    MutexInv /\ [Next]_vars => [Abstract!Next]_(Abstract!fifoVars)
<1> SUFFICES ASSUME MutexInv, [Next]_vars
             PROVE  Abstract!Next \/ UNCHANGED Abstract!fifoVars
  OBVIOUS
<1> USE DEF MutexInv, QueueTypes, HeldBy
<1>1. ASSUME NEW p \in Producer, NEW x \in Item, PushLock(p, x)
      PROVE  UNCHANGED Abstract!fifoVars
  BY <1>1 DEF PushLock, Abstract!fifoVars
<1>2. ASSUME NEW p \in Producer, Evict(p)
      PROVE  Abstract!Lose
  BY <1>2 DEF Evict, TooMuch, Abstract!Lose
<1>3. ASSUME NEW p \in Producer, PushBack(p)
      PROVE  Abstract!Put(pushing[p]) /\ pushing[p] \in Item
  BY <1>3 DEF PushBack, Abstract!Put
<1>4. ASSUME NEW p \in Producer \cup {Main}, Notify(p)
      PROVE  UNCHANGED Abstract!fifoVars
  BY <1>4 DEF Notify, Abstract!fifoVars
<1>5. CASE Close
  BY <1>5 DEF Close, Abstract!Next, Abstract!Shut
<1>6. CASE PopLock
  BY <1>6 DEF PopLock, Abstract!fifoVars
<1>7. CASE PopItem
  BY <1>7 DEF PopItem, Abstract!Next, Abstract!Deliver
<1>8. CASE PopEnd
  BY <1>8 DEF PopEnd, Abstract!Next, Abstract!AnnounceEnd
<1>9. CASE PopWait
  BY <1>9 DEF PopWait, Abstract!fifoVars
<1>10. CASE SpuriousWakeup
  BY <1>10 DEF SpuriousWakeup, Abstract!fifoVars
<1>11. CASE UNCHANGED vars
  BY <1>11 DEF vars, Abstract!fifoVars
<1>12. CASE Finished
  BY <1>11, <1>12 DEF Finished
<1>13. QED
  BY <1>1, <1>2, <1>3, <1>4, <1>5, <1>6, <1>7, <1>8, <1>9, <1>10, <1>11,
     <1>12 DEF Next, Push, Pop, Abstract!Next

\* The queue with its mutex, its loop of evictions and its condition variable
\* implements the lossy FIFO: order kept, nothing delivered twice, only the
\* oldest item ever lost, the end only announced once it is empty.
THEOREM QueueKeepsItsPromise == Spec => KeepsItsPromise
<1>1. Spec => Abstract!Spec
  BY PromiseInit, PromiseStep, MutexInit, MutexStep, PTL
     DEF Spec, Abstract!Spec
<1>2. QED
  BY <1>1 DEF KeepsItsPromise

-----------------------------------------------------------------------------
(* The sum of a queue.                                                      *)

\* Induction over the naturals, as a statement about a set of them: the
\* smallest number left out would follow a number that is in.
LEMMA SetInduction ==
    ASSUME NEW T \in SUBSET Nat, 0 \in T, \A n \in T : n + 1 \in T
    PROVE  T = Nat
<1> SUFFICES ASSUME T # Nat
             PROVE  FALSE
  OBVIOUS
<1> DEFINE Out == Nat \ T
           Less == {ss \in Nat \X Nat : ss[1] < ss[2]}
<1>1. Out \subseteq Nat /\ Out # {}
  OBVIOUS
<1>2. IsWellFoundedOn(Less, Nat)
  BY NatLessThanWellFounded DEF OpToRel
<1>3. PICK x \in Out : \A y \in Out : <<y, x>> \notin Less
  <2> HIDE DEF Out, Less
  <2>1. QED
    BY <1>1, <1>2, WFMin
<1>4. x \in Nat /\ x # 0
  OBVIOUS
<1>5. x - 1 \in Nat /\ x - 1 < x
  BY <1>4
<1>6. x - 1 \notin Out
  BY <1>3, <1>4, <1>5
<1>7. x - 1 + 1 = x
  BY <1>4
<1>8. QED
  BY <1>5, <1>6, <1>7

\* Total is defined by recursion on the queue.  Functions that satisfy its
\* equation on the queues of up to n items exist for every n and agree where
\* they meet, so the equation has a solution on all queues.
UpTo(n) == {q \in Seq(Item) : Len(q) <= n}

\* One step of the recursion.
Sum(f, q) == IF q = <<>> THEN 0 ELSE Size[Head(q)] + f[Tail(q)]

\* f solves the equation on the queues of up to n items.
Sums(f, n) == f \in [UpTo(n) -> Nat] /\ \A q \in UpTo(n) : f[q] = Sum(f, q)

\* What is left behind the first item.
LEMMA TailIsShorter ==
    ASSUME NEW q \in Seq(Item), q # <<>>
    PROVE  /\ Head(q) \in Item /\ Tail(q) \in Seq(Item)
           /\ Len(q) \in Nat /\ Len(Tail(q)) \in Nat /\ Len(Tail(q)) = Len(q) - 1
<1>1. Head(q) \in Item /\ Tail(q) \in Seq(Item) /\ Len(Tail(q)) = Len(q) - 1
  BY HeadTailProperties
<1>2. Len(q) \in Nat /\ Len(Tail(q)) \in Nat
  BY <1>1, LenProperties
<1>3. QED
  BY <1>1, <1>2

\* Only the empty queue has no item.
LEMMA OnlyEmptyIsShortest ==
    ASSUME NEW q \in Seq(Item)
    PROVE  /\ Len(q) \in Nat
           /\ Len(q) = 0 <=> q = <<>>
<1>1. Len(q) \in Nat
  BY LenProperties
<1>2. q # <<>> => Len(q) # 0
  BY EmptySeq
<1>3. q = <<>> => Len(q) = 0
  BY EmptySeq
<1>4. QED
  BY <1>1, <1>2, <1>3

\* Two solutions agree wherever both are defined.
LEMMA SumsAgree ==
    ASSUME NEW m \in Nat, NEW n \in Nat, NEW f, NEW g, Sums(f, m), Sums(g, n),
           NEW q \in UpTo(m), q \in UpTo(n)
    PROVE  f[q] = g[q]
<1> DEFINE T == {k \in Nat : \A r \in UpTo(m) \cap UpTo(n) :
                                Len(r) = k => f[r] = g[r]}
<1>1. 0 \in T
  <2>1. ASSUME NEW r \in UpTo(m) \cap UpTo(n), Len(r) = 0
        PROVE  f[r] = g[r]
    <3>1. r = <<>>
      BY <2>1, OnlyEmptyIsShortest DEF UpTo
    <3>2. QED
      BY <3>1 DEF Sums, Sum
  <2>2. QED
    BY <2>1
<1>2. ASSUME NEW k \in T
      PROVE  k + 1 \in T
  <2>1. ASSUME NEW r \in UpTo(m) \cap UpTo(n), Len(r) = k + 1
        PROVE  f[r] = g[r]
    <3>1. r \in Seq(Item) /\ Len(r) <= m /\ Len(r) <= n /\ r # <<>>
      BY <2>1, OnlyEmptyIsShortest DEF UpTo
    <3>2. Tail(r) \in Seq(Item) /\ Len(Tail(r)) = k
      BY <2>1, <3>1, TailIsShorter
    <3>3. Tail(r) \in UpTo(m) \cap UpTo(n)
      BY <2>1, <3>1, <3>2 DEF UpTo
    <3>4. f[Tail(r)] = g[Tail(r)]
      BY <3>2, <3>3
    <3>5. f[r] = Sum(f, r) /\ g[r] = Sum(g, r)
      BY DEF Sums
    <3>6. QED
      BY <3>1, <3>4, <3>5 DEF Sum
  <2>2. QED
    BY <2>1
<1>3. T = Nat
  <2> HIDE DEF T
  <2>1. T \subseteq Nat
    BY DEF T
  <2>2. QED
    BY <1>1, <1>2, <2>1, SetInduction
<1>4. Len(q) \in T
  BY <1>3, OnlyEmptyIsShortest DEF UpTo
<1>5. QED
  BY <1>4

\* There is a solution on the queues of up to n items, for every n.
LEMMA SumsExist ==
    ASSUME NEW n \in Nat
    PROVE  \E f : Sums(f, n)
<1> USE QueueAssumption
<1> DEFINE T == {k \in Nat : \E f : Sums(f, k)}
<1>1. 0 \in T
  <2> DEFINE f == [q \in UpTo(0) |-> 0]
  <2>1. ASSUME NEW q \in UpTo(0)
        PROVE  q = <<>>
    BY <2>1, OnlyEmptyIsShortest DEF UpTo
  <2>2. Sums(f, 0)
    BY <2>1 DEF Sums, Sum
  <2>3. QED
    BY <2>2
<1>2. ASSUME NEW k \in T
      PROVE  k + 1 \in T
  <2>1. PICK f : Sums(f, k)
    OBVIOUS
  <2> DEFINE g == [q \in UpTo(k + 1) |-> Sum(f, q)]
  <2>2. ASSUME NEW q \in UpTo(k + 1), q # <<>>
        PROVE  Tail(q) \in UpTo(k) /\ Head(q) \in Item /\ Tail(q) \in UpTo(k + 1)
    BY <2>2, TailIsShorter DEF UpTo
  <2>3. ASSUME NEW q \in UpTo(k)
        PROVE  q \in UpTo(k + 1)
    BY OnlyEmptyIsShortest DEF UpTo
  <2>4. g \in [UpTo(k + 1) -> Nat]
    BY <2>1, <2>2 DEF Sums, Sum
  <2>5. ASSUME NEW q \in UpTo(k)
        PROVE  g[q] = f[q]
    BY <2>1, <2>3 DEF Sums
  <2>6. ASSUME NEW q \in UpTo(k + 1)
        PROVE  g[q] = Sum(g, q)
    BY <2>2, <2>5 DEF Sum
  <2>7. Sums(g, k + 1)
    BY <2>4, <2>6 DEF Sums
  <2>8. QED
    BY <2>7
<1>3. T = Nat
  <2> HIDE DEF T
  <2>1. T \subseteq Nat
    BY DEF T
  <2>2. QED
    BY <1>1, <1>2, <2>1, SetInduction
<1>4. QED
  BY <1>3

\* Total satisfies the equation that defines it.
LEMMA TotalIsASum ==
    Total = [q \in Seq(Item) |-> Sum(Total, q)]
<1> DEFINE Part(n) == CHOOSE f : Sums(f, n)
           whole == [q \in Seq(Item) |-> Part(Len(q))[q]]
<1>1. ASSUME NEW n \in Nat
      PROVE  Sums(Part(n), n)
  BY SumsExist
<1>2. ASSUME NEW q \in Seq(Item)
      PROVE  whole[q] = Sum(whole, q)
  <2>1. Len(q) \in Nat /\ q \in UpTo(Len(q))
    BY OnlyEmptyIsShortest DEF UpTo
  <2>2. whole[q] = Sum(Part(Len(q)), q)
    <3> HIDE DEF Part
    <3>1. QED
      BY <1>1, <2>1 DEF Sums
  <2>3. CASE q = <<>>
    BY <2>2, <2>3 DEF Sum
  <2>4. CASE q # <<>>
    <3>1. Tail(q) \in Seq(Item) /\ Len(Tail(q)) \in Nat
          /\ Tail(q) \in UpTo(Len(q)) /\ Tail(q) \in UpTo(Len(Tail(q)))
      BY <2>4, TailIsShorter DEF UpTo
    <3>2. Part(Len(q))[Tail(q)] = Part(Len(Tail(q)))[Tail(q)]
      <4> HIDE DEF Part
      <4>1. QED
        BY <1>1, <2>1, <3>1, SumsAgree
    <3>3. whole[Tail(q)] = Part(Len(q))[Tail(q)]
      BY <3>1, <3>2
    <3> HIDE DEF Part, whole
    <3>4. QED
      BY <2>2, <2>4, <3>3 DEF Sum
  <2>5. QED
    BY <2>3, <2>4
<1>3. whole = [q \in Seq(Item) |-> Sum(whole, q)]
  <2>1. \A q \in Seq(Item) : whole[q] = Sum(whole, q)
    BY <1>2
  <2>2. whole = [q \in Seq(Item) |-> whole[q]]
    OBVIOUS
  <2> HIDE DEF whole
  <2>3. QED
    BY <2>1, <2>2
<1>4. Total = CHOOSE f : f = [q \in Seq(Item) |-> Sum(f, q)]
  BY DEF Total, Sum
<1>5. QED
  <2> HIDE DEF whole
  <2>1. QED
    BY <1>3, <1>4

\* An empty queue counts for nothing.
LEMMA TotalOfNothing == Total[<<>>] = 0
BY TotalIsASum, EmptySeq DEF Sum

\* The first item and the rest.
LEMMA TotalFromTheFront ==
    ASSUME NEW q \in Seq(Item), q # <<>>
    PROVE  Total[q] = Size[Head(q)] + Total[Tail(q)]
<1>1. Total[q] = Sum(Total, q)
  BY TotalIsASum
<1>2. QED
  BY <1>1 DEF Sum

\* No queue counts for less than nothing.
LEMMA TotalIsNatural ==
    ASSUME NEW q \in Seq(Item)
    PROVE  Total[q] \in Nat
<1> DEFINE T == {k \in Nat : \A r \in Seq(Item) : Len(r) = k => Total[r] \in Nat}
<1>1. 0 \in T
  BY TotalOfNothing, OnlyEmptyIsShortest
<1>2. ASSUME NEW k \in T
      PROVE  k + 1 \in T
  <2>1. ASSUME NEW r \in Seq(Item), Len(r) = k + 1
        PROVE  Total[r] \in Nat
    <3>1. r # <<>>
      BY <2>1, OnlyEmptyIsShortest
    <3>2. Head(r) \in Item /\ Tail(r) \in Seq(Item) /\ Len(Tail(r)) = k
      BY <2>1, <3>1, TailIsShorter
    <3>3. Total[r] = Size[Head(r)] + Total[Tail(r)]
      BY <3>1, TotalFromTheFront
    <3>4. Size[Head(r)] \in Nat /\ Total[Tail(r)] \in Nat
      BY <3>2, QueueAssumption
    <3>5. QED
      BY <3>3, <3>4
  <2>2. QED
    BY <2>1
<1>3. T = Nat
  <2> HIDE DEF T
  <2>1. T \subseteq Nat
    BY DEF T
  <2>2. QED
    BY <1>1, <1>2, <2>1, SetInduction
<1>4. Len(q) \in T
  BY <1>3, OnlyEmptyIsShortest
<1>5. QED
  BY <1>4

\* A pushed item adds its size.
LEMMA TotalAtTheBack ==
    ASSUME NEW q \in Seq(Item), NEW x \in Item
    PROVE  Total[Append(q, x)] = Total[q] + Size[x]
<1> DEFINE T == {k \in Nat : \A r \in Seq(Item) :
                    Len(r) = k => Total[Append(r, x)] = Total[r] + Size[x]}
<1>1. ASSUME NEW r \in Seq(Item)
      PROVE  Total[Append(r, x)]
             = (IF r = <<>> THEN Size[x] + Total[<<>>]
                ELSE Size[Head(r)] + Total[Append(Tail(r), x)])
  <2>1. Append(r, x) \in Seq(Item) /\ Append(r, x) # <<>>
    BY AppendProperties
  <2>2. Total[Append(r, x)]
        = Size[Head(Append(r, x))] + Total[Tail(Append(r, x))]
    BY <2>1, TotalFromTheFront
  <2>3. /\ Head(Append(r, x)) = IF r = <<>> THEN x ELSE Head(r)
        /\ Tail(Append(r, x)) = IF r = <<>> THEN <<>> ELSE Append(Tail(r), x)
    BY HeadTailAppend
  <2>4. QED
    BY <2>2, <2>3
<1>2. Size[x] \in Nat
  BY QueueAssumption
<1>3. 0 \in T
  <2>1. ASSUME NEW r \in Seq(Item), Len(r) = 0
        PROVE  Total[Append(r, x)] = Total[r] + Size[x]
    <3>1. r = <<>>
      BY <2>1, OnlyEmptyIsShortest
    <3>2. Total[Append(r, x)] = Size[x] + Total[<<>>]
      BY <1>1, <3>1
    <3>3. QED
      BY <1>2, <3>1, <3>2, TotalOfNothing
  <2>2. QED
    BY <2>1
<1>4. ASSUME NEW k \in T
      PROVE  k + 1 \in T
  <2>1. ASSUME NEW r \in Seq(Item), Len(r) = k + 1
        PROVE  Total[Append(r, x)] = Total[r] + Size[x]
    <3>1. r # <<>>
      BY <2>1, OnlyEmptyIsShortest
    <3>2. Head(r) \in Item /\ Tail(r) \in Seq(Item) /\ Len(Tail(r)) = k
      BY <2>1, <3>1, TailIsShorter
    <3>3. Total[r] = Size[Head(r)] + Total[Tail(r)]
      BY <3>1, TotalFromTheFront
    <3>4. Total[Append(r, x)] = Size[Head(r)] + Total[Append(Tail(r), x)]
      BY <1>1, <3>1
    <3>5. Total[Append(Tail(r), x)] = Total[Tail(r)] + Size[x]
      BY <3>2
    <3>6. Size[Head(r)] \in Nat /\ Total[Tail(r)] \in Nat
      BY <3>2, QueueAssumption, TotalIsNatural
    <3>7. QED
      BY <1>2, <3>3, <3>4, <3>5, <3>6
  <2>2. QED
    BY <2>1
<1>5. T = Nat
  <2> HIDE DEF T
  <2>1. T \subseteq Nat
    BY DEF T
  <2>2. QED
    BY <1>3, <1>4, <2>1, SetInduction
<1>6. Len(q) \in T
  BY <1>5, OnlyEmptyIsShortest
<1>7. QED
  BY <1>6

-----------------------------------------------------------------------------
(* The running total.  While a producer holds the mutex the queue may be    *)
(* anything; the worker finds it, and leaves it, as the last producer did.  *)

BytesInv ==
    /\ bytes = Total[items]
    /\ lock \notin Producer => bytes <= Budget \/ Len(items) = 1

LEMMA BytesInit == Init => BytesInv
BY TotalOfNothing, QueueAssumption DEF Init, BytesInv

\* Whoever takes the first item out and gives its bytes back leaves the total
\* exact and no larger.
LEMMA FrontIsPaidBack ==
    ASSUME MutexInv, BytesInv, items # <<>>, items' = Tail(items),
           bytes' = bytes - Size[Head(items)]
    PROVE  /\ bytes' = Total[items']
           /\ bytes \in Nat /\ bytes' \in Nat /\ bytes' <= bytes
           /\ Len(items) = 1 => bytes' = 0
<1> USE QueueAssumption DEF MutexInv, QueueTypes, BytesInv
<1>1. /\ Head(items) \in Item /\ Tail(items) \in Seq(Item)
      /\ Len(items) \in Nat /\ Len(Tail(items)) = Len(items) - 1
  BY TailIsShorter
<1>2. Total[items] = Size[Head(items)] + Total[Tail(items)]
  BY TotalFromTheFront
<1>3. Size[Head(items)] \in Nat /\ Total[Tail(items)] \in Nat
  BY <1>1, TotalIsNatural
<1>4. bytes' = Total[Tail(items)]
  BY <1>2, <1>3
<1>5. ASSUME Len(items) = 1
      PROVE  bytes' = 0
  <2>1. Len(Tail(items)) = 0
    BY <1>1, <1>5
  <2>2. Tail(items) = <<>>
    BY <1>1, <2>1, OnlyEmptyIsShortest
  <2>3. QED
    BY <1>4, <2>2, TotalOfNothing
<1>6. QED
  BY <1>2, <1>3, <1>4, <1>5

LEMMA BytesStep == MutexInv /\ BytesInv /\ [Next]_vars => BytesInv'
<1> SUFFICES ASSUME MutexInv, BytesInv, [Next]_vars
             PROVE  BytesInv'
  OBVIOUS
<1> USE QueueAssumption DEF Worker, Main
<1>1. ASSUME NEW p \in Producer, NEW x \in Item, PushLock(p, x)
      PROVE  BytesInv'
  BY <1>1 DEF PushLock, BytesInv
<1>2. ASSUME NEW p \in Producer, Evict(p)
      PROVE  BytesInv'
  <2>1. bytes' = Total[items']
    BY <1>2, FrontIsPaidBack DEF Evict, TooMuch
  <2>2. lock' \in Producer
    BY <1>2 DEF Evict, MutexInv, HeldBy
  <2>3. QED
    BY <2>1, <2>2 DEF BytesInv
<1>3. ASSUME NEW p \in Producer, PushBack(p)
      PROVE  BytesInv'
  <2>1. pushing[p] \in Item /\ items \in Seq(Item)
    BY <1>3 DEF PushBack, MutexInv, QueueTypes, HeldBy
  <2>2. bytes = Total[items] /\ bytes' = bytes + Size[pushing[p]]
        /\ items' = Append(items, pushing[p])
    BY <1>3 DEF PushBack, BytesInv
  <2>3. bytes' = Total[items']
    BY <2>1, <2>2, TotalAtTheBack
  <2>4. CASE items = <<>>
    <3>1. Len(items') = Len(items) + 1 /\ Len(items) = 0
      BY <2>1, <2>2, <2>4, AppendProperties, EmptySeq
    <3>2. QED
      BY <2>3, <3>1 DEF BytesInv
  <2>5. CASE items # <<>>
    <3>1. ~(bytes + Size[pushing[p]] > Budget)
      BY <1>3, <2>5 DEF PushBack, TooMuch
    <3>2. bytes \in Nat /\ Size[pushing[p]] \in Nat /\ Budget \in Nat
      BY <2>1, <2>2, TotalIsNatural
    <3>3. bytes' <= Budget
      BY <2>2, <3>1, <3>2
    <3>4. QED
      BY <2>3, <3>3 DEF BytesInv
  <2>6. QED
    BY <2>4, <2>5
<1>4. ASSUME NEW p \in Producer \cup {Main}, Notify(p)
      PROVE  BytesInv'
  BY <1>4 DEF Notify, BytesInv
<1>5. CASE Close
  BY <1>5 DEF Close, BytesInv
<1>6. CASE PopLock
  BY <1>6 DEF PopLock, BytesInv
<1>7. CASE PopItem
  <2>1. /\ bytes' = Total[items'] /\ bytes \in Nat /\ bytes' \in Nat
        /\ bytes' <= bytes
        /\ Len(items) = 1 => bytes' = 0
    BY <1>7, FrontIsPaidBack DEF PopItem
  <2>2. bytes <= Budget \/ Len(items) = 1
    BY <1>7 DEF PopItem, MutexInv, HeldBy, BytesInv
  <2>3. bytes' <= Budget
    BY <2>1, <2>2
  <2>4. QED
    BY <2>1, <2>3 DEF BytesInv
<1>8. CASE PopEnd
  BY <1>8 DEF PopEnd, BytesInv, MutexInv, HeldBy
<1>9. CASE PopWait
  BY <1>9 DEF PopWait, BytesInv, MutexInv, HeldBy
<1>10. CASE SpuriousWakeup
  BY <1>10 DEF SpuriousWakeup, BytesInv
<1>11. CASE UNCHANGED vars
  BY <1>11 DEF vars, BytesInv
<1>12. CASE Finished
  BY <1>11, <1>12 DEF Finished
<1>13. QED
  BY <1>1, <1>2, <1>3, <1>4, <1>5, <1>6, <1>7, <1>8, <1>9, <1>10, <1>11,
     <1>12 DEF Next, Push, Pop

\* The running total is the size of what is in the queue, and whenever the
\* mutex is free the queue is within its budget or holds one item alone.
THEOREM BytesAreExact == Spec => []BytesExact
<1>1. BytesInv => BytesExact
  BY QueueAssumption DEF BytesInv, BytesExact
<1>2. QED
  BY <1>1, BytesInit, BytesStep, MutexInit, MutexStep, PTL DEF Spec

=============================================================================
