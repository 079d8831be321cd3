------------------------ MODULE ClipboardHistory_proofs ------------------------
(***************************************************************************)
(* Proofs about ClipboardHistory, for every set of contents, every choice  *)
(* of limits, every budget of the queue and every bound.                   *)
(***************************************************************************)
EXTENDS ClipboardHistory, SequenceTheorems, TLAPS

-----------------------------------------------------------------------------
(* Types.  A row that is acted on is a row of the list, so it has a content *)
(* that was copied.                                                         *)

Row == [id : Nat, content : Content, pinned : BOOLEAN]

AskedIsARow == ui \notin {"free", "delete_all"} => asked \in Row

TypeInv == TypeOK /\ AskedIsARow

\* A push keeps a suffix of the queue and puts the new item after it.
LEMMA PushTypes ==
    ASSUME queue \in Seq(Item), lostControl \in BOOLEAN,
           NEW x \in Item, Push(x)
    PROVE  queue' \in Seq(Item) /\ lostControl' \in BOOLEAN
<1>1. PICK k \in 0 .. Len(queue) :
           queue' = Append(From(queue, k), x) /\ LosesControl(k)
  BY DEF Push
<1>2. From(queue, k) \in Seq(Item)
  BY DEF From
<1>3. lostControl' \in BOOLEAN
  BY <1>1, Zenon DEF LosesControl
<1>4. QED
  BY <1>1, <1>2, <1>3

LEMMA RequestTypes ==
    ASSUME requests \in 0 .. MaxRequests, Request
    PROVE  requests' \in 0 .. MaxRequests
BY HistoryAssumption DEF Request

LEMMA FaultTypes ==
    ASSUME faults \in 0 .. MaxFaults, Fault
    PROVE  faults' \in 0 .. MaxFaults
BY HistoryAssumption DEF Fault

LEMMA CaptureItems ==
    ASSUME TypeOK, NEW kind \in CaptureKinds, clipboard # Nothing
    PROVE  CaptureItem(kind, clipboard) \in Item
BY DEF TypeOK, CaptureItem, CaptureKinds, Item, Settings

\* What is read from the table is a list of rows.
LEMMA RowsNowTypes ==
    ASSUME clips \in SUBSET Clip
    PROVE  RowsNow \in SUBSET Row
BY DEF RowsNow, RowOf, Clip, Row

LEMMA ClipFields ==
    ASSUME NEW k \in Clip, NEW t \in 0 .. MaxTime, NEW b \in BOOLEAN
    PROVE  /\ [k EXCEPT !.last = t] \in Clip
           /\ [k EXCEPT !.pinned = b] \in Clip
BY DEF Clip

LEMMA PinFlips ==
    ASSUME NEW r \in Row
    PROVE  [r EXCEPT !.pinned = ~r.pinned] \in Row
<1>1. r.pinned \in BOOLEAN
  BY DEF Row
<1>2. (~r.pinned) \in BOOLEAN
  BY <1>1
<1>3. QED
  BY <1>2 DEF Row

\* What the worker takes has the fields of its kind.
LEMMA CaptureFields ==
    ASSUME NEW x \in Item, x.kind \in CaptureKinds
    PROVE  x.content \in Content /\ x.at \in 0 .. MaxTime
BY DEF Item, CaptureKinds

LEMMA LimitsFields ==
    ASSUME NEW x \in Item, x.kind = "limits"
    PROVE  x.limits \in Limits /\ x.at \in 0 .. MaxTime
BY DEF Item

LEMMA FilterFields ==
    ASSUME NEW x \in Item, x.kind = "filter"
    PROVE  x.secret \in BOOLEAN
BY DEF Item

LEMMA PinFields ==
    ASSUME NEW x \in Item, x.kind = "pin"
    PROVE  x.id \in Nat /\ x.pin \in BOOLEAN
BY DEF Item

LEMMA TakenItem ==
    ASSUME queue \in Seq(Item), NEW kind, First(kind), Took
    PROVE  /\ Head(queue) \in Item /\ Head(queue).kind = kind
           /\ queue' \in Seq(Item)
BY DEF First, Took

\* An upsert gives a content one row, with a new id unless it had one.
LEMMA UpsertTypes ==
    ASSUME clips \in SUBSET Clip, nextId \in Nat,
           NEW c \in Content, NEW t \in 0 .. MaxTime, Upsert(c, t)
    PROVE  clips' \in SUBSET Clip /\ nextId' \in Nat
<1> DEFINE known == {k \in clips : k.content = c}
<1>1. CASE known # {}
  <2>1. \A k \in known : [k EXCEPT !.last = t] \in Clip
    BY ClipFields
  <2>2. /\ clips' = (clips \ known) \cup {[k EXCEPT !.last = t] : k \in known}
        /\ nextId' = nextId
    BY <1>1 DEF Upsert
  <2>3. QED
    BY <2>1, <2>2
<1>2. CASE known = {}
  <2>1. [id |-> nextId, content |-> c, last |-> t, pinned |-> FALSE] \in Clip
    BY DEF Clip
  <2>2. /\ clips' = clips \cup {[id |-> nextId, content |-> c, last |-> t,
                               pinned |-> FALSE]}
        /\ nextId' = nextId + 1
    BY <1>2 DEF Upsert
  <2>3. clips' \in SUBSET Clip
    BY <2>1, <2>2, Zenon
  <2>4. QED
    BY <2>2, <2>3
<1>3. QED
  BY <1>1, <1>2

LEMMA DeleteTypes ==
    ASSUME TypeOK, NEW doomed \in SUBSET clips, Delete(doomed)
    PROVE  /\ clips' \in SUBSET Clip /\ gone' \in SUBSET Content
           /\ reply' \in {"applied", "failed"}
           /\ faults' \in 0 .. MaxFaults
           /\ UNCHANGED <<ui, asked, copied, rows, says>>
<1>1. ContentsOf(doomed) \in SUBSET Content
  BY DEF TypeOK, ContentsOf, Clip
<1>2. QED
  BY <1>1, HistoryAssumption DEF TypeOK, Delete, Answer, Fault

LEMMA TypeInvInit == Init => TypeInv
<1> SUFFICES ASSUME Init
             PROVE  TypeInv
  OBVIOUS
<1>1. PICK s \in Settings : shared = s /\ own = s
  BY DEF Init
<1>2. selfWrite \in BOOLEAN /\ balloon \in BOOLEAN /\ lostControl \in BOOLEAN
  BY Zenon DEF Init
<1>3. QED
  BY <1>1, <1>2, HistoryAssumption
     DEF Init, TypeInv, TypeOK, AskedIsARow, NoGuard, NoRow, RequestKinds

LEMMA TypeInvStep == TypeInv /\ [Next]_vars => TypeInv'
<1> SUFFICES ASSUME TypeInv, [Next]_vars
             PROVE  TypeInv'
  OBVIOUS
<1> USE DEF TypeInv, TypeOK, AskedIsARow, screen, config, worker, store,
            window, counters, ghosts, RequestKinds
<1>1. ASSUME NEW c \in Content, ForeignCopy(c)
      PROVE  TypeInv'
  BY <1>1, HistoryAssumption DEF ForeignCopy
<1>2. ASSUME NEW t \in 0 .. MaxTime, SetClock(t)
      PROVE  TypeInv'
  BY <1>2 DEF SetClock
<1>3. CASE ProcessOne
  <2> DEFINE x == Head(queue)
  <2>1. /\ x \in Item /\ x.kind \in CaptureKinds
        /\ queue' \in Seq(Item)
    BY <1>3, TakenItem DEF ProcessOne, CaptureKinds
  <2>2. x.content \in Content /\ x.at \in 0 .. MaxTime
    BY <2>1, CaptureFields
  <2>3. /\ balloon' \in BOOLEAN
        /\ clips' \in SUBSET Clip /\ nextId' \in Nat
        /\ wstep' \in {"pop", "age", "count"} /\ wnow' \in 0 .. MaxTime
        /\ leaked' \in SUBSET Content /\ faults' \in 0 .. MaxFaults
    <3>1. CASE Rejected(x) /\ balloon' = TRUE /\ UNCHANGED <<worker, store, faults, leaked>>
      BY <3>1
    <3>2. CASE /\ ~Rejected(x) /\ Upsert(x.content, x.at)
               /\ wstep' = "age" /\ wnow' = x.at
               /\ leaked' = IF x.kind = "capture" /\ x.screened
                               /\ x.content \in Secret
                            THEN leaked \cup {x.content} ELSE leaked
               /\ UNCHANGED <<balloon, faults>>
      BY <2>2, <3>2, UpsertTypes
    <3>3. CASE Fault /\ UNCHANGED <<balloon, worker, store, leaked>>
      BY <3>3, HistoryAssumption DEF Fault
    <3>4. QED
      BY <1>3, <3>1, <3>2, <3>3 DEF ProcessOne
  <2>4. UNCHANGED <<now, screen, config, window, copies, requests, gone, lostControl>>
    BY <1>3 DEF ProcessOne
  <2>5. QED
    BY <2>1, <2>3, <2>4
<1>4. CASE PurgeOlderThan
  BY <1>4, HistoryAssumption DEF PurgeOlderThan, Fault
<1>5. CASE PurgeOverCount
  BY <1>5, HistoryAssumption DEF PurgeOverCount, Fault
<1>6. CASE ApplyLimits
  <2>1. /\ Head(queue).limits \in Limits /\ Head(queue).at \in 0 .. MaxTime
        /\ queue' \in Seq(Item)
    BY <1>6, TakenItem, LimitsFields DEF ApplyLimits
  <2>2. own' \in Settings
    BY <1>6, <2>1 DEF ApplyLimits, Settings
  <2>3. QED
    BY <1>6, <2>1, <2>2 DEF ApplyLimits
<1>7. CASE ApplyFilter
  <2>1. Head(queue).secret \in BOOLEAN /\ queue' \in Seq(Item)
    BY <1>7, TakenItem, FilterFields DEF ApplyFilter
  <2>2. own' \in Settings
    BY <1>7, <2>1 DEF ApplyFilter, Settings
  <2>3. QED
    BY <1>7, <2>1, <2>2 DEF ApplyFilter
<1>8. CASE SetPinned
  <2> DEFINE x == Head(queue)
  <2>1. x.pin \in BOOLEAN /\ queue' \in Seq(Item)
    BY <1>8, TakenItem, PinFields DEF SetPinned
  <2>2. \A k \in ById(x.id) : [k EXCEPT !.pinned = x.pin] \in Clip
    BY <2>1, ClipFields DEF ById
  <2>3. /\ \/ clips' = clips
           \/ clips' = (clips \ ById(x.id))
                       \cup {[k EXCEPT !.pinned = x.pin] : k \in ById(x.id)}
        /\ Fault \/ UNCHANGED faults
        /\ reply' = "failed" \/ reply' = PinOutcome(x)
    BY <1>8 DEF SetPinned, Answer
  <2>4. clips' \in SUBSET Clip
    BY <2>2, <2>3
  <2>5. /\ faults' \in 0 .. MaxFaults
        /\ reply' \in {"none", "applied", "cap_reached", "not_found", "failed"}
    BY <2>3, FaultTypes DEF PinOutcome
  <2>6. UNCHANGED <<ui, asked, copied, rows, says>>
    BY <1>8 DEF SetPinned, Answer
  <2>7. QED
    BY <1>8, <2>1, <2>4, <2>5, <2>6 DEF SetPinned
<1>9. CASE DeleteOne
  <2>1. queue' \in Seq(Item)
    BY <1>9, TakenItem DEF DeleteOne
  <2>2. PICK doomed \in SUBSET clips : Delete(doomed)
    BY <1>9 DEF DeleteOne, ById
  <2>3. QED
    BY <1>9, <2>1, <2>2, DeleteTypes DEF DeleteOne
<1>10. CASE DeleteAll
  <2>1. queue' \in Seq(Item)
    BY <1>10, TakenItem DEF DeleteAll
  <2>2. PICK doomed \in SUBSET clips : Delete(doomed)
    BY <1>10 DEF DeleteAll, Unpinned
  <2>3. QED
    BY <1>10, <2>1, <2>2, DeleteTypes DEF DeleteAll
<1>11. CASE RecoverOnClick
  <2>1. /\ queue' \in Seq(Item) /\ lostControl' \in BOOLEAN
        /\ gone' \in SUBSET Content /\ faults' \in 0 .. MaxFaults
    <3>1. CASE clipboard # Nothing /\ Push(CaptureItem("recover", clipboard))
      <4>1. CaptureItem("recover", clipboard) \in Item
        BY <3>1, CaptureItems DEF CaptureKinds
      <4>2. queue' \in Seq(Item) /\ lostControl' \in BOOLEAN
        BY <3>1, <4>1, PushTypes
      <4>3. gone' \in SUBSET Content /\ faults' \in 0 .. MaxFaults
        BY <1>11, HistoryAssumption DEF RecoverOnClick, Fault
      <4>4. QED
        BY <4>2, <4>3
    <3>2. CASE UNCHANGED <<queue, gone, lostControl>> /\ (Fault \/ UNCHANGED faults)
      BY <3>2, HistoryAssumption DEF Fault
    <3>3. QED
      BY <1>11, <3>1, <3>2 DEF RecoverOnClick
  <2>2. balloon' \in BOOLEAN
    BY <1>11, Zenon DEF RecoverOnClick
  <2>3. QED
    BY <1>11, <2>1, <2>2 DEF RecoverOnClick
<1>12. CASE ChangeFilter
  <2> DEFINE x == [kind |-> "filter", secret |-> ~shared.secret]
  <2>1. shared.secret \in BOOLEAN
    BY DEF Settings
  <2>2. (~shared.secret) \in BOOLEAN
    BY <2>1
  <2>3. x \in Item
    BY <2>2 DEF Item
  <2>4. shared' = [shared EXCEPT !.secret = ~shared.secret]
    BY <1>12 DEF ChangeFilter
  <2>5. shared' \in Settings
    BY <2>2, <2>4 DEF Settings
  <2>6. queue' \in Seq(Item) /\ lostControl' \in BOOLEAN
    BY <1>12, <2>3, PushTypes DEF ChangeFilter
  <2>7. requests' \in 0 .. MaxRequests
    BY <1>12, RequestTypes DEF ChangeFilter
  <2>8. QED
    BY <1>12, <2>5, <2>6, <2>7 DEF ChangeFilter
<1>13. ASSUME NEW l \in Limits, ChangeLimits(l)
       PROVE  TypeInv'
  <2>1. /\ [kind |-> "limits", at |-> now, limits |-> l] \in Item
        /\ [shared EXCEPT !.limits = l] \in Settings
    BY DEF Item, Settings
  <2>2. queue' \in Seq(Item) /\ lostControl' \in BOOLEAN
    BY <1>13, <2>1, PushTypes DEF ChangeLimits
  <2>3. requests' \in 0 .. MaxRequests /\ shared' \in Settings
    BY <1>13, <2>1, RequestTypes DEF ChangeLimits
  <2>4. QED
    BY <1>13, <2>2, <2>3 DEF ChangeLimits
<1>14. CASE OpenWindow
  BY <1>14, RowsNowTypes DEF OpenWindow, Row
<1>15. ASSUME NEW r \in rows, AskPin(r)
       PROVE  TypeInv'
  <2> DEFINE x == [kind |-> "pin", id |-> r.id, pin |-> ~r.pinned]
  <2>1. r.pinned \in BOOLEAN
    OBVIOUS
  <2>2. x \in Item /\ x.kind = "pin" /\ r \in Row
    <3>1. (~r.pinned) \in BOOLEAN
      BY <2>1
    <3>2. QED
      BY <3>1 DEF Item, Row
  <2>3. queue' \in Seq(Item) /\ lostControl' \in BOOLEAN
    BY <1>15, <2>2, PushTypes DEF AskPin, Ask
  <2>4. QED
    BY <1>15, <2>2, <2>3, HistoryAssumption DEF AskPin, Ask, Request, Row
<1>16. ASSUME NEW r \in rows, AskDelete(r)
       PROVE  TypeInv'
  <2> DEFINE x == [kind |-> "delete", id |-> r.id]
  <2>1. x \in Item /\ x.kind = "delete" /\ r \in Row
    BY DEF Item, Row
  <2>2. queue' \in Seq(Item) /\ lostControl' \in BOOLEAN
    BY <1>16, <2>1, PushTypes DEF AskDelete, Ask
  <2>3. QED
    BY <1>16, <2>1, <2>2, HistoryAssumption DEF AskDelete, Ask, Request, Row
<1>17. ASSUME NEW r \in rows, ChooseRow(r)
       PROVE  TypeInv'
  BY <1>17, HistoryAssumption DEF ChooseRow, Request, Row
<1>18. ASSUME NEW keep \in BOOLEAN, AskDeleteAll(keep)
       PROVE  TypeInv'
  BY <1>18, HistoryAssumption, PushTypes DEF AskDeleteAll, Ask, Request, Item, NoRow
<1>19. CASE Notified
  <2>1. /\ queue' \in Seq(Item) /\ lostControl' \in BOOLEAN
        /\ faults' \in 0 .. MaxFaults
        /\ guard' \in [content : Content \cup {Nothing}, at : 0 .. MaxTime]
    <3>1. CASE /\ clipboard # Nothing /\ Push(CaptureItem("capture", clipboard))
               /\ guard' = [content |-> clipboard, at |-> now]
               /\ UNCHANGED faults
      BY <3>1, CaptureItems, PushTypes DEF CaptureKinds
    <3>2. CASE UNCHANGED <<guard, queue, lostControl>> /\ (Fault \/ UNCHANGED faults)
      BY <3>2, HistoryAssumption DEF Fault
    <3>3. QED
      BY <1>19, <3>1, <3>2 DEF Notified, CaptureAndEnqueue
  <2>2. writer' \in {"nobody", "other", "seen", "paste"}
    BY <1>19 DEF Notified, Seen
  <2>3. selfWrite' \in BOOLEAN
    BY <1>19, Zenon DEF Notified
  <2>4. notes' \in Nat
    BY <1>19 DEF Notified
  <2>5. QED
    BY <1>19, <2>1, <2>2, <2>3, <2>4 DEF Notified
<1>20. CASE PinAnswered
  <2>1. asked \in Row
    BY <1>20 DEF PinAnswered, Answered
  <2>2. rows' \in SUBSET Row
    BY <1>20, <2>1, RowsNowTypes, PinFlips DEF PinAnswered, Row
  <2>3. /\ ui' = "free" /\ asked' = NoRow /\ reply' = "none" /\ says' = says
        /\ UNCHANGED <<now, screen, balloon, config, queue, worker, store,
                       copied, counters, ghosts>>
    BY <1>20 DEF PinAnswered, Answered
  <2>4. NoRow \in [id : Nat, content : Content \cup {Nothing}, pinned : BOOLEAN]
    BY DEF NoRow
  <2>5. QED
    BY <2>2, <2>3, <2>4 DEF Row
<1>21. CASE DeleteAnswered
  BY <1>21, HistoryAssumption, RowsNowTypes DEF DeleteAnswered, Answered, NoRow, Row
<1>22. CASE DeleteAllAnswered
  BY <1>22, HistoryAssumption, RowsNowTypes DEF DeleteAllAnswered, Answered, NoRow, Row
<1>23. CASE ReadFormats
  BY <1>23, HistoryAssumption DEF ReadFormats, ContentsOf, ById, Clip
<1>24. CASE WriteClipboard
  <2>1. /\ clipboard' \in Content \cup {Nothing} /\ notes' \in Nat
        /\ writer' \in {"nobody", "other", "seen", "paste"}
        /\ faults' \in 0 .. MaxFaults
    BY <1>24, HistoryAssumption DEF WriteClipboard, Fault
  <2>2. selfWrite' \in BOOLEAN
    BY <1>24, Zenon DEF WriteClipboard
  <2>3. QED
    BY <1>24, <2>1, <2>2, HistoryAssumption DEF WriteClipboard, NoRow
<1>25. CASE UNCHANGED vars
  BY <1>25 DEF vars
<1>26. QED
  BY <1>1, <1>2, <1>3, <1>4, <1>5, <1>6, <1>7, <1>8, <1>9, <1>10, <1>11,
     <1>12, <1>13, <1>14, <1>15, <1>16, <1>17, <1>18, <1>19, <1>20, <1>21,
     <1>22, <1>23, <1>24, <1>25
     DEF Next, Others, Worker, User, Handlers

\* Every variable keeps its type in every behaviour.
THEOREM TypeCorrect == Spec => []TypeOK
<1>1. TypeInv => TypeOK
  BY DEF TypeInv
<1>2. QED
  BY <1>1, TypeInvInit, TypeInvStep, PTL DEF Spec

-----------------------------------------------------------------------------
(* What the invariants rest on.                                             *)

\* A copy of another program that waits has its notification, and the flag of
\* a paste of ours, once written, one more.
NotesInv ==
    /\ writer = "other" => notes >= 1
    /\ ui = "pasting" => selfWrite
    /\ ui # "pasting" /\ selfWrite =>
          notes >= (IF writer = "other" THEN 2 ELSE 1)

\* Ids and contents identify a clip, and every id in use was given out.
IdsInv ==
    /\ nextId >= 1
    /\ \A k \in clips : 1 <= k.id /\ k.id < nextId
    /\ \A k, l \in clips : k.id = l.id \/ k.content = l.content => k = l
    /\ \A r \in rows \cup {asked} : r.id < nextId
    /\ RowsNeverMislead

\* The UI thread waits for the only request of the queue, which is its end.
RequestInv ==
    /\ ui \notin RequestKinds => reply = "none"
    /\ \A i \in 1 .. Len(queue) :
          queue[i].kind \in RequestKinds =>
              i = Len(queue) /\ ui = queue[i].kind /\ reply = "none"

\* No capture on its way brings back what was deleted.
GoneInv ==
    /\ DeletedStaysDeleted
    /\ \A i \in 1 .. Len(queue) :
          queue[i].kind \in CaptureKinds => queue[i].content \notin gone

\* Nor does a notification or a paste on its way.
ClipboardInv ==
    /\ clipboard \in gone => notes = 0
    /\ ui = "pasting" => copied \notin gone

NoFilter(i, j) == \A m \in i .. j : queue[m].kind # "filter"

\* The worker will detect secrets when it comes to place i of the queue.
DetectsAt(i) ==
    /\ NoFilter(1, i - 1) => own.secret
    /\ \A j \in 1 .. i - 1 :
          queue[j].kind = "filter" /\ NoFilter(j + 1, i - 1) => queue[j].secret

\* The worker learns of the detection before it meets a capture made under it.
SecretInv ==
    ~lostControl =>
        /\ leaked = {}
        /\ shared.secret => DetectsAt(Len(queue) + 1)
        /\ \A i \in 1 .. Len(queue) :
              queue[i].kind = "capture" /\ queue[i].screened => DetectsAt(i)

-----------------------------------------------------------------------------
(* No copy is missed.                                                       *)

LEMMA NotesInvStep == TypeOK /\ NotesInv /\ [Next]_vars => NotesInv'
<1> SUFFICES ASSUME TypeOK, NotesInv, [Next]_vars
             PROVE  NotesInv'
  OBVIOUS
<1>0. notes \in Nat
  BY DEF TypeOK
<1> USE <1>0 DEF NotesInv, screen, config, worker, store, window, counters,
            ghosts
<1>1. ASSUME NEW c \in Content, ForeignCopy(c)
      PROVE  NotesInv'
  BY <1>1 DEF ForeignCopy
<1>2. ASSUME NEW t \in 0 .. MaxTime, SetClock(t)
      PROVE  NotesInv'
  BY <1>2 DEF SetClock
<1>3. CASE ProcessOne
  BY <1>3 DEF ProcessOne
<1>4. CASE PurgeOlderThan
  BY <1>4 DEF PurgeOlderThan
<1>5. CASE PurgeOverCount
  BY <1>5 DEF PurgeOverCount
<1>6. CASE ApplyLimits
  BY <1>6 DEF ApplyLimits
<1>7. CASE ApplyFilter
  BY <1>7 DEF ApplyFilter
<1>8. CASE SetPinned
  BY <1>8 DEF SetPinned, Answer
<1>9. CASE DeleteOne
  BY <1>9 DEF DeleteOne, Delete, Answer
<1>10. CASE DeleteAll
  BY <1>10 DEF DeleteAll, Delete, Answer
<1>11. CASE RecoverOnClick
  BY <1>11 DEF RecoverOnClick
<1>12. CASE ChangeFilter
  BY <1>12 DEF ChangeFilter
<1>13. ASSUME NEW l \in Limits, ChangeLimits(l)
      PROVE  NotesInv'
  BY <1>13 DEF ChangeLimits
<1>14. CASE OpenWindow
  BY <1>14 DEF OpenWindow
<1>15. ASSUME NEW r \in rows, AskPin(r)
      PROVE  NotesInv'
  BY <1>15 DEF AskPin, Ask, RequestKinds
<1>16. ASSUME NEW r \in rows, AskDelete(r)
      PROVE  NotesInv'
  BY <1>16 DEF AskDelete, Ask, RequestKinds
<1>17. ASSUME NEW r \in rows, ChooseRow(r)
      PROVE  NotesInv'
  BY <1>17 DEF ChooseRow
<1>18. ASSUME NEW keep \in BOOLEAN, AskDeleteAll(keep)
      PROVE  NotesInv'
  BY <1>18 DEF AskDeleteAll, Ask, RequestKinds
<1>19. CASE Notified
  BY <1>19 DEF Notified, CaptureAndEnqueue, Seen
<1>20. CASE PinAnswered
  BY <1>20 DEF PinAnswered, Answered
<1>21. CASE DeleteAnswered
  BY <1>21 DEF DeleteAnswered, Answered
<1>22. CASE DeleteAllAnswered
  BY <1>22 DEF DeleteAllAnswered, Answered
<1>23. CASE ReadFormats
  BY <1>23 DEF ReadFormats
<1>24. CASE WriteClipboard
  <2>1. ui' = "free"
    BY <1>24 DEF WriteClipboard
  <2>2. CASE writer' = "paste" /\ notes' = notes + 1
    BY <2>1, <2>2
  <2>3. CASE ~selfWrite' /\ UNCHANGED <<writer, notes>>
    BY <2>1, <2>3
  <2>4. QED
    BY <1>24, <2>2, <2>3, Zenon DEF WriteClipboard
<1>25. CASE UNCHANGED vars
  BY <1>25 DEF vars
<1>26. QED
  BY <1>1, <1>2, <1>3, <1>4, <1>5, <1>6, <1>7, <1>8, <1>9, <1>10, <1>11,
     <1>12, <1>13, <1>14, <1>15, <1>16, <1>17, <1>18, <1>19, <1>20, <1>21,
     <1>22, <1>23, <1>24, <1>25
     DEF Next, Others, Worker, User, Handlers

\* While another program's copy is on the clipboard, unseen, a notification
\* that no paste of ours swallows is left, however the threads interleave.
THEOREM NoCopyIsMissed == Spec => []NoCopyMissed
<1>1. Init => NotesInv
  BY DEF Init, NotesInv
<1>2. TypeOK /\ NotesInv => NoCopyMissed
  BY DEF TypeOK, NotesInv, NoCopyMissed
<1>3. QED
  BY <1>1, <1>2, NotesInvStep, TypeCorrect, PTL DEF Spec

-----------------------------------------------------------------------------
(* A row never stands for another clip.                                     *)

LEMMA IdsInvFrame ==
    IdsInv /\ UNCHANGED <<clips, nextId, rows, asked>> => IdsInv'
BY DEF IdsInv, RowsNeverMislead

\* Rows that match the table, and no row, keep the invariant.
LEMMA IdsInvRows ==
    ASSUME TypeOK, IdsInv, UNCHANGED <<clips, nextId>>,
           asked' \in rows \cup {asked, NoRow},
           \A r \in rows' :
               /\ r.id < nextId
               /\ \A k \in clips : r.id = k.id => r.content = k.content
    PROVE  IdsInv'
<1>1. \A k \in clips : k.id \in Nat
  BY DEF TypeOK, Clip
<1>2. NoRow.id < nextId /\ \A k \in clips : NoRow.id # k.id
  BY <1>1 DEF IdsInv, NoRow, TypeOK
<1>3. QED
  BY <1>2 DEF IdsInv, RowsNeverMislead

LEMMA RowsNowMatch ==
    ASSUME IdsInv, NEW r \in rows \cup RowsNow
    PROVE  /\ r.id < nextId
           /\ \A k \in clips : r.id = k.id => r.content = k.content
BY DEF IdsInv, RowsNeverMislead, RowsNow, RowOf

LEMMA FewerClips ==
    IdsInv /\ clips' \subseteq clips /\ UNCHANGED <<nextId, rows, asked>>
        => IdsInv'
BY DEF IdsInv, RowsNeverMislead

\* Every clip of the new table is one of the old with its id and content.
LEMMA SameClips ==
    ASSUME IdsInv, UNCHANGED <<nextId, rows, asked>>,
           \A k \in clips' : \E l \in clips :
               k.id = l.id /\ k.content = l.content,
           \A k, l \in clips' : k.id = l.id \/ k.content = l.content => k = l
    PROVE  IdsInv'
BY DEF IdsInv, RowsNeverMislead

LEMMA UpsertKeepsIds ==
    ASSUME TypeOK, IdsInv, UNCHANGED <<rows, asked>>,
           NEW c \in Content, NEW t \in 0 .. MaxTime, Upsert(c, t)
    PROVE  IdsInv'
<1> DEFINE known == {k \in clips : k.content = c}
<1>1. CASE known # {}
  <2>1. /\ clips' = (clips \ known) \cup {[k EXCEPT !.last = t] : k \in known}
        /\ nextId' = nextId
    BY <1>1 DEF Upsert
  <2>2. \A k \in clips : LET u == [k EXCEPT !.last = t]
                         IN  u.id = k.id /\ u.content = k.content
    BY DEF TypeOK, Clip
  <2>3. \A k \in clips' : \E l \in clips :
            /\ k.id = l.id /\ k.content = l.content
            /\ k = IF l \in known THEN [l EXCEPT !.last = t] ELSE l
    BY <2>1, <2>2
  <2>4. QED
    BY <2>1, <2>3, SameClips DEF IdsInv
<1>2. CASE known = {}
  <2> DEFINE new == [id |-> nextId, content |-> c, last |-> t, pinned |-> FALSE]
  <2>1. clips' = clips \cup {new} /\ nextId' = nextId + 1
    BY <1>2 DEF Upsert
  <2>2. /\ new.id = nextId /\ new.content = c
        /\ \A k \in clips : k.content # c
    BY <1>2
  <2>3. /\ nextId \in Nat
        /\ \A k \in clips : k.id \in Nat
        /\ \A r \in rows \cup {asked} : r.id \in Nat
    BY DEF TypeOK, Clip
  <2>4. /\ nextId' >= 1
        /\ \A k \in clips' : 1 <= k.id /\ k.id < nextId'
        /\ \A r \in rows' \cup {asked'} : r.id < nextId'
    BY <2>1, <2>2, <2>3 DEF IdsInv
  <2>5. \A k \in clips : k.id # new.id /\ k.content # new.content
    BY <2>2, <2>3 DEF IdsInv
  <2>6. \A k, l \in clips' : k.id = l.id \/ k.content = l.content => k = l
    BY <2>1, <2>5 DEF IdsInv
  <2>7. \A r \in rows \cup {asked} : r.id # new.id
    BY <2>2, <2>3 DEF IdsInv
  <2>8. RowsNeverMislead'
    BY <2>1, <2>7 DEF IdsInv, RowsNeverMislead
  <2>9. QED
    BY <2>4, <2>6, <2>8 DEF IdsInv
<1>3. QED
  BY <1>1, <1>2

LEMMA IdsInvStep == TypeOK /\ IdsInv /\ [Next]_vars => IdsInv'
<1> SUFFICES ASSUME TypeOK, IdsInv, [Next]_vars
             PROVE  IdsInv'
  OBVIOUS
<1> USE DEF screen, config, worker, store, window, counters, ghosts
<1>1. ASSUME NEW c \in Content, ForeignCopy(c)
      PROVE  IdsInv'
  <2>1. UNCHANGED <<clips, nextId, rows, asked>>
    BY <1>1 DEF ForeignCopy
  <2>2. QED
    BY <2>1, IdsInvFrame
<1>2. ASSUME NEW t \in 0 .. MaxTime, SetClock(t)
      PROVE  IdsInv'
  <2>1. UNCHANGED <<clips, nextId, rows, asked>>
    BY <1>2 DEF SetClock
  <2>2. QED
    BY <2>1, IdsInvFrame
<1>3. CASE ProcessOne
  <2>1. UNCHANGED <<rows, asked>>
    BY <1>3 DEF ProcessOne
  <2>2. CASE UNCHANGED store
    BY <2>1, <2>2, IdsInvFrame
  <2>3. CASE Upsert(Head(queue).content, Head(queue).at)
    <3>1. Head(queue) \in Item /\ Head(queue).kind \in CaptureKinds
      BY <1>3, TakenItem DEF ProcessOne, TypeOK, CaptureKinds
    <3>2. Head(queue).content \in Content /\ Head(queue).at \in 0 .. MaxTime
      BY <3>1, CaptureFields
    <3>3. QED
      BY <2>1, <2>3, <3>2, UpsertKeepsIds
  <2>4. QED
    BY <1>3, <2>2, <2>3 DEF ProcessOne
<1>4. CASE PurgeOlderThan
  <2>1. clips' \subseteq clips /\ UNCHANGED <<nextId, rows, asked>>
    BY <1>4 DEF PurgeOlderThan
  <2>2. QED
    BY <2>1, FewerClips
<1>5. CASE PurgeOverCount
  <2>1. clips' \subseteq clips /\ UNCHANGED <<nextId, rows, asked>>
    BY <1>5 DEF PurgeOverCount
  <2>2. QED
    BY <2>1, FewerClips
<1>6. CASE ApplyLimits
  <2>1. UNCHANGED <<clips, nextId, rows, asked>>
    BY <1>6 DEF ApplyLimits
  <2>2. QED
    BY <2>1, IdsInvFrame
<1>7. CASE ApplyFilter
  <2>1. UNCHANGED <<clips, nextId, rows, asked>>
    BY <1>7 DEF ApplyFilter
  <2>2. QED
    BY <2>1, IdsInvFrame
<1>8. CASE SetPinned
  <2> DEFINE hit == ById(Head(queue).id)
  <2>1. UNCHANGED <<nextId, rows, asked>>
    BY <1>8 DEF SetPinned, Answer
  <2>2. CASE UNCHANGED clips
    BY <2>1, <2>2, IdsInvFrame
  <2>3. CASE clips' = (clips \ hit)
                      \cup {[k EXCEPT !.pinned = Head(queue).pin] : k \in hit}
    <3>1. hit \subseteq clips
      BY DEF ById
    <3>2. \A k \in clips : LET u == [k EXCEPT !.pinned = Head(queue).pin]
                           IN  u.id = k.id /\ u.content = k.content
      BY DEF TypeOK, Clip
    <3>3. \A k \in clips' : \E l \in clips :
              /\ k.id = l.id /\ k.content = l.content
              /\ k = IF l \in hit THEN [l EXCEPT !.pinned = Head(queue).pin]
                     ELSE l
      BY <2>3, <3>1, <3>2
    <3>4. QED
      BY <2>1, <3>3, SameClips DEF IdsInv
  <2>4. QED
    BY <1>8, <2>2, <2>3 DEF SetPinned
<1>9. CASE DeleteOne
  <2>1. clips' \subseteq clips /\ UNCHANGED <<nextId, rows, asked>>
    BY <1>9 DEF DeleteOne, Delete, Answer, ById
  <2>2. QED
    BY <2>1, FewerClips
<1>10. CASE DeleteAll
  <2>1. clips' \subseteq clips /\ UNCHANGED <<nextId, rows, asked>>
    BY <1>10 DEF DeleteAll, Delete, Answer, Unpinned
  <2>2. QED
    BY <2>1, FewerClips
<1>11. CASE RecoverOnClick
  <2>1. UNCHANGED <<clips, nextId, rows, asked>>
    BY <1>11 DEF RecoverOnClick
  <2>2. QED
    BY <2>1, IdsInvFrame
<1>12. CASE ChangeFilter
  <2>1. UNCHANGED <<clips, nextId, rows, asked>>
    BY <1>12 DEF ChangeFilter
  <2>2. QED
    BY <2>1, IdsInvFrame
<1>13. ASSUME NEW l \in Limits, ChangeLimits(l)
      PROVE  IdsInv'
  <2>1. UNCHANGED <<clips, nextId, rows, asked>>
    BY <1>13 DEF ChangeLimits
  <2>2. QED
    BY <2>1, IdsInvFrame
<1>14. CASE OpenWindow
  <2>1. UNCHANGED <<clips, nextId, asked>> /\ rows' = RowsNow
    BY <1>14 DEF OpenWindow
  <2>2. QED
    BY <2>1, RowsNowMatch, IdsInvRows
<1>15. ASSUME NEW r \in rows, AskPin(r)
      PROVE  IdsInv'
  <2>1. UNCHANGED <<clips, nextId, rows>> /\ asked' \in rows
    BY <1>15 DEF AskPin, Ask
  <2>2. QED
    BY <2>1, RowsNowMatch, IdsInvRows
<1>16. ASSUME NEW r \in rows, AskDelete(r)
      PROVE  IdsInv'
  <2>1. UNCHANGED <<clips, nextId, rows>> /\ asked' \in rows
    BY <1>16 DEF AskDelete, Ask
  <2>2. QED
    BY <2>1, RowsNowMatch, IdsInvRows
<1>17. ASSUME NEW r \in rows, ChooseRow(r)
      PROVE  IdsInv'
  <2>1. UNCHANGED <<clips, nextId, rows>> /\ asked' \in rows
    BY <1>17 DEF ChooseRow
  <2>2. QED
    BY <2>1, RowsNowMatch, IdsInvRows
<1>18. ASSUME NEW keep \in BOOLEAN, AskDeleteAll(keep)
      PROVE  IdsInv'
  <2>1. UNCHANGED <<clips, nextId, rows>> /\ asked' = NoRow
    BY <1>18 DEF AskDeleteAll, Ask
  <2>2. QED
    BY <2>1, RowsNowMatch, IdsInvRows
<1>19. CASE Notified
  <2>1. UNCHANGED <<clips, nextId, rows, asked>>
    BY <1>19 DEF Notified
  <2>2. QED
    BY <2>1, IdsInvFrame
<1>20. CASE PinAnswered
  <2>1. UNCHANGED <<clips, nextId>> /\ asked' = NoRow
    BY <1>20 DEF PinAnswered, Answered
  <2>2. \/ rows' \in {rows, RowsNow}
        \/ rows' = (rows \ {asked})
                   \cup {[asked EXCEPT !.pinned = ~asked.pinned]}
    BY <1>20 DEF PinAnswered
  <2>3. CASE rows' \in {rows, RowsNow}
    BY <2>1, <2>3, RowsNowMatch, IdsInvRows
  <2>4. CASE rows' = (rows \ {asked})
                      \cup {[asked EXCEPT !.pinned = ~asked.pinned]}
    <3>1. \A r \in rows' : \E s \in rows \cup {asked} :
              r.id = s.id /\ r.content = s.content
      BY <2>4 DEF TypeOK
    <3>2. \A r \in rows' : r.id < nextId
      BY <3>1 DEF IdsInv
    <3>3. \A r \in rows', k \in clips : r.id = k.id => r.content = k.content
      BY <3>1 DEF IdsInv, RowsNeverMislead
    <3>4. QED
      BY <2>1, <3>2, <3>3, IdsInvRows
  <2>5. QED
    BY <2>2, <2>3, <2>4
<1>21. CASE DeleteAnswered
  <2>1. UNCHANGED <<clips, nextId>> /\ asked' = NoRow
        /\ rows' \in {rows, RowsNow}
    BY <1>21 DEF DeleteAnswered, Answered
  <2>2. QED
    BY <2>1, RowsNowMatch, IdsInvRows
<1>22. CASE DeleteAllAnswered
  <2>1. UNCHANGED <<clips, nextId>> /\ asked' = NoRow
        /\ rows' \in {rows, RowsNow}
    BY <1>22 DEF DeleteAllAnswered, Answered
  <2>2. QED
    BY <2>1, RowsNowMatch, IdsInvRows
<1>23. CASE ReadFormats
  <2>1. UNCHANGED <<clips, nextId, rows, asked>>
    BY <1>23 DEF ReadFormats
  <2>2. QED
    BY <2>1, IdsInvFrame
<1>24. CASE WriteClipboard
  <2>1. UNCHANGED <<clips, nextId, rows>> /\ asked' = NoRow
    BY <1>24 DEF WriteClipboard
  <2>2. QED
    BY <2>1, RowsNowMatch, IdsInvRows
<1>25. CASE UNCHANGED vars
  BY <1>25, IdsInvFrame DEF vars
<1>26. QED
  BY <1>1, <1>2, <1>3, <1>4, <1>5, <1>6, <1>7, <1>8, <1>9, <1>10, <1>11,
     <1>12, <1>13, <1>14, <1>15, <1>16, <1>17, <1>18, <1>19, <1>20, <1>21,
     <1>22, <1>23, <1>24, <1>25
     DEF Next, Others, Worker, User, Handlers

\* A row on the screen, however old, never stands for another clip than the one
\* it shows.
THEOREM RowsAreNotMistaken == Spec => []RowsNeverMislead
<1>1. Init => IdsInv
  BY DEF Init, IdsInv, RowsNeverMislead, NoRow
<1>2. IdsInv => RowsNeverMislead
  BY DEF IdsInv
<1>3. QED
  BY <1>1, <1>2, IdsInvStep, TypeCorrect, PTL DEF Spec

-----------------------------------------------------------------------------
(* The queue.                                                               *)

LEMMA FilterItem ==
    ASSUME TypeOK
    PROVE  [kind |-> "filter", secret |-> ~shared.secret] \in Item
<1>1. shared.secret \in BOOLEAN
  BY DEF TypeOK, Settings
<1>2. (~shared.secret) \in BOOLEAN
  BY <1>1
<1>3. QED
  BY <1>2 DEF Item

LEMMA PinItem ==
    ASSUME TypeOK, NEW r \in rows
    PROVE  [kind |-> "pin", id |-> r.id, pin |-> ~r.pinned] \in Item
<1>1. r.id \in Nat /\ r.pinned \in BOOLEAN
  BY DEF TypeOK
<1>2. (~r.pinned) \in BOOLEAN
  BY <1>1
<1>3. QED
  BY <1>1, <1>2 DEF Item

\* Item by item, what a push leaves: the queue without its first k, then x.
PushedAt(x, k) ==
    /\ Len(queue') = Len(queue) - k + 1
    /\ \A i \in 1 .. Len(queue) - k : queue'[i] = queue[i + k]
    /\ queue'[Len(queue')] = x
    /\ LosesControl(k)

LEMMA PushShape ==
    ASSUME queue \in Seq(Item), NEW x \in Item, Push(x)
    PROVE  \E k \in 0 .. Len(queue) : PushedAt(x, k)
<1>1. PICK k \in 0 .. Len(queue) :
           queue' = Append(From(queue, k), x) /\ LosesControl(k)
  BY DEF Push
<1>2. /\ From(queue, k) \in Seq(Item)
      /\ Len(From(queue, k)) = Len(queue) - k
      /\ \A i \in 1 .. Len(queue) - k : From(queue, k)[i] = queue[i + k]
  BY DEF From
<1>3. PushedAt(x, k)
  BY <1>1, <1>2 DEF PushedAt
<1>4. QED
  BY <1>3

LEMMA TakenShape ==
    ASSUME TypeOK, NEW kind, First(kind), Took
    PROVE  /\ Len(queue) \in Nat \ {0} /\ queue[1].kind = kind
           /\ Head(queue) = queue[1] /\ queue[1] \in Item
           /\ Len(queue') = Len(queue) - 1
           /\ \A i \in 1 .. Len(queue') : queue'[i] = queue[i + 1]
BY DEF TypeOK, First, Took

-----------------------------------------------------------------------------
(* A request is alone: nothing is pushed after it.                          *)

LEMMA OnlyRequest ==
    ASSUME TypeOK, RequestInv, NEW kind \in RequestKinds, First(kind), Took
    PROVE  queue' = <<>> /\ ui = kind
<1>1. /\ Len(queue) \in Nat \ {0} /\ queue[1].kind = kind
      /\ Len(queue') = Len(queue) - 1
  BY TakenShape
<1>2. Len(queue) = 1 /\ ui = kind
  BY <1>1 DEF RequestInv
<1>3. queue' \in Seq(Item)
  BY TakenItem DEF TypeOK
<1>4. QED
  BY <1>1, <1>2, <1>3

LEMMA PushOther ==
    ASSUME TypeOK, RequestInv, NEW x \in Item, x.kind \notin RequestKinds,
           Push(x), ui = "free", UNCHANGED <<ui, reply>>
    PROVE  RequestInv'
<1>1. PICK k \in 0 .. Len(queue) : PushedAt(x, k)
  BY PushShape DEF TypeOK
<1>2. Len(queue) \in Nat
  BY DEF TypeOK
<1>3. \A i \in 1 .. Len(queue) : queue[i].kind \notin RequestKinds
  BY DEF RequestInv, RequestKinds
<1>4. ASSUME NEW i \in 1 .. Len(queue')
      PROVE  queue'[i].kind \notin RequestKinds
  <2>1. CASE i = Len(queue')
    BY <1>1, <2>1 DEF PushedAt
  <2>2. CASE i # Len(queue')
    <3>1. Len(queue') = Len(queue) - k + 1
      BY <1>1 DEF PushedAt
    <3>2. i \in 1 .. Len(queue) - k /\ i + k \in 1 .. Len(queue)
      BY <1>2, <2>2, <3>1
    <3>3. QED
      BY <1>1, <1>3, <3>2 DEF PushedAt
  <2>3. QED
    BY <2>1, <2>2
<1>5. QED
  BY <1>4 DEF RequestInv

LEMMA PushRequest ==
    ASSUME TypeOK, RequestInv, NEW x \in Item, x.kind \in RequestKinds,
           Push(x), ui = "free", ui' = x.kind, UNCHANGED reply
    PROVE  RequestInv'
<1>1. PICK k \in 0 .. Len(queue) : PushedAt(x, k)
  BY PushShape DEF TypeOK
<1>2. Len(queue) \in Nat
  BY DEF TypeOK
<1>3. \A i \in 1 .. Len(queue) : queue[i].kind \notin RequestKinds
  BY DEF RequestInv, RequestKinds
<1>4. \A i \in 1 .. Len(queue') :
          queue'[i].kind \in RequestKinds => i = Len(queue') /\ queue'[i] = x
  BY <1>1, <1>2, <1>3 DEF PushedAt
<1>5. reply = "none"
  BY DEF RequestInv, RequestKinds
<1>6. QED
  BY <1>4, <1>5 DEF RequestInv

LEMMA RequestInvStep == TypeOK /\ RequestInv /\ [Next]_vars => RequestInv'
<1> SUFFICES ASSUME TypeOK, RequestInv, [Next]_vars
             PROVE  RequestInv'
  OBVIOUS
<1> USE DEF screen, config, worker, store, window, counters, ghosts,
            RequestKinds, CaptureKinds
<1>1. ASSUME NEW c \in Content, ForeignCopy(c)
      PROVE  RequestInv'
  <2>1. UNCHANGED <<queue, ui, reply>>
    BY <1>1 DEF ForeignCopy
  <2>2. QED
    BY <2>1 DEF RequestInv
<1>2. ASSUME NEW t \in 0 .. MaxTime, SetClock(t)
      PROVE  RequestInv'
  <2>1. UNCHANGED <<queue, ui, reply>>
    BY <1>2 DEF SetClock
  <2>2. QED
    BY <2>1 DEF RequestInv
<1>3. CASE ProcessOne
  <2>1. UNCHANGED <<ui, reply>> /\ Took
    BY <1>3 DEF ProcessOne
  <2>2. First("capture") \/ First("recover")
    BY <1>3 DEF ProcessOne
  <2>3. QED
    BY <2>1, <2>2, TakenShape DEF RequestInv
<1>4. CASE PurgeOlderThan
  <2>1. UNCHANGED <<queue, ui, reply>>
    BY <1>4 DEF PurgeOlderThan
  <2>2. QED
    BY <2>1 DEF RequestInv
<1>5. CASE PurgeOverCount
  <2>1. UNCHANGED <<queue, ui, reply>>
    BY <1>5 DEF PurgeOverCount
  <2>2. QED
    BY <2>1 DEF RequestInv
<1>6. CASE ApplyLimits
  <2>1. UNCHANGED <<ui, reply>> /\ Took /\ First("limits")
    BY <1>6 DEF ApplyLimits
  <2>2. QED
    BY <2>1, TakenShape DEF RequestInv
<1>7. CASE ApplyFilter
  <2>1. UNCHANGED <<ui, reply>> /\ Took /\ First("filter")
    BY <1>7 DEF ApplyFilter
  <2>2. QED
    BY <2>1, TakenShape DEF RequestInv
<1>8. CASE SetPinned
  <2>1. First("pin") /\ Took /\ UNCHANGED ui
    BY <1>8 DEF SetPinned, Answer
  <2>2. queue' = <<>> /\ ui = "pin"
    BY <2>1, OnlyRequest
  <2>3. QED
    BY <2>1, <2>2 DEF RequestInv
<1>9. CASE DeleteOne
  <2>1. First("delete") /\ Took /\ UNCHANGED ui
    BY <1>9 DEF DeleteOne, Delete, Answer
  <2>2. queue' = <<>> /\ ui = "delete"
    BY <2>1, OnlyRequest
  <2>3. QED
    BY <2>1, <2>2 DEF RequestInv
<1>10. CASE DeleteAll
  <2>1. First("delete_all") /\ Took /\ UNCHANGED ui
    BY <1>10 DEF DeleteAll, Delete, Answer
  <2>2. queue' = <<>> /\ ui = "delete_all"
    BY <2>1, OnlyRequest
  <2>3. QED
    BY <2>1, <2>2 DEF RequestInv
<1>11. CASE RecoverOnClick
  <2>1. ui = "free" /\ UNCHANGED <<ui, reply>>
    BY <1>11 DEF RecoverOnClick
  <2>2. CASE UNCHANGED queue
    BY <2>1, <2>2 DEF RequestInv
  <2>3. CASE clipboard # Nothing /\ Push(CaptureItem("recover", clipboard))
    <3>1. /\ CaptureItem("recover", clipboard) \in Item
          /\ CaptureItem("recover", clipboard).kind \notin RequestKinds
      BY <2>3, CaptureItems DEF CaptureItem, CaptureKinds
    <3>2. QED
      BY <2>1, <2>3, <3>1, PushOther
  <2>4. QED
    BY <1>11, <2>2, <2>3 DEF RecoverOnClick
<1>12. CASE ChangeFilter
  <2> DEFINE x == [kind |-> "filter", secret |-> ~shared.secret]
  <2>1. x \in Item /\ x.kind \notin RequestKinds
    BY FilterItem
  <2>2. Push(x) /\ ui = "free" /\ UNCHANGED <<ui, reply>>
    BY <1>12 DEF ChangeFilter
  <2>3. QED
    BY <2>1, <2>2, PushOther
<1>13. ASSUME NEW l \in Limits, ChangeLimits(l)
      PROVE  RequestInv'
  <2> DEFINE x == [kind |-> "limits", at |-> now, limits |-> l]
  <2>1. x \in Item /\ x.kind \notin RequestKinds
    BY DEF Item, TypeOK, Settings
  <2>2. Push(x) /\ ui = "free" /\ UNCHANGED <<ui, reply>>
    BY <1>13 DEF ChangeLimits
  <2>3. QED
    BY <2>1, <2>2, PushOther
<1>14. CASE OpenWindow
  <2>1. UNCHANGED <<queue, ui, reply>>
    BY <1>14 DEF OpenWindow
  <2>2. QED
    BY <2>1 DEF RequestInv
<1>15. ASSUME NEW r \in rows, AskPin(r)
      PROVE  RequestInv'
  <2> DEFINE x == [kind |-> "pin", id |-> r.id, pin |-> ~r.pinned]
  <2>1. x \in Item /\ x.kind \in RequestKinds
    BY PinItem
  <2>2. Push(x) /\ ui = "free" /\ ui' = x.kind /\ UNCHANGED reply
    BY <1>15 DEF AskPin, Ask
  <2>3. QED
    BY <2>1, <2>2, PushRequest
<1>16. ASSUME NEW r \in rows, AskDelete(r)
      PROVE  RequestInv'
  <2> DEFINE x == [kind |-> "delete", id |-> r.id]
  <2>1. x \in Item /\ x.kind \in RequestKinds
    BY DEF Item, TypeOK
  <2>2. Push(x) /\ ui = "free" /\ ui' = x.kind /\ UNCHANGED reply
    BY <1>16 DEF AskDelete, Ask
  <2>3. QED
    BY <2>1, <2>2, PushRequest
<1>17. ASSUME NEW r \in rows, ChooseRow(r)
      PROVE  RequestInv'
  <2>1. /\ ui \notin RequestKinds /\ ui' \notin RequestKinds
        /\ UNCHANGED <<queue, reply>>
    BY <1>17 DEF ChooseRow
  <2>2. QED
    BY <2>1 DEF RequestInv
<1>18. ASSUME NEW keep \in BOOLEAN, AskDeleteAll(keep)
      PROVE  RequestInv'
  <2> DEFINE x == [kind |-> "delete_all", keep |-> keep]
  <2>1. x \in Item /\ x.kind \in RequestKinds
    BY DEF Item
  <2>2. Push(x) /\ ui = "free" /\ ui' = x.kind /\ UNCHANGED reply
    BY <1>18 DEF AskDeleteAll, Ask
  <2>3. QED
    BY <2>1, <2>2, PushRequest
<1>19. CASE Notified
  <2>1. ui = "free" /\ UNCHANGED <<ui, reply>>
    BY <1>19 DEF Notified
  <2>2. CASE UNCHANGED queue
    BY <2>1, <2>2 DEF RequestInv
  <2>3. CASE clipboard # Nothing /\ Push(CaptureItem("capture", clipboard))
    <3>1. /\ CaptureItem("capture", clipboard) \in Item
          /\ CaptureItem("capture", clipboard).kind \notin RequestKinds
      BY <2>3, CaptureItems DEF CaptureItem, CaptureKinds
    <3>2. QED
      BY <2>1, <2>3, <3>1, PushOther
  <2>4. QED
    BY <1>19, <2>2, <2>3 DEF Notified, CaptureAndEnqueue
<1>20. CASE PinAnswered
  <2>1. /\ reply # "none" /\ ui' = "free" /\ reply' = "none"
        /\ UNCHANGED queue
    BY <1>20 DEF PinAnswered, Answered
  <2>2. QED
    BY <2>1 DEF RequestInv
<1>21. CASE DeleteAnswered
  <2>1. /\ reply # "none" /\ ui' = "free" /\ reply' = "none"
        /\ UNCHANGED queue
    BY <1>21 DEF DeleteAnswered, Answered
  <2>2. QED
    BY <2>1 DEF RequestInv
<1>22. CASE DeleteAllAnswered
  <2>1. /\ reply # "none" /\ ui' = "free" /\ reply' = "none"
        /\ UNCHANGED queue
    BY <1>22 DEF DeleteAllAnswered, Answered
  <2>2. QED
    BY <2>1 DEF RequestInv
<1>23. CASE ReadFormats
  <2>1. /\ ui \notin RequestKinds /\ ui' \notin RequestKinds
        /\ UNCHANGED <<queue, reply>>
    BY <1>23 DEF ReadFormats
  <2>2. QED
    BY <2>1 DEF RequestInv
<1>24. CASE WriteClipboard
  <2>1. /\ ui \notin RequestKinds /\ ui' \notin RequestKinds
        /\ UNCHANGED <<queue, reply>>
    BY <1>24 DEF WriteClipboard
  <2>2. QED
    BY <2>1 DEF RequestInv
<1>25. CASE UNCHANGED vars
  BY <1>25 DEF vars, RequestInv
<1>26. QED
  BY <1>1, <1>2, <1>3, <1>4, <1>5, <1>6, <1>7, <1>8, <1>9, <1>10, <1>11,
     <1>12, <1>13, <1>14, <1>15, <1>16, <1>17, <1>18, <1>19, <1>20, <1>21,
     <1>22, <1>23, <1>24, <1>25
     DEF Next, Others, Worker, User, Handlers

-----------------------------------------------------------------------------
(* What was deleted stays deleted.                                          *)

LEMMA TakenGone ==
    ASSUME TypeOK, GoneInv, NEW kind, First(kind), Took
    PROVE  \A i \in 1 .. Len(queue') :
               queue'[i].kind \in CaptureKinds => queue'[i].content \notin gone
BY TakenShape DEF GoneInv

LEMMA PushGone ==
    ASSUME TypeOK, GoneInv, NEW x \in Item, Push(x), UNCHANGED clips,
           gone' \subseteq gone,
           x.kind \in CaptureKinds => x.content \notin gone'
    PROVE  GoneInv'
<1>1. PICK k \in 0 .. Len(queue) : PushedAt(x, k)
  BY PushShape DEF TypeOK
<1>2. Len(queue) \in Nat
  BY DEF TypeOK
<1>3. Len(queue') = Len(queue) - k + 1 /\ queue'[Len(queue')] = x
  BY <1>1 DEF PushedAt
<1>4. \A i \in 1 .. Len(queue') : i # Len(queue') =>
          i + k \in 1 .. Len(queue) /\ queue'[i] = queue[i + k]
  BY <1>1, <1>2, <1>3 DEF PushedAt
<1>5. DeletedStaysDeleted'
  BY DEF GoneInv, DeletedStaysDeleted, ContentsOf
<1>6. QED
  BY <1>3, <1>4, <1>5 DEF GoneInv

LEMMA DeletedIsGone ==
    ASSUME TypeOK, IdsInv, GoneInv, NEW doomed \in SUBSET clips,
           Delete(doomed), queue' = <<>>
    PROVE  GoneInv'
<1>1. \A k \in clips \ doomed : k.content \notin ContentsOf(doomed)
  BY DEF IdsInv, ContentsOf
<1>2. DeletedStaysDeleted'
  BY <1>1 DEF Delete, GoneInv, DeletedStaysDeleted, ContentsOf
<1>3. QED
  BY <1>2 DEF GoneInv

LEMMA GoneInvStep ==
    TypeOK /\ IdsInv /\ RequestInv /\ ClipboardInv /\ GoneInv /\ [Next]_vars
        => GoneInv'
<1> SUFFICES ASSUME TypeOK, IdsInv, RequestInv, ClipboardInv, GoneInv,
                    [Next]_vars
             PROVE  GoneInv'
  OBVIOUS
<1> USE DEF screen, config, worker, store, window, counters, ghosts,
            RequestKinds, CaptureKinds
<1>1. ASSUME NEW c \in Content, ForeignCopy(c)
      PROVE  GoneInv'
  <2>1. UNCHANGED <<clips, queue>> /\ gone' \subseteq gone
    BY <1>1 DEF ForeignCopy
  <2>2. QED
    BY <2>1 DEF GoneInv, DeletedStaysDeleted, ContentsOf
<1>2. ASSUME NEW t \in 0 .. MaxTime, SetClock(t)
      PROVE  GoneInv'
  <2>1. UNCHANGED <<clips, queue, gone>>
    BY <1>2 DEF SetClock
  <2>2. QED
    BY <2>1 DEF GoneInv, DeletedStaysDeleted, ContentsOf
<1>3. CASE ProcessOne
  <2> DEFINE x == Head(queue)
  <2>1. PICK kind \in CaptureKinds : First(kind)
    BY <1>3 DEF ProcessOne, CaptureKinds
  <2>2. Took /\ UNCHANGED gone
    BY <1>3 DEF ProcessOne
  <2>3. x.content \notin gone
    BY <2>1, <2>2, TakenShape DEF GoneInv
  <2>4. \A k \in clips' : k.content = x.content \/ \E l \in clips : k.content = l.content
    <3>1. CASE UNCHANGED clips
      BY <3>1
    <3>2. CASE Upsert(x.content, x.at)
      BY <3>2 DEF Upsert, TypeOK, Clip
    <3>3. QED
      BY <1>3, <3>1, <3>2 DEF ProcessOne
  <2>5. DeletedStaysDeleted'
    BY <2>2, <2>3, <2>4 DEF GoneInv, DeletedStaysDeleted, ContentsOf
  <2>6. QED
    BY <2>1, <2>2, <2>5, TakenGone DEF GoneInv
<1>4. CASE PurgeOlderThan
  <2>1. clips' \subseteq clips /\ UNCHANGED <<queue, gone>>
    BY <1>4 DEF PurgeOlderThan
  <2>2. QED
    BY <2>1 DEF GoneInv, DeletedStaysDeleted, ContentsOf
<1>5. CASE PurgeOverCount
  <2>1. clips' \subseteq clips /\ UNCHANGED <<queue, gone>>
    BY <1>5 DEF PurgeOverCount
  <2>2. QED
    BY <2>1 DEF GoneInv, DeletedStaysDeleted, ContentsOf
<1>6. CASE ApplyLimits
  <2>1. UNCHANGED <<clips, gone>> /\ Took /\ First("limits")
    BY <1>6 DEF ApplyLimits
  <2>2. QED
    BY <2>1, TakenGone DEF GoneInv, DeletedStaysDeleted, ContentsOf
<1>7. CASE ApplyFilter
  <2>1. UNCHANGED <<clips, gone>> /\ Took /\ First("filter")
    BY <1>7 DEF ApplyFilter
  <2>2. QED
    BY <2>1, TakenGone DEF GoneInv, DeletedStaysDeleted, ContentsOf
<1>8. CASE SetPinned
  <2> DEFINE hit == ById(Head(queue).id)
  <2>1. Took /\ First("pin") /\ UNCHANGED gone
    BY <1>8 DEF SetPinned
  <2>2. \A k \in clips' : \E l \in clips : k.content = l.content
    <3>1. CASE UNCHANGED clips
      BY <3>1
    <3>2. CASE clips' = (clips \ hit)
                        \cup {[k EXCEPT !.pinned = Head(queue).pin] : k \in hit}
      BY <3>2 DEF TypeOK, Clip, ById
    <3>3. QED
      BY <1>8, <3>1, <3>2 DEF SetPinned
  <2>3. DeletedStaysDeleted'
    BY <2>1, <2>2 DEF GoneInv, DeletedStaysDeleted, ContentsOf
  <2>4. QED
    BY <2>1, <2>3, TakenGone DEF GoneInv
<1>9. CASE DeleteOne
  <2>1. First("delete") /\ Took
    BY <1>9 DEF DeleteOne
  <2>2. queue' = <<>>
    BY <2>1, OnlyRequest
  <2>3. PICK doomed \in SUBSET clips : Delete(doomed)
    BY <1>9 DEF DeleteOne, ById
  <2>4. QED
    BY <2>2, <2>3, DeletedIsGone
<1>10. CASE DeleteAll
  <2>1. First("delete_all") /\ Took
    BY <1>10 DEF DeleteAll
  <2>2. queue' = <<>>
    BY <2>1, OnlyRequest
  <2>3. PICK doomed \in SUBSET clips : Delete(doomed)
    BY <1>10 DEF DeleteAll, Unpinned
  <2>4. QED
    BY <2>2, <2>3, DeletedIsGone
<1>11. CASE RecoverOnClick
  <2>1. UNCHANGED clips
    BY <1>11 DEF RecoverOnClick
  <2>2. CASE UNCHANGED <<queue, gone>>
    BY <2>1, <2>2 DEF GoneInv, DeletedStaysDeleted, ContentsOf
  <2>3. CASE /\ clipboard # Nothing
             /\ Push(CaptureItem("recover", clipboard))
             /\ gone' = gone \ {clipboard}
    <3>1. /\ CaptureItem("recover", clipboard) \in Item
          /\ CaptureItem("recover", clipboard).content = clipboard
      BY <2>3, CaptureItems DEF CaptureItem, CaptureKinds
    <3>2. QED
      BY <2>1, <2>3, <3>1, PushGone
  <2>4. QED
    BY <1>11, <2>2, <2>3 DEF RecoverOnClick
<1>12. CASE ChangeFilter
  <2> DEFINE x == [kind |-> "filter", secret |-> ~shared.secret]
  <2>1. Push(x) /\ UNCHANGED <<clips, gone>>
    BY <1>12 DEF ChangeFilter
  <2>2. QED
    BY <2>1, FilterItem, PushGone
<1>13. ASSUME NEW l \in Limits, ChangeLimits(l)
      PROVE  GoneInv'
  <2> DEFINE x == [kind |-> "limits", at |-> now, limits |-> l]
  <2>1. Push(x) /\ UNCHANGED <<clips, gone>>
    BY <1>13 DEF ChangeLimits
  <2>2. x \in Item /\ x.kind \notin CaptureKinds
    BY DEF TypeOK, Item
  <2>3. QED
    BY <2>1, <2>2, PushGone
<1>14. CASE OpenWindow
  <2>1. UNCHANGED <<clips, queue, gone>>
    BY <1>14 DEF OpenWindow
  <2>2. QED
    BY <2>1 DEF GoneInv, DeletedStaysDeleted, ContentsOf
<1>15. ASSUME NEW r \in rows, AskPin(r)
      PROVE  GoneInv'
  <2> DEFINE x == [kind |-> "pin", id |-> r.id, pin |-> ~r.pinned]
  <2>1. Push(x) /\ UNCHANGED <<clips, gone>>
    BY <1>15 DEF AskPin, Ask
  <2>2. x \in Item /\ x.kind \notin CaptureKinds
    BY PinItem
  <2>3. QED
    BY <2>1, <2>2, PushGone
<1>16. ASSUME NEW r \in rows, AskDelete(r)
      PROVE  GoneInv'
  <2> DEFINE x == [kind |-> "delete", id |-> r.id]
  <2>1. Push(x) /\ UNCHANGED <<clips, gone>>
    BY <1>16 DEF AskDelete, Ask
  <2>2. x \in Item /\ x.kind \notin CaptureKinds
    BY DEF TypeOK, Item
  <2>3. QED
    BY <2>1, <2>2, PushGone
<1>17. ASSUME NEW r \in rows, ChooseRow(r)
      PROVE  GoneInv'
  <2>1. UNCHANGED <<clips, queue, gone>>
    BY <1>17 DEF ChooseRow
  <2>2. QED
    BY <2>1 DEF GoneInv, DeletedStaysDeleted, ContentsOf
<1>18. ASSUME NEW keep \in BOOLEAN, AskDeleteAll(keep)
      PROVE  GoneInv'
  <2> DEFINE x == [kind |-> "delete_all", keep |-> keep]
  <2>1. Push(x) /\ UNCHANGED <<clips, gone>>
    BY <1>18 DEF AskDeleteAll, Ask
  <2>2. x \in Item /\ x.kind \notin CaptureKinds
    BY DEF Item
  <2>3. QED
    BY <2>1, <2>2, PushGone
<1>19. CASE Notified
  <2>1. UNCHANGED <<clips, gone>> /\ clipboard \notin gone
    BY <1>19 DEF Notified, ClipboardInv, TypeOK
  <2>2. CASE UNCHANGED queue
    BY <2>1, <2>2 DEF GoneInv, DeletedStaysDeleted, ContentsOf
  <2>3. CASE /\ clipboard # Nothing
             /\ Push(CaptureItem("capture", clipboard))
    <3>1. /\ CaptureItem("capture", clipboard) \in Item
          /\ CaptureItem("capture", clipboard).content = clipboard
      BY <2>3, CaptureItems DEF CaptureItem, CaptureKinds
    <3>2. QED
      BY <2>1, <2>3, <3>1, PushGone
  <2>4. QED
    BY <1>19, <2>2, <2>3 DEF Notified, CaptureAndEnqueue
<1>20. CASE PinAnswered
  <2>1. UNCHANGED <<clips, queue, gone>>
    BY <1>20 DEF PinAnswered, Answered
  <2>2. QED
    BY <2>1 DEF GoneInv, DeletedStaysDeleted, ContentsOf
<1>21. CASE DeleteAnswered
  <2>1. UNCHANGED <<clips, queue, gone>>
    BY <1>21 DEF DeleteAnswered, Answered
  <2>2. QED
    BY <2>1 DEF GoneInv, DeletedStaysDeleted, ContentsOf
<1>22. CASE DeleteAllAnswered
  <2>1. UNCHANGED <<clips, queue, gone>>
    BY <1>22 DEF DeleteAllAnswered, Answered
  <2>2. QED
    BY <2>1 DEF GoneInv, DeletedStaysDeleted, ContentsOf
<1>23. CASE ReadFormats
  <2>1. UNCHANGED <<clips, queue, gone>>
    BY <1>23 DEF ReadFormats
  <2>2. QED
    BY <2>1 DEF GoneInv, DeletedStaysDeleted, ContentsOf
<1>24. CASE WriteClipboard
  <2>1. UNCHANGED <<clips, queue, gone>>
    BY <1>24 DEF WriteClipboard
  <2>2. QED
    BY <2>1 DEF GoneInv, DeletedStaysDeleted, ContentsOf
<1>25. CASE UNCHANGED vars
  BY <1>25 DEF vars, GoneInv, DeletedStaysDeleted, ContentsOf
<1>26. QED
  BY <1>1, <1>2, <1>3, <1>4, <1>5, <1>6, <1>7, <1>8, <1>9, <1>10, <1>11,
     <1>12, <1>13, <1>14, <1>15, <1>16, <1>17, <1>18, <1>19, <1>20, <1>21,
     <1>22, <1>23, <1>24, <1>25
     DEF Next, Others, Worker, User, Handlers

\* A content leaves the list of the deleted when it is copied, and what is
\* pasted is still stored.
LEMMA ClipboardInvStep ==
    TypeOK /\ RequestInv /\ GoneInv /\ ClipboardInv /\ [Next]_vars
        => ClipboardInv'
<1> SUFFICES ASSUME TypeOK, RequestInv, GoneInv, ClipboardInv, [Next]_vars
             PROVE  ClipboardInv'
  OBVIOUS
<1> USE DEF ClipboardInv, screen, window, counters, ghosts, RequestKinds
<1>1. ASSUME NEW c \in Content, ForeignCopy(c)
      PROVE  ClipboardInv'
  BY <1>1 DEF ForeignCopy
<1>2. ASSUME NEW t \in 0 .. MaxTime, SetClock(t)
      PROVE  ClipboardInv'
  BY <1>2 DEF SetClock
<1>3. CASE ProcessOne \/ PurgeOlderThan \/ PurgeOverCount \/ ApplyLimits
           \/ ApplyFilter
  BY <1>3 DEF ProcessOne, PurgeOlderThan, PurgeOverCount, ApplyLimits,
              ApplyFilter
<1>4. CASE SetPinned
  BY <1>4 DEF SetPinned, Answer
<1>5. ASSUME NEW kind \in {"delete", "delete_all"}, First(kind), Took,
             NEW doomed, Delete(doomed), UNCHANGED screen
      PROVE  ClipboardInv'
  <2>1. ui = kind /\ ui' = ui
    BY <1>5, OnlyRequest DEF Delete, Answer
  <2>2. gone' \subseteq gone \cup (ContentsOf(doomed) \ MayComeAgain)
    BY <1>5 DEF Delete
  <2>3. QED
    BY <1>5, <2>1, <2>2 DEF MayComeAgain, TypeOK
<1>6. CASE DeleteOne
  BY <1>5, <1>6 DEF DeleteOne
<1>7. CASE DeleteAll
  BY <1>5, <1>7 DEF DeleteAll
<1>8. CASE RecoverOnClick
  BY <1>8 DEF RecoverOnClick
<1>9. CASE ChangeFilter \/ OpenWindow
  BY <1>9 DEF ChangeFilter, OpenWindow
<1>10. ASSUME NEW l \in Limits, ChangeLimits(l)
       PROVE  ClipboardInv'
  BY <1>10 DEF ChangeLimits
<1>11. ASSUME NEW r \in rows, AskPin(r) \/ AskDelete(r) \/ ChooseRow(r)
       PROVE  ClipboardInv'
  BY <1>11 DEF AskPin, AskDelete, ChooseRow, Ask
<1>12. ASSUME NEW keep \in BOOLEAN, AskDeleteAll(keep)
       PROVE  ClipboardInv'
  BY <1>12 DEF AskDeleteAll, Ask
<1>13. CASE Notified
  BY <1>13 DEF Notified, TypeOK
<1>14. CASE PinAnswered \/ DeleteAnswered \/ DeleteAllAnswered
  BY <1>14 DEF PinAnswered, DeleteAnswered, DeleteAllAnswered, Answered
<1>15. CASE ReadFormats
  <2>1. copied' \notin gone
    <3>1. CASE ById(asked.id) = {}
      BY <1>15, <3>1, HistoryAssumption DEF ReadFormats, TypeOK
    <3>2. CASE ById(asked.id) # {}
      <4>1. \E c \in ContentsOf(ById(asked.id)) : TRUE
        BY <3>2 DEF ContentsOf
      <4>2. copied' \in ContentsOf(ById(asked.id))
        BY <1>15, <3>2, <4>1 DEF ReadFormats
      <4>3. QED
        BY <4>2 DEF ContentsOf, ById, GoneInv, DeletedStaysDeleted
    <3>3. QED
      BY <3>1, <3>2
  <2>2. QED
    BY <1>15, <2>1 DEF ReadFormats
<1>16. CASE WriteClipboard
  <2>1. Nothing \notin gone
    BY HistoryAssumption DEF TypeOK
  <2>2. QED
    BY <1>16, <2>1 DEF WriteClipboard
<1>17. CASE UNCHANGED vars
  BY <1>17 DEF vars
<1>18. QED
  BY <1>1, <1>2, <1>3, <1>4, <1>6, <1>7, <1>8, <1>9, <1>10, <1>11, <1>12,
     <1>13, <1>14, <1>15, <1>16, <1>17
     DEF Next, Others, Worker, User, Handlers

LEMMA InitInvs == Init => IdsInv /\ RequestInv /\ GoneInv /\ ClipboardInv
<1> SUFFICES ASSUME Init
             PROVE  IdsInv /\ RequestInv /\ GoneInv /\ ClipboardInv
  OBVIOUS
<1>1. queue = <<>> /\ Len(queue) = 0
  BY DEF Init
<1>2. QED
  BY <1>1 DEF Init, IdsInv, RowsNeverMislead, NoRow, RequestInv, GoneInv,
              ClipboardInv, DeletedStaysDeleted, ContentsOf

\* What the user was told is deleted comes back only when it is copied again or
\* recovered, unless a notification of its copy was still to come when it was
\* deleted: neither the queue, nor a paste, nor any other notification brings
\* it back.
THEOREM DeletionsHold == Spec => []DeletedStaysDeleted
<1>1. GoneInv => DeletedStaysDeleted
  BY DEF GoneInv
<1>2. QED
  BY <1>1, InitInvs, IdsInvStep, RequestInvStep, GoneInvStep,
     ClipboardInvStep, TypeCorrect, PTL DEF Spec

-----------------------------------------------------------------------------
(* Secrets stay out.                                                        *)

LEMMA SecretFrame ==
    SecretInv /\ UNCHANGED <<queue, own, shared, leaked, lostControl>>
        => SecretInv'
BY DEF SecretInv, DetectsAt, NoFilter

\* Taking the first item, a change of the detection or not, moves every place
\* one forward.
LEMMA TakenDetects ==
    ASSUME TypeOK, NEW kind, First(kind), Took,
           own'.secret = IF kind = "filter" THEN queue[1].secret
                         ELSE own.secret,
           NEW i \in 1 .. Len(queue), DetectsAt(i + 1)
    PROVE  DetectsAt(i)'
<1>1. /\ Len(queue) \in Nat \ {0} /\ queue[1].kind = kind
      /\ Len(queue') = Len(queue) - 1
      /\ \A j \in 1 .. Len(queue) - 1 : queue'[j] = queue[j + 1]
  BY TakenShape
<1>2. ASSUME NEW j \in 1 .. i, NoFilter(j, i - 1)'
      PROVE  NoFilter(j + 1, i)
  <2>1. \A m \in j .. i - 1 : queue[m + 1].kind # "filter"
    BY <1>1, <1>2 DEF NoFilter
  <2>2. \A m \in j + 1 .. i : m - 1 \in j .. i - 1 /\ (m - 1) + 1 = m
    OBVIOUS
  <2>3. QED
    BY <2>1, <2>2 DEF NoFilter
<1>3. ASSUME NoFilter(1, i - 1)'
      PROVE  own'.secret
  <2>1. NoFilter(2, i)
    BY <1>2, <1>3
  <2>2. CASE kind = "filter"
    <3>1. queue[1].secret
      BY <1>1, <2>1, <2>2 DEF DetectsAt
    <3>2. QED
      BY <2>2, <3>1
  <2>3. CASE kind # "filter"
    <3>1. NoFilter(1, i)
      BY <1>1, <2>1, <2>3 DEF NoFilter
    <3>2. own.secret
      BY <3>1 DEF DetectsAt
    <3>3. QED
      BY <2>3, <3>2
  <2>4. QED
    BY <2>2, <2>3
<1>4. ASSUME NEW j \in 1 .. i - 1, queue'[j].kind = "filter",
             NoFilter(j + 1, i - 1)'
      PROVE  queue'[j].secret
  <2>1. NoFilter(j + 2, i)
    BY <1>2, <1>4
  <2>2. queue[j + 1].kind = "filter" /\ queue'[j] = queue[j + 1]
    BY <1>1, <1>4
  <2>3. queue[j + 1].secret
    BY <2>1, <2>2 DEF DetectsAt
  <2>4. QED
    BY <2>2, <2>3
<1>5. QED
  BY <1>3, <1>4 DEF DetectsAt

LEMMA TakenSecrets ==
    ASSUME TypeOK, SecretInv, NEW kind, First(kind), Took,
           UNCHANGED <<shared, lostControl>>,
           ~lostControl => leaked' = {},
           own'.secret = IF kind = "filter" THEN queue[1].secret
                         ELSE own.secret
    PROVE  SecretInv'
<1> SUFFICES ASSUME ~lostControl
             PROVE  /\ shared.secret => DetectsAt(Len(queue) + 1)'
                    /\ \A i \in 1 .. Len(queue') :
                          queue'[i].kind = "capture" /\ queue'[i].screened
                              => DetectsAt(i)'
  BY DEF SecretInv
<1>1. PICK n \in Nat \ {0} : n = Len(queue)
  BY TakenShape
<1>2. /\ Len(queue') + 1 = n /\ Len(queue') \in Nat
      /\ \A j \in 1 .. n - 1 : queue'[j] = queue[j + 1]
  BY <1>1, TakenShape
<1>3. ASSUME NEW i \in 1 .. n, DetectsAt(i + 1)
      PROVE  DetectsAt(i)'
  BY <1>1, <1>3, TakenDetects
<1>4. ASSUME shared.secret
      PROVE  DetectsAt(Len(queue) + 1)'
  <2>1. DetectsAt(n + 1)
    BY <1>1, <1>4 DEF SecretInv
  <2>2. DetectsAt(n)'
    BY <1>3, <2>1
  <2>3. QED
    BY <1>2, <2>2
<1>5. ASSUME NEW i \in 1 .. Len(queue'),
             queue'[i].kind = "capture", queue'[i].screened
      PROVE  DetectsAt(i)'
  <2>1. i \in 1 .. n - 1 /\ i + 1 \in 1 .. n
    BY <1>2
  <2>2. DetectsAt(i + 1)
    BY <1>1, <1>2, <1>5, <2>1 DEF SecretInv
  <2>3. QED
    BY <1>3, <2>1, <2>2
<1>6. QED
  BY <1>4, <1>5

\* A push that evicts no change of settings moves every place k forward.
LEMMA PushDetects ==
    ASSUME TypeOK, NEW x, NEW k \in 0 .. Len(queue), PushedAt(x, k),
           ~lostControl', UNCHANGED own,
           NEW i \in 1 .. Len(queue) - k + 1, DetectsAt(i + k)
    PROVE  DetectsAt(i)'
<1>1. /\ Len(queue) \in Nat
      /\ \A j \in 1 .. Len(queue) - k : queue'[j] = queue[j + k]
  BY DEF TypeOK, PushedAt
<1>2. \A m \in 1 .. k : queue[m].kind # "filter"
  BY DEF PushedAt, LosesControl, SettingKinds
<1>3. ASSUME NEW j \in 1 .. i, NoFilter(j, i - 1)'
      PROVE  NoFilter(j + k, i + k - 1)
  <2>0. \A m \in j .. i - 1 : m \in 1 .. Len(queue) - k
    BY <1>1
  <2>1. \A m \in j .. i - 1 : queue[m + k].kind # "filter"
    BY <1>1, <1>3, <2>0 DEF NoFilter
  <2>2. \A m \in j + k .. i + k - 1 :
            m - k \in j .. i - 1 /\ (m - k) + k = m
    BY <1>1
  <2>3. QED
    BY <2>1, <2>2 DEF NoFilter
<1>4. ASSUME NoFilter(1, i - 1)'
      PROVE  own.secret
  <2>1. NoFilter(1 + k, i + k - 1)
    BY <1>3, <1>4
  <2>2. NoFilter(1, i + k - 1)
    BY <1>1, <1>2, <2>1 DEF NoFilter
  <2>3. QED
    BY <2>2 DEF DetectsAt
<1>5. ASSUME NEW j \in 1 .. i - 1, queue'[j].kind = "filter",
             NoFilter(j + 1, i - 1)'
      PROVE  queue'[j].secret
  <2>1. NoFilter(j + 1 + k, i + k - 1)
    BY <1>3, <1>5
  <2>2. j + k \in 1 .. i + k - 1 /\ (j + k) + 1 = j + 1 + k
    BY <1>1
  <2>3. queue[j + k].kind = "filter" /\ queue'[j] = queue[j + k]
    BY <1>1, <1>5
  <2>4. queue[j + k].secret
    BY <2>1, <2>2, <2>3 DEF DetectsAt
  <2>5. QED
    BY <2>3, <2>4
<1>6. QED
  BY <1>4, <1>5 DEF DetectsAt

\* The items in place before a push keep what SecretInv says of them.
LEMMA PushKeeps ==
    ASSUME TypeOK, SecretInv, NEW x, NEW k \in 0 .. Len(queue),
           PushedAt(x, k), ~lostControl', UNCHANGED <<own, leaked>>
    PROVE  /\ leaked' = {}
           /\ shared.secret => DetectsAt(Len(queue))'
           /\ \A i \in 1 .. Len(queue') - 1 :
                 queue'[i].kind = "capture" /\ queue'[i].screened
                     => DetectsAt(i)'
<1>1. ~lostControl
  BY DEF PushedAt, LosesControl
<1>0. Len(queue) - k + 1 \in Nat \ {0}
  BY DEF TypeOK
<1>2. PICK n \in Nat \ {0} : n = Len(queue) - k + 1
  BY <1>0
<1>3. /\ Len(queue) \in Nat /\ Len(queue') = n
      /\ \A i \in 1 .. n - 1 : queue'[i] = queue[i + k]
  BY <1>2 DEF TypeOK, PushedAt
<1>4. ASSUME NEW i \in 1 .. n, DetectsAt(i + k)
      PROVE  DetectsAt(i)'
  BY <1>2, <1>4, PushDetects
<1>5. ASSUME shared.secret
      PROVE  DetectsAt(Len(queue))'
  <2>1. DetectsAt(Len(queue) + 1) /\ Len(queue) + 1 = n + k
    BY <1>1, <1>2, <1>3, <1>5 DEF SecretInv
  <2>2. DetectsAt(n)'
    BY <1>4, <2>1
  <2>3. QED
    BY <1>3, <2>2
<1>6. ASSUME NEW i \in 1 .. Len(queue') - 1,
             queue'[i].kind = "capture", queue'[i].screened
      PROVE  DetectsAt(i)'
  <2>1. i \in 1 .. n - 1 /\ i + k \in 1 .. Len(queue)
    BY <1>2, <1>3
  <2>2. DetectsAt(i + k)
    BY <1>1, <1>3, <1>6, <2>1 DEF SecretInv
  <2>3. QED
    BY <1>4, <2>1, <2>2
<1>7. QED
  BY <1>1, <1>5, <1>6 DEF SecretInv

LEMMA PushSecrets ==
    ASSUME TypeOK, SecretInv, NEW x \in Item, x.kind # "filter", Push(x),
           UNCHANGED <<own, leaked>>, shared'.secret = shared.secret,
           x.kind = "capture" => x.screened = shared.secret
    PROVE  SecretInv'
<1> SUFFICES ASSUME ~lostControl'
             PROVE  /\ leaked' = {}
                    /\ shared'.secret => DetectsAt(Len(queue) + 1)'
                    /\ \A i \in 1 .. Len(queue') :
                          queue'[i].kind = "capture" /\ queue'[i].screened
                              => DetectsAt(i)'
  BY DEF SecretInv
<1>1. PICK k \in 0 .. Len(queue) : PushedAt(x, k)
  BY PushShape DEF TypeOK
<1>2. /\ leaked' = {}
      /\ shared.secret => DetectsAt(Len(queue))'
      /\ \A i \in 1 .. Len(queue') - 1 :
            queue'[i].kind = "capture" /\ queue'[i].screened => DetectsAt(i)'
  BY <1>1, PushKeeps
<1>0. /\ Len(queue) \in Nat
      /\ Len(queue') = Len(queue) - k + 1
  BY <1>1 DEF PushedAt, TypeOK
<1>3. PICK n \in Nat \ {0} : n = Len(queue')
  BY <1>0
<1>4. queue'[n] = x
  BY <1>1, <1>3 DEF PushedAt
<1>5. ASSUME shared.secret
      PROVE  DetectsAt(n + 1)'
  <2>1. queue'[n].kind # "filter"
    BY <1>4
  <2>2. ASSUME NEW j \in 1 .. n, NoFilter(j, n)'
        PROVE  NoFilter(j, n - 1)'
    BY <2>2 DEF NoFilter
  <2>3. DetectsAt(n)'
    BY <1>2, <1>3, <1>5
  <2>4. ASSUME NoFilter(1, n)'
        PROVE  own'.secret
    BY <2>2, <2>3, <2>4 DEF DetectsAt
  <2>5. ASSUME NEW j \in 1 .. n, queue'[j].kind = "filter",
               NoFilter(j + 1, n)'
        PROVE  queue'[j].secret
    <3>1. j \in 1 .. n - 1 /\ j + 1 \in 1 .. n
      BY <2>1, <2>5
    <3>2. NoFilter(j + 1, n - 1)'
      BY <2>2, <2>5, <3>1
    <3>3. QED
      BY <2>3, <2>5, <3>1, <3>2 DEF DetectsAt
  <2>6. QED
    BY <2>4, <2>5 DEF DetectsAt
<1>6. ASSUME shared'.secret
      PROVE  DetectsAt(Len(queue) + 1)'
  BY <1>3, <1>5, <1>6
<1>7. ASSUME NEW i \in 1 .. Len(queue'),
             queue'[i].kind = "capture", queue'[i].screened
      PROVE  DetectsAt(i)'
  <2>1. CASE i = n
    <3>1. shared.secret
      BY <1>4, <1>7, <2>1
    <3>2. DetectsAt(n)'
      BY <1>2, <1>3, <3>1
    <3>3. QED
      BY <2>1, <3>2
  <2>2. CASE i # n
    BY <1>2, <1>3, <1>7, <2>2
  <2>3. QED
    BY <2>1, <2>2
<1>8. QED
  BY <1>2, <1>6, <1>7

LEMMA PushFilter ==
    ASSUME TypeOK, SecretInv, NEW b,
           [kind |-> "filter", secret |-> b] \in Item,
           Push([kind |-> "filter", secret |-> b]),
           UNCHANGED <<own, leaked>>, shared'.secret = b
    PROVE  SecretInv'
<1> DEFINE x == [kind |-> "filter", secret |-> b]
<1> SUFFICES ASSUME ~lostControl'
             PROVE  /\ leaked' = {}
                    /\ b => DetectsAt(Len(queue) + 1)'
                    /\ \A i \in 1 .. Len(queue') :
                          queue'[i].kind = "capture" /\ queue'[i].screened
                              => DetectsAt(i)'
  BY DEF SecretInv
<1>1. PICK k \in 0 .. Len(queue) : PushedAt(x, k)
  BY PushShape DEF TypeOK
<1>2. /\ leaked' = {}
      /\ \A i \in 1 .. Len(queue') - 1 :
            queue'[i].kind = "capture" /\ queue'[i].screened => DetectsAt(i)'
  BY <1>1, PushKeeps
<1>0. /\ Len(queue) \in Nat
      /\ Len(queue') = Len(queue) - k + 1
  BY <1>1 DEF PushedAt, TypeOK
<1>3. PICK n \in Nat \ {0} : n = Len(queue')
  BY <1>0
<1>4. queue'[n].kind = "filter" /\ queue'[n].secret = b
  BY <1>1, <1>3 DEF PushedAt
<1>5. ASSUME b
      PROVE  DetectsAt(n + 1)'
  <2>1. \A j \in 1 .. n : ~NoFilter(j, n)'
    BY <1>4 DEF NoFilter
  <2>2. ~NoFilter(1, n)'
    BY <2>1
  <2>3. \A j \in 1 .. n : NoFilter(j + 1, n)' => j = n
    BY <2>1
  <2>4. queue'[n].secret
    BY <1>4, <1>5
  <2>5. /\ NoFilter(1, (n + 1) - 1)' => own'.secret
        /\ \A j \in 1 .. (n + 1) - 1 :
              queue'[j].kind = "filter" /\ NoFilter(j + 1, (n + 1) - 1)'
                  => queue'[j].secret
    BY <2>2, <2>3, <2>4
  <2>6. QED
    BY <2>5 DEF DetectsAt
<1>6. ASSUME b
      PROVE  DetectsAt(Len(queue) + 1)'
  BY <1>3, <1>5, <1>6
<1>7. ASSUME NEW i \in 1 .. Len(queue'),
             queue'[i].kind = "capture", queue'[i].screened
      PROVE  DetectsAt(i)'
  BY <1>2, <1>3, <1>4, <1>7
<1>8. QED
  BY <1>2, <1>6, <1>7

\* A secret captured under the detection is rejected by the worker.
LEMMA NoLeak ==
    ASSUME TypeOK, SecretInv, NEW kind \in CaptureKinds, First(kind),
           ProcessOne, ~lostControl
    PROVE  leaked' = {}
<1> DEFINE x == Head(queue)
<1>1. x.kind = kind /\ x = queue[1] /\ Len(queue) \in Nat \ {0}
  BY TakenShape DEF ProcessOne
<1>2. leaked = {}
  BY DEF SecretInv
<1>3. CASE x.kind = "capture" /\ x.screened /\ x.content \in Secret
  <2>1. DetectsAt(1)
    BY <1>1, <1>3 DEF SecretInv
  <2>2. own.secret
    BY <2>1 DEF DetectsAt, NoFilter
  <2>3. Rejected(x)
    BY <1>3, <2>2 DEF Rejected
  <2>4. QED
    BY <1>2, <2>3 DEF ProcessOne
<1>4. CASE ~(x.kind = "capture" /\ x.screened /\ x.content \in Secret)
  BY <1>2, <1>4 DEF ProcessOne
<1>5. QED
  BY <1>3, <1>4

LEMMA SecretInvInit == Init => SecretInv
<1> SUFFICES ASSUME Init
             PROVE  SecretInv
  OBVIOUS
<1>1. queue = <<>> /\ Len(queue) = 0 /\ shared = own /\ leaked = {}
  BY DEF Init
<1>2. QED
  BY <1>1 DEF SecretInv, DetectsAt, NoFilter

LEMMA SecretInvStep == TypeOK /\ SecretInv /\ [Next]_vars => SecretInv'
<1> SUFFICES ASSUME TypeOK, SecretInv, [Next]_vars
             PROVE  SecretInv'
  OBVIOUS
<1> USE DEF screen, config, worker, store, window, counters, ghosts,
            CaptureKinds
<1>1. ASSUME NEW c \in Content, ForeignCopy(c)
      PROVE  SecretInv'
  <2>1. UNCHANGED <<queue, own, shared, leaked, lostControl>>
    BY <1>1 DEF ForeignCopy
  <2>2. QED
    BY <2>1, SecretFrame
<1>2. ASSUME NEW t \in 0 .. MaxTime, SetClock(t)
      PROVE  SecretInv'
  <2>1. UNCHANGED <<queue, own, shared, leaked, lostControl>>
    BY <1>2 DEF SetClock
  <2>2. QED
    BY <2>1, SecretFrame
<1>3. CASE ProcessOne
  <2> DEFINE x == Head(queue)
  <2>1. PICK kind \in CaptureKinds : First(kind)
    BY <1>3 DEF ProcessOne, CaptureKinds
  <2>2. Took /\ UNCHANGED <<own, shared, lostControl>>
    BY <1>3 DEF ProcessOne
  <2>3. ~lostControl => leaked' = {}
    BY <1>3, <2>1, <2>2, NoLeak
  <2>4. QED
    BY <2>1, <2>2, <2>3, TakenSecrets
<1>4. CASE PurgeOlderThan
  <2>1. UNCHANGED <<queue, own, shared, leaked, lostControl>>
    BY <1>4 DEF PurgeOlderThan
  <2>2. QED
    BY <2>1, SecretFrame
<1>5. CASE PurgeOverCount
  <2>1. UNCHANGED <<queue, own, shared, leaked, lostControl>>
    BY <1>5 DEF PurgeOverCount
  <2>2. QED
    BY <2>1, SecretFrame
<1>6. CASE ApplyLimits
  <2>1. First("limits") /\ Took /\ UNCHANGED <<shared, leaked, lostControl>>
    BY <1>6 DEF ApplyLimits
  <2>2. own'.secret = own.secret
    BY <1>6 DEF ApplyLimits, TypeOK, Settings
  <2>3. ~lostControl => leaked' = {}
    BY <2>1 DEF SecretInv
  <2>4. QED
    BY <2>1, <2>2, <2>3, TakenShape, TakenSecrets
<1>7. CASE ApplyFilter
  <2>1. First("filter") /\ Took /\ UNCHANGED <<shared, leaked, lostControl>>
    BY <1>7 DEF ApplyFilter
  <2>2. own'.secret = Head(queue).secret
    BY <1>7 DEF ApplyFilter, TypeOK, Settings
  <2>3. ~lostControl => leaked' = {}
    BY <2>1 DEF SecretInv
  <2>4. QED
    BY <2>1, <2>2, <2>3, TakenShape, TakenSecrets
<1>8. CASE SetPinned
  <2>1. /\ First("pin") /\ Took
        /\ UNCHANGED <<own, shared, leaked, lostControl>>
    BY <1>8 DEF SetPinned
  <2>2. ~lostControl => leaked' = {}
    BY <2>1 DEF SecretInv
  <2>3. QED
    BY <2>1, <2>2, TakenSecrets
<1>9. CASE DeleteOne
  <2>1. /\ First("delete") /\ Took
        /\ UNCHANGED <<own, shared, leaked, lostControl>>
    BY <1>9 DEF DeleteOne
  <2>2. ~lostControl => leaked' = {}
    BY <2>1 DEF SecretInv
  <2>3. QED
    BY <2>1, <2>2, TakenSecrets
<1>10. CASE DeleteAll
  <2>1. /\ First("delete_all") /\ Took
        /\ UNCHANGED <<own, shared, leaked, lostControl>>
    BY <1>10 DEF DeleteAll
  <2>2. ~lostControl => leaked' = {}
    BY <2>1 DEF SecretInv
  <2>3. QED
    BY <2>1, <2>2, TakenSecrets
<1>11. CASE RecoverOnClick
  <2>1. UNCHANGED <<own, shared, leaked>>
    BY <1>11 DEF RecoverOnClick
  <2>2. CASE UNCHANGED <<queue, lostControl>>
    BY <2>1, <2>2, SecretFrame
  <2>3. CASE clipboard # Nothing /\ Push(CaptureItem("recover", clipboard))
    <3>1. /\ CaptureItem("recover", clipboard) \in Item
          /\ CaptureItem("recover", clipboard).kind = "recover"
          /\ CaptureItem("recover", clipboard).screened = shared.secret
      BY <2>3, CaptureItems DEF CaptureItem, CaptureKinds
    <3>2. QED
      BY <2>1, <2>3, <3>1, PushSecrets
  <2>4. QED
    BY <1>11, <2>2, <2>3 DEF RecoverOnClick
<1>12. CASE ChangeFilter
  <2>1. /\ Push([kind |-> "filter", secret |-> ~shared.secret])
        /\ UNCHANGED <<own, leaked>>
        /\ shared' = [shared EXCEPT !.secret = ~shared.secret]
    BY <1>12 DEF ChangeFilter
  <2>2. shared'.secret = (~shared.secret)
    BY <2>1 DEF TypeOK, Settings
  <2>3. QED
    BY <2>1, <2>2, FilterItem, PushFilter
<1>13. ASSUME NEW l \in Limits, ChangeLimits(l)
      PROVE  SecretInv'
  <2> DEFINE x == [kind |-> "limits", at |-> now, limits |-> l]
  <2>1. Push(x) /\ UNCHANGED <<own, leaked>>
    BY <1>13 DEF ChangeLimits
  <2>2. shared'.secret = shared.secret
    BY <1>13 DEF ChangeLimits, TypeOK, Settings
  <2>3. x \in Item /\ x.kind \notin {"filter", "capture"}
    BY DEF TypeOK, Item
  <2>4. QED
    BY <2>1, <2>2, <2>3, PushSecrets
<1>14. CASE OpenWindow
  <2>1. UNCHANGED <<queue, own, shared, leaked, lostControl>>
    BY <1>14 DEF OpenWindow
  <2>2. QED
    BY <2>1, SecretFrame
<1>15. ASSUME NEW r \in rows, AskPin(r)
      PROVE  SecretInv'
  <2> DEFINE x == [kind |-> "pin", id |-> r.id, pin |-> ~r.pinned]
  <2>1. Push(x) /\ UNCHANGED <<own, leaked>>
    BY <1>15 DEF AskPin, Ask
  <2>2. shared'.secret = shared.secret
    BY <1>15 DEF AskPin, Ask, TypeOK, Settings
  <2>3. x \in Item /\ x.kind \notin {"filter", "capture"}
    BY PinItem
  <2>4. QED
    BY <2>1, <2>2, <2>3, PushSecrets
<1>16. ASSUME NEW r \in rows, AskDelete(r)
      PROVE  SecretInv'
  <2> DEFINE x == [kind |-> "delete", id |-> r.id]
  <2>1. Push(x) /\ UNCHANGED <<own, leaked>>
    BY <1>16 DEF AskDelete, Ask
  <2>2. shared'.secret = shared.secret
    BY <1>16 DEF AskDelete, Ask, TypeOK, Settings
  <2>3. x \in Item /\ x.kind \notin {"filter", "capture"}
    BY DEF TypeOK, Item
  <2>4. QED
    BY <2>1, <2>2, <2>3, PushSecrets
<1>17. ASSUME NEW r \in rows, ChooseRow(r)
      PROVE  SecretInv'
  <2>1. UNCHANGED <<queue, own, shared, leaked, lostControl>>
    BY <1>17 DEF ChooseRow
  <2>2. QED
    BY <2>1, SecretFrame
<1>18. ASSUME NEW keep \in BOOLEAN, AskDeleteAll(keep)
      PROVE  SecretInv'
  <2> DEFINE x == [kind |-> "delete_all", keep |-> keep]
  <2>1. Push(x) /\ UNCHANGED <<own, leaked>>
    BY <1>18 DEF AskDeleteAll, Ask
  <2>2. shared'.secret = shared.secret
    BY <1>18 DEF AskDeleteAll, Ask, TypeOK, Settings
  <2>3. x \in Item /\ x.kind \notin {"filter", "capture"}
    BY DEF Item
  <2>4. QED
    BY <2>1, <2>2, <2>3, PushSecrets
<1>19. CASE Notified
  <2>1. UNCHANGED <<own, shared, leaked>>
    BY <1>19 DEF Notified
  <2>2. CASE UNCHANGED <<queue, lostControl>>
    BY <2>1, <2>2, SecretFrame
  <2>3. CASE clipboard # Nothing /\ Push(CaptureItem("capture", clipboard))
    <3>1. /\ CaptureItem("capture", clipboard) \in Item
          /\ CaptureItem("capture", clipboard).kind = "capture"
          /\ CaptureItem("capture", clipboard).screened = shared.secret
      BY <2>3, CaptureItems DEF CaptureItem, CaptureKinds
    <3>2. QED
      BY <2>1, <2>3, <3>1, PushSecrets
  <2>4. QED
    BY <1>19, <2>2, <2>3 DEF Notified, CaptureAndEnqueue
<1>20. CASE PinAnswered
  <2>1. UNCHANGED <<queue, own, shared, leaked, lostControl>>
    BY <1>20 DEF PinAnswered, Answered
  <2>2. QED
    BY <2>1, SecretFrame
<1>21. CASE DeleteAnswered
  <2>1. UNCHANGED <<queue, own, shared, leaked, lostControl>>
    BY <1>21 DEF DeleteAnswered, Answered
  <2>2. QED
    BY <2>1, SecretFrame
<1>22. CASE DeleteAllAnswered
  <2>1. UNCHANGED <<queue, own, shared, leaked, lostControl>>
    BY <1>22 DEF DeleteAllAnswered, Answered
  <2>2. QED
    BY <2>1, SecretFrame
<1>23. CASE ReadFormats
  <2>1. UNCHANGED <<queue, own, shared, leaked, lostControl>>
    BY <1>23 DEF ReadFormats
  <2>2. QED
    BY <2>1, SecretFrame
<1>24. CASE WriteClipboard
  <2>1. UNCHANGED <<queue, own, shared, leaked, lostControl>>
    BY <1>24 DEF WriteClipboard
  <2>2. QED
    BY <2>1, SecretFrame
<1>25. CASE UNCHANGED vars
  BY <1>25, SecretFrame DEF vars
<1>26. QED
  BY <1>1, <1>2, <1>3, <1>4, <1>5, <1>6, <1>7, <1>8, <1>9, <1>10, <1>11,
     <1>12, <1>13, <1>14, <1>15, <1>16, <1>17, <1>18, <1>19, <1>20, <1>21,
     <1>22, <1>23, <1>24, <1>25
     DEF Next, Others, Worker, User, Handlers

\* Once the detection is on for the listener, a secret copied from then on is
\* not stored on its own, unless the queue has evicted a change of settings.
THEOREM SecretsAreScreened == Spec => []SecretsStayOut
<1>1. SecretInv => SecretsStayOut
  BY DEF SecretInv, SecretsStayOut
<1>2. QED
  BY <1>1, SecretInvInit, SecretInvStep, TypeCorrect, PTL DEF Spec

=============================================================================
