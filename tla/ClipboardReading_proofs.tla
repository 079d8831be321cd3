------------------------- MODULE ClipboardReading_proofs -------------------------
(***************************************************************************)
(* Proofs about ClipboardReading, for every set of kinds of copies, every  *)
(* backoff and every bound.                                                *)
(***************************************************************************)
EXTENDS ClipboardReading, TLAPS

-----------------------------------------------------------------------------
(* The inductive invariants.                                                *)

\* The formats are walked one by one, in the session only; without a copy there
\* is nothing to handle.
WalkInv ==
    /\ at \in 1 .. Len(content.kind.formats)
    /\ pc \notin {"acquire", "render"} => at = 1 /\ got = {}
    /\ content.id = 0 => notes = 0 /\ pc = "idle" /\ app = "idle"

TypeInv == TypeOK /\ WalkInv

\* From the opening on, a copy that was probed is published to the end, or it
\* has changed since it was looked at.
WayInv ==
    /\ app # "idle" => content.kind.ole
    /\ looked <= seq
    /\ pc \in {"open", "screen", "acquire", "render"} =>
          why # "none" /\ (why = "known" => app = "idle" \/ seq # looked)

\* A handler that sees another copy than it began with has a notification to
\* give way to; at rest with no notification left the copy is accounted for.
AccountedFor ==
    \/ content.id \in taken
    \/ ~content.announced \/ content.kind.private # "no" \/ content.kind.big
    \/ Canonical(content.kind) = "none"
    \/ result \in {"exhausted", "undelivered"}

MissedInv ==
    /\ pc = "idle" /\ notes = 0 /\ content.id # 0 => AccountedFor
    /\ pc # "idle" => first <= seq /\ (seq # first => notes > 0)

\* Past the screening nothing is flagged, and a blocked program is one that
\* could not be named.
UnreadInv ==
    pc \in {"acquire", "render"} =>
        /\ content.kind.private # "flagged"
        /\ content.kind.private = "blocked" => program = "unknown"

-----------------------------------------------------------------------------
(* Types.                                                                   *)

LEMMA KindFields ==
    ASSUME NEW k \in Kinds
    PROVE  /\ k.ole \in BOOLEAN /\ k.private \in {"no", "flagged", "blocked"}
           /\ k.formats \in Seq(Format) /\ Len(k.formats) \in Nat \ {0}
           /\ FormatsOf(k) \in SUBSET Format
           /\ \A i \in 1 .. Len(k.formats) : k.formats[i] \in FormatsOf(k)
<1>1. k \in KindType /\ k.formats # <<>>
  BY KindsAssumption
<1>2. k.ole \in BOOLEAN /\ k.private \in {"no", "flagged", "blocked"}
  BY <1>1 DEF KindType
<1>3. k.formats \in Seq(Format) /\ Len(k.formats) \in Nat \ {0}
  BY <1>1 DEF KindType
<1>4. QED
  BY <1>2, <1>3 DEF FormatsOf

Results == {"none", "refused", "superseded", "exhausted", "undelivered",
            "taken"}

\* The part of the types that only the handler changes, and the other part.
HandlerOK ==
    /\ {first, looked, delay} \subseteq Nat /\ slept \in 0 .. CapTotal
    /\ holder \in {"nobody", "reader", "other"}
    /\ pc \in {"idle", "look", "probe", "open", "final", "screen", "acquire",
               "render"}
    /\ at \in 1 .. Len(content.kind.formats)
    /\ got \subseteq FormatsOf(content.kind)
    /\ result \in Results
    /\ taken \subseteq Id
    /\ why \in {"none", "known", "doubt", "final"}
    /\ pc = "idle" => AtRest
    /\ holder = "reader" <=> pc \in {"screen", "acquire", "render"}
    /\ pc \notin {"acquire", "render"} => at = 1 /\ got = {}
    /\ program \in {"none", "known", "unknown"}
    /\ program # "none" <=> pc \in {"acquire", "render"}

OwnerOK ==
    /\ content \in [id : 0 .. MaxCopies, kind : Kinds, announced : BOOLEAN,
                    ready : SUBSET Format]
    /\ content.ready \subseteq FormatsOf(content.kind)
    /\ seq \in Nat /\ notes \in Nat
    /\ owner \in {"pumps", "hung", "gone"}
    /\ app \in {"idle", "second", "flush"}
    /\ events \in 0 .. MaxEvents

LEMMA TypeParts ==
    TypeInv <=> /\ HandlerOK /\ OwnerOK
                /\ content.id = 0 => notes = 0 /\ pc = "idle" /\ app = "idle"
<1>1. \A k \in Kinds : \A i \in 1 .. Len(k.formats) : i \in Nat
  BY KindFields
<1>2. QED
  BY <1>1 DEF TypeInv, TypeOK, WalkInv, HandlerOK, OwnerOK, Results

\* A handler that ends leaves nothing behind.
LEMMA DoneOK ==
    ASSUME HandlerOK, content.kind \in Kinds, content'.kind = content.kind,
           taken' \subseteq Id, NEW outcome \in Results, Done(outcome)
    PROVE  HandlerOK' /\ pc' = "idle"
BY KindFields, BackoffAssumption DEF HandlerOK, Done, AtRest

LEMMA FailOK ==
    ASSUME HandlerOK, content.kind \in Kinds, pc \in {"probe", "open"},
           UNCHANGED <<content, taken>>, NEW silent, Fail(silent)
    PROVE  HandlerOK'
<1>1. slept \in Nat /\ delay \in Nat /\ at = 1 /\ got = {} /\ holder # "reader"
  BY DEF HandlerOK
<1>2. CASE Done("exhausted")
  BY <1>2, DoneOK DEF HandlerOK, Results
<1>3. CASE /\ slept + delay <= CapTotal
           /\ pc' = "look"
           /\ slept' = slept + delay /\ delay' = 2 * delay
           /\ UNCHANGED <<holder, first, session, result, ghosts>>
  BY <1>1, <1>3, BackoffAssumption DEF HandlerOK, session, ghosts
<1>4. CASE pc' = "final" /\ UNCHANGED <<holder, backoff, session, result, ghosts>>
  BY <1>1, <1>4 DEF HandlerOK, session, ghosts, backoff
<1>5. QED
  BY <1>2, <1>3, <1>4 DEF Fail

\* The next format, or the end with or without a capture.
LEMMA AdvanceOK ==
    ASSUME HandlerOK, content.kind \in Kinds, content'.kind = content.kind,
           content.id \in Id, pc \in {"acquire", "render"},
           NEW formats \in SUBSET FormatsOf(content.kind), Advance(formats)
    PROVE  HandlerOK'
<1>1. Len(content.kind.formats) \in Nat \ {0}
  BY KindFields
<1>2. CASE at < Len(content.kind.formats)
  BY <1>1, <1>2 DEF Advance, HandlerOK, backoff, ghosts
<1>3. CASE at >= Len(content.kind.formats)
  BY <1>1, <1>3, DoneOK DEF Advance, HandlerOK, Results
<1>4. QED
  BY <1>1, <1>2, <1>3 DEF HandlerOK

LEMMA HereIsAFormat ==
    ASSUME HandlerOK, content.kind \in Kinds
    PROVE  Here \in FormatsOf(content.kind)
BY KindFields DEF HandlerOK, Here

LEMMA KeepOK ==
    ASSUME HandlerOK, content.kind \in Kinds, content'.kind = content.kind,
           content.id \in Id, pc \in {"acquire", "render"}, Keep
    PROVE  HandlerOK'
<1>1. got \cup {Here} \in SUBSET FormatsOf(content.kind)
  BY HereIsAFormat DEF HandlerOK
<1>2. CASE Done("refused") /\ UNCHANGED taken
  BY <1>2, DoneOK DEF HandlerOK, Results
<1>3. CASE Advance(got \cup {Here})
  BY <1>1, <1>3, AdvanceOK
<1>4. QED
  BY <1>2, <1>3 DEF Keep

LEMMA KeepOrLeaveOutOK ==
    ASSUME HandlerOK, content.kind \in Kinds, content'.kind = content.kind,
           content.id \in Id, pc \in {"acquire", "render"}, KeepOrLeaveOut
    PROVE  HandlerOK'
<1>1. got \in SUBSET FormatsOf(content.kind)
  BY DEF HandlerOK
<1>2. QED
  BY <1>1, KeepOK, AdvanceOK DEF KeepOrLeaveOut

LEMMA TypeInit == Init => TypeInv
<1> SUFFICES ASSUME Init
             PROVE  TypeInv
  OBVIOUS
<1>1. Nothing.kind \in Kinds
  BY KindsAssumption DEF Nothing
<1>2. content \in [id : 0 .. MaxCopies, kind : Kinds, announced : BOOLEAN,
                   ready : SUBSET Format] /\ content.ready = {}
  BY <1>1, BoundsAssumption DEF Init, Nothing
<1>3. content = Nothing /\ content.kind \in Kinds /\ content.id = 0
  BY <1>1 DEF Init, Nothing
<1>4. QED
  BY <1>2, <1>3, KindFields, BackoffAssumption, BoundsAssumption
     DEF Init, TypeInv, TypeOK, WalkInv, AtRest

LEMMA TypeStep == TypeInv /\ [Next]_vars => TypeInv'
<1> SUFFICES ASSUME TypeInv, [Next]_vars
             PROVE  TypeInv'
  OBVIOUS
<1>0. /\ HandlerOK /\ OwnerOK /\ content.kind \in Kinds
      /\ content.id = 0 => notes = 0 /\ pc = "idle" /\ app = "idle"
  BY TypeParts DEF OwnerOK
<1>a. HandlerOK' /\ OwnerOK'
      /\ (content'.id = 0 => notes' = 0 /\ pc' = "idle" /\ app' = "idle")
         => TypeInv'
  <2>1. \A k \in Kinds : \A i \in 1 .. Len(k.formats) : i \in Nat
    BY KindFields
  <2>2. QED
    BY <2>1 DEF TypeInv, TypeOK, WalkInv, HandlerOK, OwnerOK, Results
<1> USE DEF clipboard, others, backoff, session, ghosts, reading
<1>1. ASSUME NEW k \in Kinds, Copy(k)
      PROVE  TypeInv'
  <2>1. UNCHANGED <<holder, reading, events>> /\ holder = "nobody"
    BY <1>1 DEF Copy
  <2>2. /\ content'.id \in 1 .. MaxCopies /\ content'.kind \in Kinds
        /\ content'.ready \subseteq FormatsOf(content'.kind)
        /\ content' \in [id : 0 .. MaxCopies, kind : Kinds,
                         announced : BOOLEAN, ready : SUBSET Format]
    <3>1. k.ole \in BOOLEAN /\ FormatsOf(k) \in SUBSET Format
      BY KindFields
    <3>2. (~k.ole) \in BOOLEAN
      BY <3>1
    <3>3. content.id + 1 \in 1 .. MaxCopies
      BY <1>1, <1>0, BoundsAssumption DEF Copy, OwnerOK
    <3>4. PICK rdy \in {{}, FormatsOf(k)} :
             content' = [id |-> content.id + 1, kind |-> k,
                         announced |-> ~k.ole, ready |-> rdy]
      BY <1>1 DEF Copy, Update
    <3>5. QED
      BY <3>1, <3>2, <3>3, <3>4
  <2>3. HandlerOK'
    BY <1>0, <2>1, <2>2, KindFields DEF HandlerOK, AtRest
  <2>4. OwnerOK'
    BY <1>1, <1>0, <2>1, <2>2 DEF Copy, OwnerOK, Update
  <2>5. QED
    BY <1>a, <2>2, <2>3, <2>4
<1>2. CASE SecondUpdate
  <2>1. UNCHANGED <<holder, reading, events>> /\ holder = "nobody"
    BY <1>2 DEF SecondUpdate
  <2>2. /\ content'.id \in 1 .. MaxCopies /\ content'.kind \in Kinds
        /\ content'.ready \subseteq FormatsOf(content'.kind)
        /\ content' \in [id : 0 .. MaxCopies, kind : Kinds,
                         announced : BOOLEAN, ready : SUBSET Format]
    <3>1. content.id \in 1 .. MaxCopies
      BY <1>2, <1>0 DEF SecondUpdate, OwnerOK
    <3>2. PICK b \in BOOLEAN : content' = [content EXCEPT !.announced = b]
      BY <1>2 DEF SecondUpdate, Update
    <3>3. QED
      BY <1>0, <3>1, <3>2 DEF OwnerOK
  <2>3. HandlerOK'
    BY <1>0, <2>1, <2>2, KindFields DEF HandlerOK, AtRest
  <2>4. OwnerOK'
    BY <1>2, <1>0, <2>1, <2>2 DEF SecondUpdate, OwnerOK, Update
  <2>5. QED
    BY <1>a, <2>2, <2>3, <2>4
<1>3. CASE Flush
  <2>1. UNCHANGED <<holder, reading, events>> /\ holder = "nobody"
    BY <1>3 DEF Flush
  <2>2. /\ content'.id \in 1 .. MaxCopies /\ content'.kind \in Kinds
        /\ content'.ready \subseteq FormatsOf(content'.kind)
        /\ content' \in [id : 0 .. MaxCopies, kind : Kinds,
                         announced : BOOLEAN, ready : SUBSET Format]
    <3>1. content.id \in 1 .. MaxCopies
      BY <1>3, <1>0 DEF Flush, OwnerOK
    <3>2. FormatsOf(content.kind) \in SUBSET Format
      BY <1>0, KindFields
    <3>3. content' = [content EXCEPT !.ready = FormatsOf(content.kind)]
      BY <1>3 DEF Flush, Update
    <3>4. QED
      BY <1>0, <3>1, <3>2, <3>3 DEF OwnerOK
  <2>3. HandlerOK'
    BY <1>0, <2>1, <2>2, KindFields DEF HandlerOK, AtRest
  <2>4. OwnerOK'
    BY <1>3, <1>0, <2>1, <2>2 DEF Flush, OwnerOK, Update
  <2>5. QED
    BY <1>a, <2>2, <2>3, <2>4
<1>4. CASE GivesUp
  <2>1. UNCHANGED <<pc, backoff, session, result, taken, ghosts>>
    BY <1>4 DEF GivesUp
  <2>2. HandlerOK'
    BY <1>4, <1>0, <2>1, KindFields DEF GivesUp, HandlerOK, OwnerOK, AtRest, Update
  <2>3. OwnerOK'
    BY <1>4, <1>0, BoundsAssumption DEF GivesUp, OwnerOK, Update, Event
  <2>4. content'.id = 0 => notes' = 0 /\ pc' = "idle" /\ app' = "idle"
    BY <1>4, <1>0 DEF GivesUp, OwnerOK, Update
  <2>5. QED
    BY <1>a, <2>2, <2>3, <2>4
<1>5. CASE OwnerChanges
  <2>1. UNCHANGED <<pc, backoff, session, result, taken, ghosts>>
    BY <1>5 DEF OwnerChanges
  <2>2. HandlerOK'
    BY <1>5, <1>0, <2>1, KindFields DEF OwnerChanges, HandlerOK, OwnerOK, AtRest, Update
  <2>3. OwnerOK'
    BY <1>5, <1>0, BoundsAssumption DEF OwnerChanges, OwnerOK, Update, Event
  <2>4. content'.id = 0 => notes' = 0 /\ pc' = "idle" /\ app' = "idle"
    BY <1>5, <1>0 DEF OwnerChanges, OwnerOK, Update
  <2>5. QED
    BY <1>a, <2>2, <2>3, <2>4
<1>6. CASE OtherOpens
  <2>1. UNCHANGED <<pc, backoff, session, result, taken, ghosts>>
    BY <1>6 DEF OtherOpens
  <2>2. HandlerOK'
    BY <1>6, <1>0, <2>1, KindFields DEF OtherOpens, HandlerOK, OwnerOK, AtRest, Update
  <2>3. OwnerOK'
    BY <1>6, <1>0, BoundsAssumption DEF OtherOpens, OwnerOK, Update, Event
  <2>4. content'.id = 0 => notes' = 0 /\ pc' = "idle" /\ app' = "idle"
    BY <1>6, <1>0 DEF OtherOpens, OwnerOK, Update
  <2>5. QED
    BY <1>a, <2>2, <2>3, <2>4
<1>7. CASE OtherCloses
  <2>1. UNCHANGED <<pc, backoff, session, result, taken, ghosts>>
    BY <1>7 DEF OtherCloses
  <2>2. HandlerOK'
    BY <1>7, <1>0, <2>1, KindFields DEF OtherCloses, HandlerOK, OwnerOK, AtRest, Update
  <2>3. OwnerOK'
    BY <1>7, <1>0, BoundsAssumption DEF OtherCloses, OwnerOK, Update, Event
  <2>4. content'.id = 0 => notes' = 0 /\ pc' = "idle" /\ app' = "idle"
    BY <1>7, <1>0 DEF OtherCloses, OwnerOK, Update
  <2>5. QED
    BY <1>a, <2>2, <2>3, <2>4
<1>8. CASE Notified
  <2>1. HandlerOK'
    BY <1>8, <1>0, KindFields DEF Notified, HandlerOK, OwnerOK, AtRest
  <2>2. QED
    BY <1>8, <1>0, <1>a, <2>1 DEF Notified, OwnerOK
<1>9. CASE Look
  <2>1. HandlerOK'
    <3>1. CASE Done("refused")
      BY <1>9, <1>0, <3>1, DoneOK DEF Look, HandlerOK, Results
    <3>2. CASE ~Done("refused")
      BY <1>9, <1>0, <3>2 DEF Look, HandlerOK, OwnerOK
    <3>3. QED
      BY <3>1, <3>2
  <2>2. QED
    BY <1>9, <1>0, <1>a, <2>1 DEF Look, OwnerOK
<1>10. CASE ProbeAnswered
  <2>1. HandlerOK'
    BY <1>10, <1>0, KindFields DEF ProbeAnswered, HandlerOK, OwnerOK, AtRest
  <2>2. QED
    BY <1>10, <1>0, <1>a, <2>1 DEF ProbeAnswered, OwnerOK
<1>11. CASE ProbeUnanswered
  <2>1. HandlerOK'
    BY <1>11, <1>0, DoneOK, FailOK
       DEF ProbeUnanswered, Silence, HandlerOK, Results
  <2>2. QED
    BY <1>11, <1>0, <1>a, <2>1 DEF ProbeUnanswered, OwnerOK
<1>12. CASE Open
  <2>1. HandlerOK'
    <3>1. CASE holder = "nobody"
      BY <1>12, <1>0, <3>1 DEF Open, HandlerOK
    <3>2. CASE holder # "nobody"
      BY <1>12, <1>0, <3>2, FailOK DEF Open
    <3>3. QED
      BY <3>1, <3>2
  <2>2. QED
    BY <1>12, <1>0, <1>a, <2>1 DEF Open, OwnerOK
<1>13. CASE FinalRead
  <2>1. HandlerOK'
    <3>1. CASE holder = "nobody"
      BY <1>13, <1>0, <3>1 DEF FinalRead, HandlerOK
    <3>2. CASE holder # "nobody"
      BY <1>13, <1>0, <3>2, DoneOK DEF FinalRead, HandlerOK, Results
    <3>3. QED
      BY <3>1, <3>2
  <2>2. QED
    BY <1>13, <1>0, <1>a, <2>1 DEF FinalRead, OwnerOK
<1>14. CASE Screen
  <2>1. HandlerOK'
    <3>1. CASE Done("refused")
      BY <1>14, <1>0, <3>1, DoneOK DEF Screen, HandlerOK, Results
    <3>2. CASE ~Done("refused")
      BY <1>14, <1>0, <3>2 DEF Screen, HandlerOK, SourceProgram
    <3>3. QED
      BY <3>1, <3>2 DEF Screen
  <2>2. QED
    BY <1>14, <1>0, <1>a, <2>1 DEF Screen, OwnerOK
<1>15. CASE Acquire
  <2>0. content.id \in Id
    BY <1>15, <1>0 DEF Acquire, OwnerOK, Id
  <2>1. HandlerOK'
    <3>1. CASE KeepOrLeaveOut
      BY <1>15, <1>0, <2>0, <3>1, KeepOrLeaveOutOK DEF Acquire
    <3>2. CASE ~KeepOrLeaveOut
      BY <1>15, <1>0, <3>2 DEF Acquire, HandlerOK
    <3>3. QED
      BY <3>1, <3>2
  <2>2. QED
    BY <1>15, <1>0, <1>a, <2>0, <2>1 DEF Acquire, OwnerOK, Id
<1>16. CASE Rendered
  <2>0. content.id \in Id
    BY <1>16, <1>0 DEF Rendered, OwnerOK, Id
  <2>1. content' = [content EXCEPT !.ready = content.ready \cup {Here}]
    BY <1>16 DEF Rendered
  <2>2. /\ Here \in FormatsOf(content.kind)
        /\ FormatsOf(content.kind) \in SUBSET Format
    BY <1>0, HereIsAFormat, KindFields
  <2>3. /\ content' \in [id : 0 .. MaxCopies, kind : Kinds,
                         announced : BOOLEAN, ready : SUBSET Format]
        /\ content'.ready \subseteq FormatsOf(content.kind)
        /\ content'.kind = content.kind /\ content'.id = content.id
    BY <1>0, <2>1, <2>2 DEF OwnerOK
  <2>4. HandlerOK'
    BY <1>16, <1>0, <2>0, <2>3, KeepOrLeaveOutOK DEF Rendered
  <2>5. OwnerOK'
    BY <1>16, <1>0, <2>3 DEF Rendered, OwnerOK
  <2>6. QED
    BY <1>a, <2>0, <2>3, <2>4, <2>5 DEF Id
<1>17. CASE NotRendered
  <2>0. content.id \in Id
    BY <1>17, <1>0 DEF NotRendered, OwnerOK, Id
  <2>1. got \in SUBSET FormatsOf(content.kind)
    BY <1>0 DEF HandlerOK
  <2>2. HandlerOK'
    BY <1>17, <1>0, <2>0, <2>1, AdvanceOK DEF NotRendered
  <2>3. QED
    BY <1>17, <1>0, <1>a, <2>0, <2>2 DEF NotRendered, OwnerOK, Id
<1>18. CASE UNCHANGED vars
  BY <1>18, <1>0, <1>a DEF vars, HandlerOK, OwnerOK, AtRest
<1>19. QED
  BY <1>1, <1>2, <1>3, <1>4, <1>5, <1>6, <1>7, <1>8, <1>9, <1>10, <1>11,
     <1>12, <1>13, <1>14, <1>15, <1>16, <1>17, <1>18
     DEF Next

\* Every variable keeps its type, and the clipboard is open in the session only.
THEOREM TypeCorrect == Spec => []TypeOK
<1>1. TypeInv => TypeOK
  BY DEF TypeInv
<1>2. QED
  BY <1>1, TypeInit, TypeStep, PTL DEF Spec

-----------------------------------------------------------------------------
(* No owner is kept from its next update.                                   *)

LEMMA WayInit == Init => WayInv
BY DEF Init, WayInv, AtRest

LEMMA WayStep == TypeInv /\ WayInv /\ [Next]_vars => WayInv'
<1> SUFFICES ASSUME TypeInv, WayInv, [Next]_vars
             PROVE  WayInv'
  OBVIOUS
<1>0. /\ content \in [id : 0 .. MaxCopies, kind : Kinds,
                      announced : BOOLEAN, ready : SUBSET Format]
      /\ seq \in Nat /\ notes \in Nat /\ looked \in Nat /\ first \in Nat
      /\ holder = "reader" <=> pc \in {"screen", "acquire", "render"}
      /\ content.id = 0 => notes = 0 /\ pc = "idle" /\ app = "idle"
      /\ pc = "idle" => looked = 0 /\ first = 0
  BY DEF TypeInv, TypeOK, WalkInv, AtRest
<1> USE DEF WayInv, clipboard, others, backoff, session, ghosts, reading
<1>1. ASSUME NEW k \in Kinds, Copy(k)
      PROVE  WayInv'
  BY <1>1, <1>0 DEF Copy, Update
<1>2. CASE SecondUpdate
  BY <1>2, <1>0 DEF SecondUpdate, Update
<1>3. CASE Flush
  BY <1>3, <1>0 DEF Flush, Update
<1>4. CASE GivesUp
  BY <1>4, <1>0 DEF GivesUp
<1>5. CASE OwnerChanges
  BY <1>5, <1>0 DEF OwnerChanges, Event
<1>6. CASE OtherOpens
  BY <1>6, <1>0 DEF OtherOpens, Event
<1>7. CASE OtherCloses
  BY <1>7, <1>0 DEF OtherCloses
<1>8. CASE Notified
  BY <1>8, <1>0 DEF Notified
<1>9. CASE Look
  BY <1>9, <1>0 DEF Look, Done, OleBookkeepingOnly
<1>10. CASE ProbeAnswered
  BY <1>10, <1>0 DEF ProbeAnswered, Pumps
<1>11. CASE ProbeUnanswered
  BY <1>11, <1>0 DEF ProbeUnanswered, Silence, Fail, Done
<1>12. CASE Open
  BY <1>12, <1>0 DEF Open, Fail, Done
<1>13. CASE FinalRead
  BY <1>13, <1>0 DEF FinalRead, Done
<1>14. CASE Screen
  BY <1>14, <1>0 DEF Screen, Done
<1>15. CASE Acquire
  BY <1>15, <1>0 DEF Acquire, KeepOrLeaveOut, Keep, Advance, Done
<1>16. CASE Rendered
  BY <1>16, <1>0 DEF Rendered, Pumps, KeepOrLeaveOut, Keep, Advance, Done
<1>17. CASE NotRendered
  BY <1>17, <1>0 DEF NotRendered, Advance, Done
<1>18. CASE UNCHANGED vars
  BY <1>18 DEF vars
<1>19. QED
  BY <1>1, <1>2, <1>3, <1>4, <1>5, <1>6, <1>7, <1>8, <1>9, <1>10, <1>11,
     <1>12, <1>13, <1>14, <1>15, <1>16, <1>17, <1>18
     DEF Next

\* An owner in the middle of publishing is not kept from its next update, but
\* after its silence, in doubt or when it began after it was looked at.
THEOREM OwnersGetThrough == Spec => []NeverInTheWay
<1>1. TypeInv /\ WayInv => NeverInTheWay
  BY DEF TypeInv, TypeOK, WayInv, NeverInTheWay
<1>2. QED
  BY <1>1, TypeInit, TypeStep, WayInit, WayStep, PTL DEF Spec

-----------------------------------------------------------------------------
(* No copy is missed.                                                       *)

LEMMA MissedInit == Init => MissedInv
BY DEF Init, MissedInv, Nothing

LEMMA MissedStep == TypeInv /\ MissedInv /\ [Next]_vars => MissedInv'
<1> SUFFICES ASSUME TypeInv, MissedInv, [Next]_vars
             PROVE  MissedInv'
  OBVIOUS
<1>0. /\ content \in [id : 0 .. MaxCopies, kind : Kinds,
                      announced : BOOLEAN, ready : SUBSET Format]
      /\ seq \in Nat /\ notes \in Nat /\ looked \in Nat /\ first \in Nat
      /\ holder = "reader" <=> pc \in {"screen", "acquire", "render"}
      /\ content.id = 0 => notes = 0 /\ pc = "idle" /\ app = "idle"
      /\ pc = "idle" => looked = 0 /\ first = 0
  BY DEF TypeInv, TypeOK, WalkInv, AtRest
<1> USE DEF MissedInv, AccountedFor, clipboard, others, backoff, session, ghosts, reading
<1>1. ASSUME NEW k \in Kinds, Copy(k)
      PROVE  MissedInv'
  BY <1>1, <1>0 DEF Copy, Update
<1>2. CASE SecondUpdate
  BY <1>2, <1>0 DEF SecondUpdate, Update
<1>3. CASE Flush
  BY <1>3, <1>0 DEF Flush, Update
<1>4. CASE GivesUp
  BY <1>4, <1>0 DEF GivesUp
<1>5. CASE OwnerChanges
  BY <1>5, <1>0 DEF OwnerChanges, Event
<1>6. CASE OtherOpens
  BY <1>6, <1>0 DEF OtherOpens, Event
<1>7. CASE OtherCloses
  BY <1>7, <1>0 DEF OtherCloses
<1>8. CASE Notified
  BY <1>8, <1>0 DEF Notified
<1>9. CASE Look
  BY <1>9, <1>0 DEF Look, Done, OleBookkeepingOnly
<1>10. CASE ProbeAnswered
  BY <1>10, <1>0 DEF ProbeAnswered, Pumps
<1>11. CASE ProbeUnanswered
  BY <1>11, <1>0 DEF ProbeUnanswered, Silence, Fail, Done
<1>12. CASE Open
  BY <1>12, <1>0 DEF Open, Fail, Done
<1>13. CASE FinalRead
  BY <1>13, <1>0 DEF FinalRead, Done
<1>14. CASE Screen
  BY <1>14, <1>0 DEF Screen, Done, Refuses
<1>15. CASE Acquire
  BY <1>15, <1>0 DEF Acquire, KeepOrLeaveOut, Keep, Advance, Done
<1>16. CASE Rendered
  BY <1>16, <1>0 DEF Rendered, Pumps, KeepOrLeaveOut, Keep, Advance, Done
<1>17. CASE NotRendered
  BY <1>17, <1>0 DEF NotRendered, Advance, Done
<1>18. CASE UNCHANGED vars
  BY <1>18 DEF vars
<1>19. QED
  BY <1>1, <1>2, <1>3, <1>4, <1>5, <1>6, <1>7, <1>8, <1>9, <1>10, <1>11,
     <1>12, <1>13, <1>14, <1>15, <1>16, <1>17, <1>18
     DEF Next

\* At rest with no notification left, the copy in the clipboard was taken or is
\* accounted for.
THEOREM CopiesAreNotMissed == Spec => []NothingMissed
<1>1. MissedInv => NothingMissed
  BY DEF MissedInv, NothingMissed, AccountedFor
<1>2. QED
  BY <1>1, TypeInit, TypeStep, MissedInit, MissedStep, PTL DEF Spec

-----------------------------------------------------------------------------
(* What is private is not read.                                             *)

LEMMA UnreadInit == Init => UnreadInv
BY DEF Init, UnreadInv

LEMMA UnreadStep == TypeInv /\ UnreadInv /\ [Next]_vars => UnreadInv'
<1> SUFFICES ASSUME TypeInv, UnreadInv, [Next]_vars
             PROVE  UnreadInv'
  OBVIOUS
<1>0. /\ content \in [id : 0 .. MaxCopies, kind : Kinds,
                      announced : BOOLEAN, ready : SUBSET Format]
      /\ seq \in Nat /\ notes \in Nat /\ looked \in Nat /\ first \in Nat
      /\ holder = "reader" <=> pc \in {"screen", "acquire", "render"}
      /\ content.id = 0 => notes = 0 /\ pc = "idle" /\ app = "idle"
      /\ pc = "idle" => looked = 0 /\ first = 0
  BY DEF TypeInv, TypeOK, WalkInv, AtRest
<1> USE DEF UnreadInv, clipboard, others, backoff, session, ghosts, reading
<1>1. ASSUME NEW k \in Kinds, Copy(k)
      PROVE  UnreadInv'
  BY <1>1, <1>0 DEF Copy, Update
<1>2. CASE SecondUpdate
  BY <1>2, <1>0 DEF SecondUpdate, Update
<1>3. CASE Flush
  BY <1>3, <1>0 DEF Flush, Update
<1>4. CASE GivesUp
  BY <1>4, <1>0 DEF GivesUp
<1>5. CASE OwnerChanges
  BY <1>5, <1>0 DEF OwnerChanges, Event
<1>6. CASE OtherOpens
  BY <1>6, <1>0 DEF OtherOpens, Event
<1>7. CASE OtherCloses
  BY <1>7, <1>0 DEF OtherCloses
<1>8. CASE Notified
  BY <1>8, <1>0 DEF Notified
<1>9. CASE Look
  BY <1>9, <1>0 DEF Look, Done, OleBookkeepingOnly
<1>10. CASE ProbeAnswered
  BY <1>10, <1>0 DEF ProbeAnswered, Pumps
<1>11. CASE ProbeUnanswered
  BY <1>11, <1>0 DEF ProbeUnanswered, Silence, Fail, Done
<1>12. CASE Open
  BY <1>12, <1>0 DEF Open, Fail, Done
<1>13. CASE FinalRead
  BY <1>13, <1>0 DEF FinalRead, Done
<1>14. CASE Screen
  <2>1. CASE Done("refused")
    BY <2>1 DEF Done
  <2>2. CASE ~Done("refused")
    <3>1. PICK name \in SourceProgram :
             /\ ~Refuses(content, name)
             /\ program' = name
             /\ UNCHANGED content
      BY <1>14, <2>2 DEF Screen
    <3>2. name \in {"known", "unknown"}
      BY DEF SourceProgram
    <3>3. QED
      BY <3>1, <3>2 DEF Refuses
  <2>3. QED
    BY <2>1, <2>2
<1>15. CASE Acquire
  BY <1>15, <1>0 DEF Acquire, KeepOrLeaveOut, Keep, Advance, Done
<1>16. CASE Rendered
  BY <1>16, <1>0 DEF Rendered, Pumps, KeepOrLeaveOut, Keep, Advance, Done
<1>17. CASE NotRendered
  BY <1>17, <1>0 DEF NotRendered, Advance, Done
<1>18. CASE UNCHANGED vars
  BY <1>18 DEF vars
<1>19. QED
  BY <1>1, <1>2, <1>3, <1>4, <1>5, <1>6, <1>7, <1>8, <1>9, <1>10, <1>11,
     <1>12, <1>13, <1>14, <1>15, <1>16, <1>17, <1>18
     DEF Next

\* No byte is read, and no owner asked, of a copy that is flagged, nor of one
\* of a blocked program that could be named.
THEOREM PrivateIsNotRead == Spec => []PrivateStaysUnread
<1>1. TypeInv /\ UnreadInv => PrivateStaysUnread
  BY DEF UnreadInv, PrivateStaysUnread, TypeInv, WalkInv
<1>2. QED
  BY <1>1, TypeInit, TypeStep, UnreadInit, UnreadStep, PTL DEF Spec

=============================================================================
