-------------------------- MODULE ClipboardReading --------------------------
(***************************************************************************)
(* How a copy is read from the clipboard: the handler of one notification, *)
(* with the probe of the owner, the backoff and the session in which the   *)
(* formats are listed, screened and copied, against an owner that          *)
(* publishes in several updates and answers when it can.  An OLE owner     *)
(* publishes first its bookkeeping formats, then the formats of the        *)
(* content, delayed, and last their bytes (the flush), and pumps no        *)
(* messages in between: whoever holds the clipboard then and asks it for a *)
(* delayed format keeps the flush from happening.  What is read is given   *)
(* to the pipeline of ClipboardHistory.tla, where a reading is one step.   *)
(***************************************************************************)
EXTENDS Naturals, Sequences

CONSTANTS
    Kinds,      \* what programs copy, as records of KindType
    Start,      \* BACKOFF_START
    CapTotal,   \* BACKOFF_CAP_TOTAL
    MaxCopies,  \* bound: copies
    MaxEvents   \* bound: changes of the owner and of other programs

Format == {"text", "image", "files", "custom", "other"}
KindType ==
    [ole : BOOLEAN,                       \* published with OleSetClipboard
     flushes : BOOLEAN,                   \* and flushed by the owner
     delayed : BOOLEAN,                   \* the bytes come when asked for
     private : {"no", "flagged", "blocked"},
     big : BOOLEAN,                       \* above the limit of its kind
     formats : Seq(Format)]

ASSUME KindsAssumption ==
    /\ Kinds \subseteq KindType /\ Kinds # {}
    /\ \A k \in Kinds : /\ k.formats # <<>>
                        /\ k.ole => k.delayed
                        /\ k.flushes => k.ole
ASSUME BackoffAssumption == Start \in Nat \ {0} /\ CapTotal \in Nat
ASSUME BoundsAssumption == MaxCopies \in Nat /\ MaxEvents \in Nat

VARIABLES
    content,  \* the copy in the clipboard, and which of its formats have bytes
    seq,      \* GetClipboardSequenceNumber
    notes,    \* WM_CLIPBOARDUPDATE in the message queue
    holder,   \* who has the clipboard open
    owner,    \* "pumps", "hung" or "gone"
    app,      \* the update an OLE owner has still to make
    pc,       \* where the handler of a notification is
    first,    \* first_sequence
    slept, delay,
    at,       \* acquire_and_copy: the index of the next format
    got,      \* and the formats copied so far
    program,  \* source_program: whether the session could name its owner
    result,   \* how the last notification ended
    taken,    \* the copies given to the pipeline
    looked,   \* ghost: seq when the formats were last listed unopened
    why,      \* ghost: what the clipboard is opened on
    events

vars == <<content, seq, notes, holder, owner, app, pc, first, slept, delay, at,
          got, program, result, taken, looked, why, events>>
clipboard == <<content, seq, notes>>
others == <<owner, app, events>>
backoff == <<first, slept, delay>>
session == <<at, got, program>>
ghosts == <<looked, why>>

Id == 1 .. MaxCopies

-----------------------------------------------------------------------------
(* canonical.rs and owner_gate.rs: decisions over the formats announced.    *)

FormatsOf(k) == {k.formats[i] : i \in DOMAIN k.formats}

(* select_index: text, else an image, else files, else a registered format. *)
Canonical(k) ==
    CASE "text" \in FormatsOf(k) -> "text"
      [] "text" \notin FormatsOf(k) /\ "image" \in FormatsOf(k) -> "image"
      [] FormatsOf(k) \cap {"text", "image"} = {} /\ "files" \in FormatsOf(k) -> "files"
      [] FormatsOf(k) \cap {"text", "image", "files"} = {} /\ "custom" \in FormatsOf(k)
            -> "custom"
      [] OTHER -> "none"

(* Only the formats of control of OLE are announced.                        *)
OleBookkeepingOnly == content.kind.ole /\ ~content.announced

(* resolve_source_program: an owner without a window cannot be named; nor   *)
(* can a living one whose process may not be opened or whose path is too    *)
(* long.                                                                    *)
SourceProgram == {"unknown"} \cup (IF owner = "gone" THEN {} ELSE {"known"})

(* screen: the flag and the list of programs before anything else; a        *)
(* program that could not be named is on no list.                           *)
Refuses(c, name) ==
    \/ c.kind.private = "flagged" /\ c.announced
    \/ c.kind.private = "blocked" /\ name = "known"
    \/ ~c.announced
    \/ Canonical(c.kind) = "none"

-----------------------------------------------------------------------------
AtRest == /\ first = 0 /\ slept = 0 /\ delay = Start
          /\ at = 1 /\ got = {} /\ program = "none"
          /\ looked = 0 /\ why = "none"

Nothing == [id |-> 0, kind |-> CHOOSE k \in Kinds : TRUE, announced |-> FALSE, ready |-> {}]

Init ==
    /\ content = Nothing
    /\ seq = 0 /\ notes = 0
    /\ holder = "nobody"
    /\ owner = "pumps"
    /\ app = "idle"
    /\ pc = "idle"
    /\ AtRest
    /\ result = "none"
    /\ taken = {}
    /\ events = 0

(* The owner and the other programs.  Every update of the clipboard has its *)
(* sequence number and its notification.                                    *)

Update(new) ==
    /\ content' = new
    /\ seq' = seq + 1
    /\ notes' = notes + 1

Event == events < MaxEvents /\ events' = events + 1
Pumps == owner = "pumps" /\ app = "idle"
reading == <<pc, backoff, session, result, taken, ghosts>>

Copy(k) ==
    /\ holder = "nobody"
    /\ app = "idle"
    /\ content.id < MaxCopies
    /\ Update([id |-> content.id + 1, kind |-> k, announced |-> ~k.ole,
               ready |-> IF k.delayed THEN {} ELSE FormatsOf(k)])
    /\ owner' = "pumps"
    /\ app' = (IF k.ole THEN "second" ELSE "idle")
    /\ UNCHANGED <<holder, reading, events>>

SecondUpdate ==
    /\ app = "second"
    /\ holder = "nobody"
    /\ Update([content EXCEPT !.announced = TRUE])
    /\ app' = (IF content.kind.flushes THEN "flush" ELSE "idle")
    /\ UNCHANGED <<holder, owner, reading, events>>

Flush ==
    /\ app = "flush"
    /\ holder = "nobody"
    /\ Update([content EXCEPT !.ready = FormatsOf(content.kind)])
    /\ app' = "idle"
    /\ UNCHANGED <<holder, owner, reading, events>>

(* The owner that finds the clipboard open tries again a few times only.    *)
GivesUp ==
    /\ app # "idle"
    /\ holder = "other" \/ pc = "render"
    /\ app' = "idle"
    /\ UNCHANGED <<clipboard, holder, owner, reading, events>>

OwnerChanges ==
    /\ Event
    /\ \/ owner = "pumps" /\ owner' = "hung" /\ UNCHANGED app
       \/ owner = "hung" /\ owner' = "pumps" /\ UNCHANGED app
       \/ owner # "gone" /\ owner' = "gone" /\ app' = "idle"
    /\ UNCHANGED <<clipboard, holder, reading>>

OtherOpens ==
    /\ Event
    /\ holder = "nobody"
    /\ holder' = "other"
    /\ UNCHANGED <<clipboard, owner, app, reading>>

OtherCloses ==
    /\ holder = "other"
    /\ holder' = "nobody"
    /\ UNCHANGED <<clipboard, owner, app, events, reading>>

-----------------------------------------------------------------------------
(* capture_with_retry.                                                      *)

(* The handler returns, and closes the clipboard if it had it open.         *)
Done(outcome) ==
    /\ pc' = "idle"
    /\ result' = outcome
    /\ holder' = (IF holder = "reader" THEN "nobody" ELSE holder)
    /\ first' = 0 /\ slept' = 0 /\ delay' = Start
    /\ at' = 1 /\ got' = {} /\ program' = "none"
    /\ looked' = 0 /\ why' = "none"

(* wndproc, WM_CLIPBOARDUPDATE.                                             *)
Notified ==
    /\ pc = "idle"
    /\ notes > 0
    /\ notes' = notes - 1
    /\ pc' = "look"
    /\ first' = seq
    /\ UNCHANGED <<content, seq, holder, others, slept, delay, session, result,
                   taken, ghosts>>

\* Mutant of Fail: the attempts have no budget.
Fail_NoBudget(silent) ==
    pc' = "look" /\ UNCHANGED <<holder, backoff, session, result, ghosts>>

\* Mutant of Fail: the budget is compared before the delay is added.
Fail_PastTheCap(silent) ==
    \/ /\ slept <= CapTotal
       /\ pc' = "look"
       /\ slept' = slept + delay
       /\ delay' = 2 * delay
       /\ UNCHANGED <<holder, first, session, result, ghosts>>
    \/ slept > CapTotal /\ Done("exhausted")

(* A failed attempt: sleep and try again while the budget lasts; then, only *)
(* if the owner was silent to the end, one reading without the probe.       *)
Fail(silent) ==
    \/ /\ slept + delay <= CapTotal
       /\ pc' = "look"
       /\ slept' = slept + delay
       /\ delay' = 2 * delay
       /\ UNCHANGED <<holder, first, session, result, ghosts>>
    \/ /\ slept + delay > CapTotal
       /\ silent
       /\ pc' = "final"
       /\ UNCHANGED <<holder, backoff, session, result, ghosts>>
    \/ /\ slept + delay > CapTotal
       /\ ~silent
       /\ Done("exhausted")

(* try_capture_if_owner_ready: the formats are listed with the clipboard    *)
(* closed; when that fails nothing is known of the owner, and it is opened. *)
Look ==
    /\ pc = "look"
    /\ \/ OleBookkeepingOnly /\ Done("refused")
       \/ /\ ~OleBookkeepingOnly
          /\ pc' = (IF content.kind.ole THEN "probe" ELSE "open")
          /\ looked' = seq
          /\ why' = "known"
          /\ UNCHANGED <<holder, backoff, session, result>>
       \/ /\ pc' = "open"
          /\ looked' = seq
          /\ why' = "doubt"
          /\ UNCHANGED <<holder, backoff, session, result>>
    /\ UNCHANGED <<clipboard, others, taken>>

(* probe_owner: an answer, or no window left to ask.                        *)
ProbeAnswered ==
    /\ pc = "probe"
    /\ Pumps \/ owner = "gone"
    /\ why' = (IF owner = "gone" THEN "doubt" ELSE "known")
    /\ pc' = "open"
    /\ UNCHANGED <<clipboard, holder, others, backoff, session, result, taken,
                   looked>>

\* Mutant of Silence: any silent owner is taken for one that publishes anew.
Silence_AlwaysSuperseded == Done("superseded")

(* A silent owner: a change of the clipboard has its own notification and   *)
(* this one gives way to it.                                                *)
Silence == IF seq # first THEN Done("superseded") ELSE Fail(TRUE)

\* Mutant of ProbeUnanswered: the clipboard is opened without an answer.
ProbeUnanswered_OpenAnyway ==
    /\ pc = "probe"
    /\ owner # "gone"
    /\ pc' = "open"
    /\ UNCHANGED <<clipboard, holder, others, backoff, session, result, taken,
                   ghosts>>

(* An owner that pumps can also answer too late.                            *)
ProbeUnanswered ==
    /\ pc = "probe"
    /\ owner # "gone"
    /\ Silence
    /\ UNCHANGED <<clipboard, others, taken>>

(* try_capture: OpenClipboard, which fails while somebody has it open.      *)
Open ==
    /\ pc = "open"
    /\ IF holder = "nobody"
       THEN /\ holder' = "reader"
            /\ pc' = "screen"
            /\ UNCHANGED <<backoff, session, result, ghosts>>
       ELSE Fail(FALSE)
    /\ UNCHANGED <<clipboard, others, taken>>

FinalRead ==
    /\ pc = "final"
    /\ IF holder = "nobody"
       THEN /\ holder' = "reader"
            /\ pc' = "screen"
            /\ why' = "final"
            /\ UNCHANGED <<backoff, session, result, looked>>
       ELSE Done("exhausted")
    /\ UNCHANGED <<clipboard, others, taken>>

-----------------------------------------------------------------------------
(* capture_within_open_session: announce, screen, then handles and bytes.   *)

\* Mutant of Screen: the formats are copied before they are screened.
Screen_Later ==
    /\ pc = "screen"
    /\ program' \in SourceProgram
    /\ pc' = "acquire"
    /\ UNCHANGED <<clipboard, holder, others, backoff, at, got, result, taken,
                   ghosts>>

Screen ==
    /\ pc = "screen"
    /\ \E name \in SourceProgram :
          \/ Refuses(content, name) /\ Done("refused")
          \/ /\ ~Refuses(content, name)
             /\ program' = name
             /\ pc' = "acquire"
             /\ UNCHANGED <<holder, backoff, at, got, result, ghosts>>
    /\ UNCHANGED <<clipboard, others, taken>>

Here == content.kind.formats[at]

(* The next format, or the end: what was copied is the capture, if the      *)
(* canonical format is in it (copied_or_empty).                             *)
Advance(formats) ==
    IF at < Len(content.kind.formats)
    THEN /\ pc' = "acquire"
         /\ at' = at + 1
         /\ got' = formats
         /\ UNCHANGED <<holder, backoff, program, result, taken, ghosts>>
    ELSE IF Canonical(content.kind) \in formats
    THEN Done("taken") /\ taken' = taken \cup {content.id}
    ELSE Done("undelivered") /\ UNCHANGED taken

(* gate_size, for the canonical format; the others have no limit.           *)
Keep ==
    IF Here = Canonical(content.kind) /\ content.kind.big
    THEN Done("refused") /\ UNCHANGED taken
    ELSE Advance(got \cup {Here})

(* What has bytes is kept, or left out if it cannot be had or locked.       *)
KeepOrLeaveOut == Keep \/ Advance(got)

(* acquire_and_copy: one format after the other, in the order announced; a  *)
(* format without bytes is asked of its owner.                              *)
Acquire ==
    /\ pc = "acquire"
    /\ \/ Here \in content.ready /\ KeepOrLeaveOut
       \/ /\ Here \notin content.ready
          /\ pc' = "render"
          /\ UNCHANGED <<holder, backoff, session, result, taken, ghosts>>
    /\ UNCHANGED <<clipboard, others>>

(* The owner answers WM_RENDERFORMAT; rendering may count as an update.     *)
Rendered ==
    /\ pc = "render"
    /\ Pumps
    /\ KeepOrLeaveOut
    /\ content' = [content EXCEPT !.ready = @ \cup {Here}]
    /\ \/ seq' = seq + 1 /\ notes' = notes + 1
       \/ UNCHANGED <<seq, notes>>
    /\ UNCHANGED others

(* The owner answers without the bytes, or the system gives up on it: the   *)
(* format is left out.                                                      *)
NotRendered ==
    /\ pc = "render"
    /\ Advance(got)
    /\ UNCHANGED <<clipboard, others>>

Next ==
    \/ \E k \in Kinds : Copy(k)
    \/ SecondUpdate
    \/ Flush
    \/ GivesUp
    \/ OwnerChanges
    \/ OtherOpens
    \/ OtherCloses
    \/ Notified
    \/ Look
    \/ ProbeAnswered
    \/ ProbeUnanswered
    \/ Open
    \/ FinalRead
    \/ Screen
    \/ Acquire
    \/ Rendered
    \/ NotRendered

(* The handler runs to its end; a render is answered or given up; nothing   *)
(* is asked of the owner, nor of the other programs.                        *)
Handler ==
    \/ Notified \/ Look \/ ProbeAnswered \/ ProbeUnanswered \/ Open \/ FinalRead
    \/ Screen \/ Acquire \/ Rendered \/ NotRendered

Spec == Init /\ [][Next]_vars /\ WF_vars(Handler)

-----------------------------------------------------------------------------
(* Properties.                                                              *)

(* The type invariant; and the handler has the clipboard open exactly in    *)
(* its session, never while it waits for the next attempt.                  *)
TypeOK ==
    /\ content \in [id : 0 .. MaxCopies, kind : Kinds, announced : BOOLEAN,
                    ready : SUBSET Format]
    /\ content.ready \subseteq FormatsOf(content.kind)
    /\ {seq, notes, first, looked, delay} \subseteq Nat
    /\ slept \in 0 .. CapTotal
    /\ holder \in {"nobody", "reader", "other"}
    /\ owner \in {"pumps", "hung", "gone"}
    /\ app \in {"idle", "second", "flush"}
    /\ pc \in {"idle", "look", "probe", "open", "final", "screen", "acquire", "render"}
    /\ at \in Nat /\ got \subseteq FormatsOf(content.kind)
    /\ result \in {"none", "refused", "superseded", "exhausted", "undelivered", "taken"}
    /\ taken \subseteq Id
    /\ program \in {"none", "known", "unknown"}
    /\ why \in {"none", "known", "doubt", "final"}
    /\ events \in 0 .. MaxEvents
    /\ pc = "idle" => AtRest
    /\ holder = "reader" <=> pc \in {"screen", "acquire", "render"}
    /\ program # "none" <=> pc \in {"acquire", "render"}

(* An owner between two of its updates is not kept from the next one by a   *)
(* request it cannot answer, unless it was silent for the whole budget, the *)
(* probe could say nothing, or it began to publish after it was looked at.  *)
NeverInTheWay ==
    pc = "render" /\ app # "idle" => why \in {"doubt", "final"} \/ seq # looked

(* A notification that gave way to a newer one, or that found only the      *)
(* bookkeeping of OLE, costs nothing: when nothing more is to be handled    *)
(* the copy in the clipboard was taken, is one to refuse, or the last       *)
(* reading of it was kept out or not given the bytes.                       *)
NothingMissed ==
    pc = "idle" /\ notes = 0 /\ app = "idle" /\ content.id # 0 =>
        \/ content.id \in taken
        \/ ~content.announced \/ content.kind.private # "no" \/ content.kind.big
        \/ Canonical(content.kind) = "none"
        \/ result \in {"exhausted", "undelivered"}

(* No byte is read of a copy flagged as private, and its owner is asked for *)
(* none; nor of one of a blocked program, unless the session could not name *)
(* the program: such a copy is read as any other.                           *)
PrivateStaysUnread ==
    pc = "render" \/ got # {} =>
        /\ content.kind.private # "flagged"
        /\ content.kind.private = "blocked" => program = "unknown"

(* Every notification is dealt with, whatever the owner does.               *)
AllHandled == notes > 0 ~> notes = 0 /\ pc = "idle"
=============================================================================
