--------------------------- MODULE ClipboardHistory ---------------------------
(***************************************************************************)
(* The way of a clip: another program copies, the listener is notified and *)
(* reads the clipboard, the capture waits in the queue, the worker screens *)
(* and stores it and cuts the history to its limits, and the History       *)
(* window shows, pins, deletes and pastes what is stored.                  *)
(*                                                                         *)
(* Two threads act here.  The UI thread runs one handler at a time: the    *)
(* listener's notifications, the tray, the Settings and the History window *)
(* are all windows of it.  A request for a pin or a deletion blocks it on  *)
(* a channel until the worker answers.  The worker takes the queue in      *)
(* order; each of its transactions is a step.  Other programs use the      *)
(* clipboard at any moment, and the wall clock may be set back.            *)
(***************************************************************************)
EXTENDS Integers, Sequences, FiniteSets, FiniteSetsExt

CONSTANTS
    Content,            \* what may be copied
    Secret,             \* the contents that look like a secret
    Nothing,            \* an empty clipboard
    Limits,             \* the limits the Settings offer
    Budget,             \* captures that fit the queue; each counts for one
    DedupWindow,        \* DEDUP_WINDOW_MS
    MaxTime,            \* bound: the wall clock
    MaxNotes,           \* bound: notifications not handled
    MaxCopies,          \* bound: copies by other programs
    MaxRequests,        \* bound: requests and changes of settings
    MaxFaults           \* bound: operations that fail

ASSUME HistoryAssumption ==
    /\ Secret \subseteq Content
    /\ Nothing \notin Content
    /\ Limits # {}
    /\ Limits \subseteq [items : Nat \ {0}, pins : Nat, keep : Nat]
    /\ Budget \in Nat /\ DedupWindow \in Nat /\ MaxTime \in Nat
    /\ MaxNotes \in Nat /\ MaxCopies \in Nat
    /\ MaxRequests \in Nat /\ MaxFaults \in Nat

VARIABLES
    now,                \* the wall clock
    clipboard,          \* what the clipboard holds
    notes,              \* WM_CLIPBOARDUPDATE messages not handled yet
    selfWrite,          \* SelfWriteFilter::pending
    guard,              \* RecentCaptureGuard::last_accepted
    balloon,            \* the balloon about a discarded secret is shown
    shared,             \* the configuration the Settings and listener share
    queue,              \* the items the worker has not taken
    own,                \* the worker's copy of the configuration
    wstep, wnow,        \* the worker's next step, and the time of its purge
    clips, nextId,      \* the table of clips and its AUTOINCREMENT
    ui,                 \* what the UI thread is in the middle of
    asked, reply,       \* the row acted on, and the worker's answer
    copied,             \* the formats a paste has read from the database
    rows,               \* the list the window shows, read some time ago
    says,               \* the last message about a deletion
    copies, requests, faults,       \* counters for the bounds
    writer,             \* ghost: who wrote the clipboard last, and whether the
                        \* listener has come for it
    gone,               \* ghost: contents deleted, with no notification of a
                        \* copy of theirs left, and not copied since
    lostControl,        \* ghost: the queue has evicted a change of settings
    leaked              \* ghost: secrets stored in spite of the detection

screen == <<clipboard, notes, selfWrite, guard, writer>>
config == <<shared, own>>
worker == <<wstep, wnow>>
store == <<clips, nextId>>
window == <<ui, asked, reply, copied, rows, says>>
counters == <<copies, requests, faults>>
ghosts == <<gone, lostControl, leaked>>
vars == <<now, screen, balloon, config, queue, worker, store, window,
          counters, ghosts>>

-----------------------------------------------------------------------------
Clip == [id : Nat, content : Content, last : 0 .. MaxTime, pinned : BOOLEAN]

Settings == [limits : Limits, secret : BOOLEAN]

NoGuard == [content |-> Nothing, at |-> 0]

NoRow == [id |-> 0, content |-> Nothing, pinned |-> FALSE]

\* WorkItem.  "screened" is a ghost: the detection was on when it was queued.
Item ==
    [kind : {"capture", "recover"}, content : Content, at : 0 .. MaxTime,
     screened : BOOLEAN]
    \cup [kind : {"limits"}, at : 0 .. MaxTime, limits : Limits]
    \cup [kind : {"filter"}, secret : BOOLEAN]
    \cup [kind : {"pin"}, id : Nat, pin : BOOLEAN]
    \cup [kind : {"delete"}, id : Nat]
    \cup [kind : {"delete_all"}, keep : BOOLEAN]

CaptureKinds == {"capture", "recover"}
RequestKinds == {"pin", "delete", "delete_all"}
SettingKinds == {"limits", "filter"}

Init ==
    /\ now = 0
    /\ clipboard = Nothing /\ notes = 0 /\ writer = "nobody"
    /\ selfWrite = FALSE /\ guard = NoGuard /\ balloon = FALSE
    /\ \E s \in Settings : shared = s /\ own = s
    /\ queue = <<>>
    /\ wstep = "pop" /\ wnow = 0
    /\ clips = {} /\ nextId = 1
    /\ ui = "free" /\ asked = NoRow /\ reply = "none" /\ copied = Nothing
    /\ rows = {} /\ says = "none"
    /\ copies = 0 /\ requests = 0 /\ faults = 0
    /\ gone = {} /\ lostControl = FALSE /\ leaked = {}

Fault ==
    /\ faults < MaxFaults
    /\ faults' = faults + 1

Request ==
    /\ requests < MaxRequests
    /\ requests' = requests + 1

-----------------------------------------------------------------------------
(* The queue.  A push throws away the oldest items until the new one fits;  *)
(* only captures count.                                                     *)

Weight(x) == IF x.kind \in CaptureKinds THEN 1 ELSE 0

Bytes(q) == Cardinality({i \in DOMAIN q : Weight(q[i]) = 1})

From(q, k) == SubSeq(q, k + 1, Len(q))

Fits(x, k) ==
    k = Len(queue) \/ Bytes(From(queue, k)) + Weight(x) <= Budget

\* The oldest k items go.
Evicts(x, k) == Fits(x, k) /\ \A j \in 0 .. k - 1 : ~Fits(x, j)

LosesControl(k) ==
    lostControl' = (\/ lostControl
                    \/ \E i \in 1 .. k : queue[i].kind \in SettingKinds)

\* Mutant of Push: a request overtakes the captures.
Push_RequestFirst(x) ==
    \E k \in 0 .. Len(queue) :
        /\ Evicts(x, k)
        /\ queue' = IF x.kind \in RequestKinds
                    THEN <<x>> \o From(queue, k)
                    ELSE Append(From(queue, k), x)
        /\ LosesControl(k)

Push(x) ==
    \E k \in 0 .. Len(queue) :
        /\ Evicts(x, k)
        /\ queue' = Append(From(queue, k), x)
        /\ LosesControl(k)

-----------------------------------------------------------------------------
(* Other programs and the clock.                                            *)

\* Some programs make two updates of one copy.
ForeignCopy(c) ==
    /\ copies < MaxCopies
    /\ copies' = copies + 1
    /\ clipboard' = c
    /\ writer' = "other"
    /\ gone' = gone \ {c}
    /\ \E n \in {1, 2} : notes + n <= MaxNotes /\ notes' = notes + n
    /\ UNCHANGED <<now, selfWrite, guard, balloon, config, queue, worker,
                   store, window, requests, faults, lostControl, leaked>>

\* Time passes, or the user or a time server sets the clock back.
SetClock(t) ==
    /\ t # now
    /\ now' = t
    /\ UNCHANGED <<screen, balloon, config, queue, worker, store, window,
                   counters, ghosts>>

-----------------------------------------------------------------------------
(* The listener.                                                            *)

CaptureItem(kind, c) ==
    [kind |-> kind, content |-> c, at |-> now, screened |-> shared.secret]

\* The difference of the times saturates at zero.
IsDuplicate(c) ==
    guard.content = c /\ now - guard.at < DedupWindow

CaptureAndEnqueue ==
    \/ /\ clipboard = Nothing \/ IsDuplicate(clipboard)
       /\ UNCHANGED <<guard, queue, lostControl, faults>>
    \/ /\ clipboard # Nothing
       /\ Fault
       /\ UNCHANGED <<guard, queue, lostControl>>
    \/ /\ clipboard # Nothing /\ ~IsDuplicate(clipboard)
       /\ guard' = [content |-> clipboard, at |-> now]
       /\ Push(CaptureItem("capture", clipboard))
       /\ UNCHANGED faults

Seen == writer' = IF writer = "other" THEN "seen" ELSE writer

\* WM_CLIPBOARDUPDATE: the first one after a paste is the paste's own.  A
\* fault is a clipboard that stays busy through all the attempts.
Notified ==
    /\ ui = "free" /\ notes > 0
    /\ notes' = notes - 1
    /\ selfWrite' = FALSE
    /\ IF selfWrite
       THEN UNCHANGED <<guard, queue, writer, lostControl, faults>>
       ELSE CaptureAndEnqueue /\ Seen
    /\ UNCHANGED <<now, clipboard, balloon, config, worker, store, window,
                   copies, requests, gone, leaked>>

\* A click on the balloon captures what the clipboard holds by now and lets
\* it past the detection.
RecoverOnClick ==
    /\ ui = "free" /\ balloon
    /\ balloon' = FALSE
    /\ \/ /\ clipboard = Nothing
          /\ UNCHANGED <<queue, gone, lostControl, faults>>
       \/ /\ Fault
          /\ UNCHANGED <<queue, gone, lostControl>>
       \/ /\ clipboard # Nothing
          /\ Push(CaptureItem("recover", clipboard))
          /\ gone' = gone \ {clipboard}
          /\ UNCHANGED faults
    /\ UNCHANGED <<now, screen, config, worker, store, window, copies,
                   requests, leaked>>

-----------------------------------------------------------------------------
(* The worker.                                                              *)

First(kind) == wstep = "pop" /\ queue # <<>> /\ Head(queue).kind = kind

Took == queue' = Tail(queue)

\* Mutant of Upsert: ids of deleted clips are given out again.
Upsert_ReuseId(c, t) ==
    LET known == {k \in clips : k.content = c}
        id == IF clips = {} THEN 1 ELSE Max({k.id : k \in clips}) + 1
    IN  IF known # {}
        THEN /\ clips' = (clips \ known)
                         \cup {[k EXCEPT !.last = t] : k \in known}
             /\ UNCHANGED nextId
        ELSE /\ clips' = clips \cup {[id |-> id, content |-> c,
                                      last |-> t, pinned |-> FALSE]}
             /\ nextId' = nextId + 1

\* upsert: a known content is moved to the front in its own row.
Upsert(c, t) ==
    LET known == {k \in clips : k.content = c}
    IN  IF known # {}
        THEN /\ clips' = (clips \ known)
                         \cup {[k EXCEPT !.last = t] : k \in known}
             /\ UNCHANGED nextId
        ELSE /\ clips' = clips \cup {[id |-> nextId, content |-> c,
                                      last |-> t, pinned |-> FALSE]}
             /\ nextId' = nextId + 1

Rejected(x) == x.kind = "capture" /\ own.secret /\ x.content \in Secret

\* process_one: screened, then stored and followed by the cuts; a write that
\* fails is only logged.
ProcessOne ==
    /\ First("capture") \/ First("recover")
    /\ LET x == Head(queue)
       IN  \/ /\ Rejected(x)
              /\ balloon' = TRUE
              /\ UNCHANGED <<worker, store, faults, leaked>>
           \/ /\ ~Rejected(x)
              /\ Upsert(x.content, x.at)
              /\ wstep' = "age" /\ wnow' = x.at
              /\ leaked' = IF x.kind = "capture" /\ x.screened
                              /\ x.content \in Secret
                           THEN leaked \cup {x.content} ELSE leaked
              /\ UNCHANGED <<balloon, faults>>
           \/ /\ ~Rejected(x)
              /\ Fault
              /\ UNCHANGED <<balloon, worker, store, leaked>>
    /\ Took
    /\ UNCHANGED <<now, screen, config, window, copies, requests, gone,
                   lostControl>>

Cutoff == IF wnow < own.limits.keep THEN 0 ELSE wnow - own.limits.keep

\* purge_older_than; the cut by count comes whether or not it succeeds.
PurgeOlderThan ==
    /\ wstep = "age"
    /\ wstep' = "count"
    /\ \/ /\ clips' = {k \in clips : k.pinned \/ k.last >= Cutoff}
          /\ UNCHANGED faults
       \/ Fault /\ UNCHANGED clips
    /\ UNCHANGED <<now, screen, balloon, config, queue, wnow, nextId,
                   window, copies, requests, ghosts>>

Newer(k, l) == k.last > l.last \/ (k.last = l.last /\ k.id > l.id)

Unpinned == {k \in clips : ~k.pinned}

Pinned == {k \in clips : k.pinned}

OverCount(n) ==
    {k \in Unpinned : Cardinality({l \in Unpinned : Newer(l, k)}) >= n}

\* purge_over_count.
PurgeOverCount ==
    /\ wstep = "count"
    /\ wstep' = "pop" /\ wnow' = 0
    /\ \/ /\ clips' = clips \ OverCount(own.limits.items)
          /\ UNCHANGED faults
       \/ Fault /\ UNCHANGED clips
    /\ UNCHANGED <<now, screen, balloon, config, queue, nextId, window, copies,
                   requests, ghosts>>

\* Mutant of ApplyLimits: one clip less than the limit.
ApplyLimits_OffByOne ==
    /\ First("limits")
    /\ own' = [own EXCEPT !.limits = [Head(queue).limits EXCEPT !.items = @ - 1]]
    /\ wstep' = "age" /\ wnow' = Head(queue).at
    /\ Took
    /\ UNCHANGED <<now, screen, balloon, shared, store, window, counters,
                   ghosts>>

\* WorkItem::ApplySettings: the new limits, and the cuts at once.
ApplyLimits ==
    /\ First("limits")
    /\ own' = [own EXCEPT !.limits = Head(queue).limits]
    /\ wstep' = "age" /\ wnow' = Head(queue).at
    /\ Took
    /\ UNCHANGED <<now, screen, balloon, shared, store, window, counters,
                   ghosts>>

\* WorkItem::SetSecretDetection.
ApplyFilter ==
    /\ First("filter")
    /\ own' = [own EXCEPT !.secret = Head(queue).secret]
    /\ Took
    /\ UNCHANGED <<now, screen, balloon, shared, worker, store, window,
                   counters, ghosts>>

Answer(r) ==
    /\ reply' = r
    /\ UNCHANGED <<ui, asked, copied, rows, says>>

ById(i) == {k \in clips : k.id = i}

\* What set_pinned decides for a clip and the pin wanted.
PinOutcome(x) ==
    IF ById(x.id) = {} THEN "not_found"
    ELSE IF ~x.pin \/ ById(x.id) \subseteq Pinned THEN "applied"
    ELSE IF Cardinality(Pinned) >= own.limits.pins THEN "cap_reached"
    ELSE "applied"

\* Mutant of SetPinned: no answer for a clip that is gone.
SetPinned_Silent ==
    /\ First("pin")
    /\ LET x == Head(queue)
           hit == ById(x.id)
       IN  /\ Answer(IF hit = {} THEN "none" ELSE PinOutcome(x))
           /\ IF PinOutcome(x) = "applied"
              THEN clips' = (clips \ hit)
                            \cup {[k EXCEPT !.pinned = x.pin] : k \in hit}
              ELSE UNCHANGED clips
           /\ UNCHANGED faults
    /\ Took
    /\ UNCHANGED <<now, screen, balloon, config, worker, nextId, copies,
                   requests, ghosts>>

SetPinned ==
    /\ First("pin")
    /\ LET x == Head(queue)
           hit == ById(x.id)
       IN  \/ /\ Answer(PinOutcome(x))
              /\ IF PinOutcome(x) = "applied"
                 THEN clips' = (clips \ hit)
                               \cup {[k EXCEPT !.pinned = x.pin] : k \in hit}
                 ELSE UNCHANGED clips
              /\ UNCHANGED faults
           \/ Fault /\ Answer("failed") /\ UNCHANGED clips
    /\ Took
    /\ UNCHANGED <<now, screen, balloon, config, worker, nextId, copies,
                   requests, ghosts>>

ContentsOf(s) == {k.content : k \in s}

\* What is on the clipboard while a notification of it is left may be captured
\* once more, if by then it is no duplicate of the last capture.
MayComeAgain == IF notes > 0 THEN {clipboard} ELSE {}

\* The DELETE commits before the checkpoint: an answer may say it failed
\* although the clips are gone.
Delete(doomed) ==
    \/ /\ Answer("applied")
       /\ clips' = clips \ doomed
       /\ gone' = gone \cup (ContentsOf(doomed) \ MayComeAgain)
       /\ UNCHANGED faults
    \/ /\ Answer("failed") /\ Fault
       /\ clips' \in {clips, clips \ doomed}
       /\ UNCHANGED gone

DeleteOne ==
    /\ First("delete")
    /\ Delete(ById(Head(queue).id))
    /\ Took
    /\ UNCHANGED <<now, screen, balloon, config, worker, nextId,
                   copies, requests, lostControl, leaked>>

DeleteAll ==
    /\ First("delete_all")
    /\ Delete(IF Head(queue).keep THEN Unpinned ELSE clips)
    /\ Took
    /\ UNCHANGED <<now, screen, balloon, config, worker, nextId,
                   copies, requests, lostControl, leaked>>

-----------------------------------------------------------------------------
(* The Settings (only the part that meets the worker): the configuration    *)
(* shared with the listener changes at once, the worker's by the queue.     *)

\* Mutant of ChangeFilter: the detection reaches the worker when it restarts.
ChangeFilter_SharedOnly ==
    /\ ui = "free" /\ Request
    /\ shared' = [shared EXCEPT !.secret = ~@]
    /\ UNCHANGED <<now, screen, balloon, own, queue, worker, store, window,
                   copies, faults, ghosts>>

ChangeFilter ==
    /\ ui = "free" /\ Request
    /\ shared' = [shared EXCEPT !.secret = ~@]
    /\ Push([kind |-> "filter", secret |-> ~shared.secret])
    /\ UNCHANGED <<now, screen, balloon, own, worker, store, window, copies,
                   faults, gone, leaked>>

ChangeLimits(l) ==
    /\ ui = "free" /\ l # shared.limits /\ Request
    /\ shared' = [shared EXCEPT !.limits = l]
    /\ Push([kind |-> "limits", at |-> now, limits |-> l])
    /\ UNCHANGED <<now, screen, balloon, own, worker, store, window, copies,
                   faults, gone, leaked>>

-----------------------------------------------------------------------------
(* The History window.                                                      *)

RowOf(k) == [id |-> k.id, content |-> k.content, pinned |-> k.pinned]

RowsNow == {RowOf(k) : k \in clips}

OpenWindow ==
    /\ ui = "free"
    /\ rows' = RowsNow
    /\ says' = "none"
    /\ UNCHANGED <<now, screen, balloon, config, queue, worker, store, ui,
                   asked, reply, copied, counters, ghosts>>

\* Push a request about a row and block on its channel.
Ask(r, x) ==
    /\ ui = "free" /\ Request
    /\ ui' = x.kind /\ asked' = r
    /\ Push(x)
    /\ UNCHANGED <<now, screen, balloon, config, worker, store, reply, copied,
                   rows, says, copies, faults, gone, leaked>>

AskPin(r) == Ask(r, [kind |-> "pin", id |-> r.id, pin |-> ~r.pinned])

AskDelete(r) == Ask(r, [kind |-> "delete", id |-> r.id])

\* Keeping the pinned clips is offered when the database has some.
AskDeleteAll(keep) ==
    /\ keep => Pinned # {}
    /\ Ask(NoRow, [kind |-> "delete_all", keep |-> keep])

Answered(kind) ==
    /\ ui = kind /\ reply # "none"
    /\ ui' = "free" /\ asked' = NoRow /\ reply' = "none"
    /\ UNCHANGED <<now, screen, balloon, config, queue, worker, store, copied,
                   counters, ghosts>>

\* A pin shows in its row; only a row that is gone makes the list be read.
PinAnswered ==
    /\ rows' = CASE reply = "applied" ->
                       (rows \ {asked}) \cup {[asked EXCEPT !.pinned = ~@]}
                 [] reply = "not_found" -> RowsNow
                 [] OTHER -> rows
    /\ UNCHANGED says
    /\ Answered("pin")

\* After a deletion of one clip the list is read, whatever the answer.
DeleteAnswered ==
    /\ rows' = RowsNow
    /\ says' = IF reply = "failed" THEN "not_confirmed" ELSE "none"
    /\ Answered("delete")

\* After a deletion of all that failed it says that nothing was removed.
DeleteAllAnswered ==
    /\ \/ reply = "applied" /\ rows' = RowsNow /\ says' = "none"
       \/ reply = "failed" /\ UNCHANGED rows /\ says' = "nothing_removed"
    /\ Answered("delete_all")

\* confirm, first statement of get_full: a clip that is gone ends the paste.
ChooseRow(r) ==
    /\ ui = "free" /\ Request
    /\ ById(r.id) # {}
    /\ ui' = "reading" /\ asked' = r
    /\ UNCHANGED <<now, screen, balloon, config, queue, worker, store, reply,
                   copied, rows, says, copies, faults, ghosts>>

\* Second statement of get_full, on its own: the formats, if there still are
\* any.  Then write_all announces its own write to the listener.
ReadFormats ==
    /\ ui = "reading"
    /\ ui' = "pasting"
    /\ copied' = IF ById(asked.id) = {} THEN Nothing
                 ELSE CHOOSE c \in ContentsOf(ById(asked.id)) : TRUE
    /\ selfWrite' = TRUE
    /\ UNCHANGED <<now, clipboard, notes, guard, writer, balloon, config,
                   queue, worker, store, asked, reply, rows, says, counters,
                   ghosts>>

\* Mutant of WriteClipboard: a write that fails stays announced.
WriteClipboard_StaysPending ==
    /\ ui = "pasting"
    /\ ui' = "free" /\ asked' = NoRow /\ copied' = Nothing
    /\ \/ /\ clipboard' = copied /\ writer' = "paste" /\ notes' = notes + 1
          /\ UNCHANGED <<selfWrite, faults>>
       \/ /\ Fault
          /\ UNCHANGED <<clipboard, writer, notes, selfWrite>>
    /\ UNCHANGED <<now, guard, balloon, config, queue, worker, store, reply,
                   rows, says, copies, requests, ghosts>>

\* The clipboard is written, or stays busy, or is left empty by a format that
\* cannot be set.  Ctrl+V goes to the program in front in each case.
WriteClipboard ==
    /\ ui = "pasting"
    /\ ui' = "free" /\ asked' = NoRow /\ copied' = Nothing
    /\ \/ /\ clipboard' = copied /\ writer' = "paste" /\ notes' = notes + 1
          /\ UNCHANGED <<selfWrite, faults>>
       \/ /\ Fault
          /\ selfWrite' = FALSE
          /\ UNCHANGED <<clipboard, writer, notes>>
       \/ /\ Fault
          /\ selfWrite' = FALSE
          /\ clipboard' = Nothing /\ writer' = "paste" /\ notes' = notes + 1
    /\ UNCHANGED <<now, guard, balloon, config, queue, worker, store, reply,
                   rows, says, copies, requests, ghosts>>

-----------------------------------------------------------------------------
Others ==
    \/ \E c \in Content : ForeignCopy(c)
    \/ \E t \in 0 .. MaxTime : SetClock(t)

Worker ==
    \/ ProcessOne \/ PurgeOlderThan \/ PurgeOverCount
    \/ ApplyLimits \/ ApplyFilter
    \/ SetPinned \/ DeleteOne \/ DeleteAll

\* What the user starts.
User ==
    \/ RecoverOnClick \/ ChangeFilter
    \/ \E l \in Limits : ChangeLimits(l)
    \/ OpenWindow
    \/ \E r \in rows : AskPin(r) \/ AskDelete(r) \/ ChooseRow(r)
    \/ \E keep \in BOOLEAN : AskDeleteAll(keep)

\* What the UI thread goes on with by itself.
Handlers ==
    \/ Notified
    \/ PinAnswered \/ DeleteAnswered \/ DeleteAllAnswered
    \/ ReadFormats \/ WriteClipboard

Next == Others \/ Worker \/ User \/ Handlers

(* The worker takes what is in the queue and a handler that was started     *)
(* ends.  Other programs and the user owe nothing.                          *)
Fairness ==
    /\ WF_vars(Worker)
    /\ WF_vars(ui # "free" /\ Handlers)

Spec == Init /\ [][Next]_vars

FairSpec == Spec /\ Fairness

-----------------------------------------------------------------------------
(* Properties.                                                              *)

\* Every variable keeps its type.
TypeOK ==
    /\ now \in 0 .. MaxTime /\ clipboard \in Content \cup {Nothing}
    /\ notes \in Nat /\ writer \in {"nobody", "other", "seen", "paste"}
    /\ selfWrite \in BOOLEAN
    /\ guard \in [content : Content \cup {Nothing}, at : 0 .. MaxTime]
    /\ balloon \in BOOLEAN
    /\ shared \in Settings /\ own \in Settings
    /\ queue \in Seq(Item)
    /\ wstep \in {"pop", "age", "count"} /\ wnow \in 0 .. MaxTime
    /\ clips \in SUBSET Clip /\ nextId \in Nat
    /\ ui \in {"free", "reading", "pasting"} \cup RequestKinds
    /\ asked \in [id : Nat, content : Content \cup {Nothing},
                  pinned : BOOLEAN]
    /\ reply \in {"none", "applied", "cap_reached", "not_found", "failed"}
    /\ copied \in Content \cup {Nothing}
    /\ rows \in SUBSET [id : Nat, content : Content, pinned : BOOLEAN]
    /\ says \in {"none", "not_confirmed", "nothing_removed"}
    /\ copies \in 0 .. MaxCopies /\ requests \in 0 .. MaxRequests
    /\ faults \in 0 .. MaxFaults
    /\ gone \in SUBSET Content /\ lostControl \in BOOLEAN
    /\ leaked \in SUBSET Content

\* While another program's copy is on the clipboard and the listener has not
\* come for it, a notification is left that no paste of ours will swallow:
\* the one flag of the SelfWriteFilter never hides a copy that stays.
NoCopyMissed ==
    ui = "free" /\ writer = "other" => notes > (IF selfWrite THEN 1 ELSE 0)

\* A content whose deletion was confirmed to the user comes back only when a
\* program copies it again or the balloon recovers it: no capture of it is on
\* its way in the queue, and no paste or late notification brings it back.  Out
\* of the promise is a content that was still on the clipboard with a
\* notification to come when it was deleted: past the window of the duplicates
\* that notification stores it again (capture_and_enqueue in listener.rs asks
\* only the guard).
DeletedStaysDeleted == ContentsOf(clips) \cap gone = {}

\* However old the list on the screen is, a row never stands for another clip
\* than the one it shows: an id is not given out twice.
RowsNeverMislead ==
    \A r \in rows \cup {asked}, k \in clips :
        r.id = k.id => r.content = k.content

\* Once the detection is on for the listener, a secret copied from then on is
\* never stored on its own, as long as the queue has not evicted a change of
\* settings (SetSecretDetection travels in the same queue as the captures).
SecretsStayOut == ~lostControl => leaked = {}

\* The window does not stay blocked.
AnswerComes == ui \in RequestKinds ~> ui = "free"

\* A paste gives the program in front the clip that was chosen (README.md),
\* whatever happens to the clip and to the clipboard in between.
PasteGivesTheItem ==
    [][ui = "pasting" /\ ui' = "free" => clipboard' = asked.content]_vars

=============================================================================
