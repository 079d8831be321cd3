-------------------------- MODULE DatabaseProtection --------------------------
(***************************************************************************)
(* The files of the history database when the optional protection by the   *)
(* Windows account (DPAPI) can be switched on and off while the program    *)
(* runs.                                                                   *)
(*                                                                         *)
(* With the protection off, duplicata.db ("real") is a plain SQLite file   *)
(* and the worker keeps its connection on it.  With the protection on,     *)
(* "real" is a DPAPI blob and the session works on duplicata.work.db       *)
(* ("work"), a plain copy that is sealed back into "real" when the program *)
(* exits, or at the next start when it could not.  Every rewrite goes      *)
(* through duplicata.db.tmp-crypto ("tmp") and a rename.                   *)
(*                                                                         *)
(* One thread owns the files at a time: the main thread during startup and *)
(* shutdown, the worker in between.  Its position is "step".  The UI       *)
(* thread runs beside the worker: it asks for a switch of the protection   *)
(* and later receives its result.  A crash (or the end of the Windows      *)
(* session) may come between any two steps, and a file operation may fail. *)
(***************************************************************************)
EXTENDS Naturals

CONSTANTS
    Clip,               \* the clips that may be captured
    MaxCrashes,         \* bound: crashes and session ends in a behaviour
    MaxFaults           \* bound: file operations that fail in a behaviour

ASSUME ProtectionAssumption ==
    /\ MaxCrashes \in Nat
    /\ MaxFaults \in Nat

VARIABLES
    real, work, tmp,    \* the three files
    realWal, workWal,   \* clips committed to a file's -wal and not yet in it
    conn,               \* what the worker's connection is on
    step,               \* next step of the thread that owns the files
    purpose,            \* why the work copy is being resealed
    attempts,           \* failed attempts to rebuild the work copy
    reopen, outcome,    \* file a switch reopens, and the result it reports
    toggle,             \* the switch asked for, as the History window sees it
    shown,              \* Config::encryption_enabled, what the Settings show
    banner,             \* the error the History window shows
    spoiled,            \* "failed": a switch of this session failed,
                        \* "insisted": and the user asked for another
    phase,              \* where run() is: creating the listener, the windows
                        \* and the tray, in the message loop, after it, or
                        \* giving up the start
    exit,               \* how the last session ended: run() returned 0, run()
                        \* returned 1, or the process was gone
    stored,             \* every clip whose transaction was committed
    crashes, faults     \* counters for the bounds

files == <<real, work, tmp, realWal, workWal>>
job == <<purpose, attempts, reopen, outcome>>
ui == <<toggle, shown, banner, spoiled, phase>>
vars == <<files, conn, step, job, ui, exit, stored, crashes, faults>>

-----------------------------------------------------------------------------
(* Files.  A file holds clips under some number of DPAPI layers; SQLite can *)
(* open it when there is none.  A blank file has no byte yet, and the probe *)
(* for the SQLite header takes it for a blob.                               *)

File == [kind : {"absent", "blank", "db"}, layers : Nat, clips : SUBSET Clip]

Absent == [kind |-> "absent", layers |-> 0, clips |-> {}]

Present(f) == f.kind # "absent"

Seal(f) == [f EXCEPT !.layers = @ + 1]

Unseal(f) == [f EXCEPT !.layers = @ - 1]

IsBlob(f) == f.layers > 0 \/ f.kind = "blank"

Opens(f) == f.layers = 0

WithWal(f, wal) == [f EXCEPT !.clips = @ \cup wal]

\* An absent file has no layer and no clip, and is created without any.
Create(f) == [f EXCEPT !.kind = "blank"]

WithSchema(f) == [f EXCEPT !.kind = "db"]

\* SQLite opens the file a switch or the startup has chosen.
OpenTarget ==
    \/ /\ reopen = "real" /\ Present(real) /\ Opens(real)
       /\ real' = WithSchema(real) /\ UNCHANGED work
    \/ /\ reopen = "work" /\ Present(work) /\ Opens(work)
       /\ work' = WithSchema(work) /\ UNCHANGED real

TargetRefused ==
    \/ reopen = "real" /\ ~Opens(real)
    \/ reopen = "work" /\ ~Opens(work)

\* A file operation fails.
Fault ==
    /\ faults < MaxFaults
    /\ faults' = faults + 1

RunSteps == {"idle", "purge"}
SwitchSteps == {"toggle_close", "protect_write", "protect_rename",
                "unprotect_write", "unprotect_rename", "promote", "reopen"}
ResealSteps == {"reseal_check", "reseal_checkpoint", "reseal_write",
                "reseal_rename", "reseal_remove"}
StartSteps == {"start_cleanup", "start_probe", "start_unseal_write",
               "start_unseal_rename", "start_open"}

\* The process is gone; only the files remain.
PowerOff(how) ==
    /\ step' = "off"
    /\ conn' = "none"
    /\ exit' = how
    /\ toggle' = "none"
    /\ shown' = FALSE
    /\ banner' = "none"
    /\ spoiled' = IF spoiled = "insisted" THEN spoiled ELSE "no"
    /\ phase' = "starting"

\* The owning thread moves on; nothing of the UI changes with it.
Goto(s) ==
    /\ step' = s
    /\ UNCHANGED <<conn, ui, exit, stored, crashes>>

-----------------------------------------------------------------------------
Init ==
    /\ real = Absent /\ work = Absent /\ tmp = Absent
    /\ realWal = {} /\ workWal = {}
    /\ conn = "none"
    /\ step = "off"
    /\ purpose = "startup" /\ attempts = 0
    /\ reopen = "real" /\ outcome = "ok"
    /\ toggle = "none" /\ shown = FALSE /\ banner = "none"
    /\ spoiled = "no" /\ phase = "starting"
    /\ exit = "clean"
    /\ stored = {}
    /\ crashes = 0 /\ faults = 0

-----------------------------------------------------------------------------
(* Startup: bootstrap::init calling crypto::reconcile_on_startup.           *)

Launch ==
    /\ step = "off"
    /\ Goto("start_cleanup")
    /\ UNCHANGED <<files, job, faults>>

\* The stale swap file is removed; the result of the removal is ignored.
CleanupStaleSwapTemp ==
    /\ step = "start_cleanup"
    /\ \/ tmp' = Absent /\ UNCHANGED faults
       \/ Fault /\ UNCHANGED tmp
    /\ purpose' = "startup"
    /\ Goto("reseal_check")
    /\ UNCHANGED <<real, work, realWal, workWal, attempts, reopen, outcome>>

\* A file that cannot be read counts as no blob.
StartProbe ==
    /\ step = "start_probe"
    /\ \/ /\ IsBlob(real)
          /\ Goto("start_unseal_write")
          /\ UNCHANGED <<reopen, faults>>
       \/ /\ \/ ~IsBlob(real) /\ UNCHANGED faults
             \/ Fault
          /\ Goto("start_open")
          /\ reopen' = "real"
    /\ UNCHANGED <<files, purpose, attempts, outcome>>

StartUnsealWrite ==
    /\ step = "start_unseal_write"
    /\ real.layers > 0
    /\ tmp' = Unseal(real)
    /\ Goto("start_unseal_rename")
    /\ UNCHANGED <<real, work, realWal, workWal, job, faults>>

StartUnsealRename ==
    /\ step = "start_unseal_rename"
    /\ work' = tmp
    /\ tmp' = Absent
    /\ reopen' = "work"
    /\ Goto("start_open")
    /\ UNCHANGED <<real, realWal, workWal, purpose, attempts, outcome, faults>>

\* crate::open on a missing path leaves a blank file before the schema.
CreateBlank ==
    /\ step \in {"start_open", "reopen"}
    /\ \/ /\ reopen = "real" /\ ~Present(real)
          /\ real' = Create(real) /\ UNCHANGED work
       \/ /\ reopen = "work" /\ ~Present(work)
          /\ work' = Create(work) /\ UNCHANGED real
    /\ Goto(step)
    /\ UNCHANGED <<tmp, realWal, workWal, job, faults>>

\* Mutant of StartOpen: the Settings keep the configuration's default.
StartOpen_NotShown ==
    /\ step = "start_open"
    /\ OpenTarget
    /\ conn' = reopen
    /\ step' = "idle"
    /\ UNCHANGED <<tmp, realWal, workWal, job, ui, exit, stored, crashes,
                   faults>>

\* crate::open on the effective path; the Settings show what was found.
StartOpen ==
    /\ step = "start_open"
    /\ OpenTarget
    /\ conn' = reopen
    /\ shown' = (reopen = "work")
    /\ step' = "idle"
    /\ UNCHANGED <<tmp, realWal, workWal, job, toggle, banner, spoiled,
                   phase, exit, stored, crashes, faults>>

\* run() goes on beside the worker, which now waits for items: the listener,
\* the reader, the History window and the tray are created, then the message
\* loop runs.
Ready ==
    /\ step \in RunSteps
    /\ phase = "starting"
    /\ phase' = "running"
    /\ UNCHANGED <<files, conn, step, job, toggle, shown, banner, spoiled,
                   exit, stored, crashes, faults>>

\* One of the four cannot be created.  While its error is shown (a message
\* box delivers messages) the listener may still capture.
StartGivenUp ==
    /\ step \in RunSteps
    /\ phase = "starting"
    /\ phase' = "giving_up"
    /\ UNCHANGED <<files, conn, step, job, toggle, shown, banner, spoiled,
                   exit, stored, crashes, faults>>

\* A failure of any startup step is reported and the program ends.
StartFail ==
    /\ \/ /\ step \in {"start_unseal_write", "start_unseal_rename", "start_open"}
          /\ Fault
       \/ /\ step = "start_unseal_write"
          /\ real.layers = 0
          /\ UNCHANGED faults
       \/ /\ step = "start_open"
          /\ TargetRefused
          /\ UNCHANGED faults
    /\ PowerOff("failed")
    /\ UNCHANGED <<files, job, stored, crashes>>

-----------------------------------------------------------------------------
(* crypto::reseal_work_copy_if_present, at startup and at shutdown.         *)

AfterReseal ==
    IF purpose = "startup"
    THEN Goto("start_probe")
    ELSE PowerOff("clean") /\ UNCHANGED <<stored, crashes>>

\* Mutants of ResealCheck: the reseal is left out of one of its two places.
ResealCheck_StartOnly ==
    /\ step = "reseal_check"
    /\ IF Present(work) /\ purpose = "startup"
       THEN Goto("reseal_checkpoint") ELSE AfterReseal
    /\ UNCHANGED <<files, job, faults>>

ResealCheck_ShutdownOnly ==
    /\ step = "reseal_check"
    /\ IF Present(work) /\ purpose = "shutdown"
       THEN Goto("reseal_checkpoint") ELSE AfterReseal
    /\ UNCHANGED <<files, job, faults>>

ResealCheck ==
    /\ step = "reseal_check"
    /\ IF Present(work) THEN Goto("reseal_checkpoint") ELSE AfterReseal
    /\ UNCHANGED <<files, job, faults>>

ResealCheckpoint ==
    /\ step = "reseal_checkpoint"
    /\ Opens(work)
    /\ work' = WithWal(work, workWal)
    /\ workWal' = {}
    /\ Goto("reseal_write")
    /\ UNCHANGED <<real, tmp, realWal, job, faults>>

ResealWrite ==
    /\ step = "reseal_write"
    /\ tmp' = Seal(work)
    /\ Goto("reseal_rename")
    /\ UNCHANGED <<real, work, realWal, workWal, job, faults>>

ResealRename ==
    /\ step = "reseal_rename"
    /\ real' = tmp
    /\ tmp' = Absent
    /\ Goto("reseal_remove")
    /\ UNCHANGED <<work, realWal, workWal, job, faults>>

\* The results of the three removals are ignored.
ResealRemove ==
    /\ step = "reseal_remove"
    /\ \/ work' = Absent /\ workWal' = {} /\ UNCHANGED faults
       \/ Fault /\ UNCHANGED <<work, workWal>>
    /\ AfterReseal
    /\ UNCHANGED <<real, tmp, realWal, job>>

\* At startup the error ends the program; at shutdown it is only logged.
ResealFail ==
    /\ \/ /\ step \in {"reseal_checkpoint", "reseal_write", "reseal_rename"}
          /\ Fault
       \/ /\ step = "reseal_checkpoint"
          /\ ~Opens(work)
          /\ UNCHANGED faults
    /\ PowerOff(IF purpose = "startup" THEN "failed" ELSE "clean")
    /\ UNCHANGED <<files, job, stored, crashes>>

-----------------------------------------------------------------------------
(* The worker between switches: a capture commits, then the retention cuts  *)
(* checkpoint the -wal (a reader may keep the checkpoint from finishing).   *)

Capture(c) ==
    /\ step = "idle"
    /\ phase # "starting"
    /\ \/ conn = "real" /\ realWal' = realWal \cup {c} /\ UNCHANGED workWal
       \/ conn = "work" /\ workWal' = workWal \cup {c} /\ UNCHANGED realWal
    /\ stored' = stored \cup {c}
    /\ step' = "purge"
    /\ UNCHANGED <<real, work, tmp, conn, job, ui, exit, crashes, faults>>

\* The in-memory placeholder has no table: the write fails and the item is
\* lost.
CaptureFail ==
    /\ step = "idle"
    /\ phase # "starting"
    /\ conn = "memory"
    /\ UNCHANGED vars

CheckpointReal ==
    /\ real' = WithWal(real, realWal)
    /\ realWal' = {}
    /\ UNCHANGED <<work, workWal>>

CheckpointWork ==
    /\ work' = WithWal(work, workWal)
    /\ workWal' = {}
    /\ UNCHANGED <<real, realWal>>

\* PRAGMA wal_checkpoint(TRUNCATE) on the worker's connection.
Checkpoint ==
    \/ conn = "real" /\ CheckpointReal
    \/ conn = "work" /\ CheckpointWork
    \/ conn = "memory" /\ UNCHANGED <<real, work, realWal, workWal>>

Purge ==
    /\ step = "purge"
    /\ \/ Checkpoint
       \/ UNCHANGED <<real, work, realWal, workWal>>
    /\ Goto("idle")
    /\ UNCHANGED <<tmp, job, faults>>

-----------------------------------------------------------------------------
(* Switching the protection: SqliteHistoryRepository::toggle_encryption_win *)
(* on the worker.                                                           *)


TakeSwitch ==
    /\ step = "idle"
    /\ toggle \in {"enable", "disable"}
    /\ Goto("toggle_close")
    /\ UNCHANGED <<files, job, faults>>

\* Checkpoint, put the in-memory placeholder in the connection's place and
\* close the old one.
ToggleClose ==
    /\ step = "toggle_close"
    /\ Checkpoint
    /\ conn' = "memory"
    /\ step' = IF toggle = "enable" THEN "protect_write" ELSE "promote"
    /\ UNCHANGED <<tmp, job, ui, exit, stored, crashes, faults>>

\* The checkpoint failed: the error returns before the connection changes.
\* Closing failed: it returns with the placeholder in place.
ToggleCloseFail ==
    /\ step = "toggle_close"
    /\ Fault
    /\ \/ UNCHANGED <<files, conn>>
       \/ Checkpoint /\ UNCHANGED tmp /\ conn' = "memory"
    /\ toggle' = "failed"
    /\ step' = "idle"
    /\ UNCHANGED <<job, shown, banner, spoiled, phase, exit, stored,
                   crashes>>

\* Leave the rewrite with a result and a file to reopen.
LeaveWith(path, result) ==
    /\ reopen' = path
    /\ outcome' = result
    /\ Goto("reopen")

ProtectWrite ==
    /\ step = "protect_write"
    /\ \/ /\ Present(real)
          /\ tmp' = Seal(real)
          /\ Goto("protect_rename")
          /\ UNCHANGED <<reopen, outcome, faults>>
       \/ /\ ~Present(real)
          /\ LeaveWith("real", "err")
          /\ UNCHANGED <<tmp, faults>>
       \/ /\ Fault
          /\ LeaveWith("real", "err")
          /\ UNCHANGED tmp
    /\ UNCHANGED <<real, work, realWal, workWal, purpose, attempts>>

ProtectRename ==
    /\ step = "protect_rename"
    /\ \/ /\ real' = tmp
          /\ tmp' = Absent
          /\ attempts' = 0
          /\ Goto("unprotect_write")
          /\ UNCHANGED <<reopen, outcome, faults>>
       \/ /\ Fault
          /\ LeaveWith("real", "err")
          /\ UNCHANGED <<real, tmp, attempts>>
    /\ UNCHANGED <<work, realWal, workWal, purpose>>

\* Mutants of RetryOrGiveUp: one attempt too many; the fallback of the other
\* direction.
RetryOrGiveUp_OffByOne ==
    \/ /\ attempts <= 2
       /\ attempts' = attempts + 1
       /\ Goto("unprotect_write")
       /\ UNCHANGED <<reopen, outcome>>
    \/ /\ attempts > 2
       /\ LeaveWith("real", "err")
       /\ UNCHANGED attempts

RetryOrGiveUp_FallbackWork ==
    \/ /\ attempts < 2
       /\ attempts' = attempts + 1
       /\ Goto("unprotect_write")
       /\ UNCHANGED <<reopen, outcome>>
    \/ /\ attempts >= 2
       /\ LeaveWith("work", "err")
       /\ UNCHANGED attempts

\* Three attempts, then the fallback: "real", which is a blob by now.
RetryOrGiveUp ==
    \/ /\ attempts < 2
       /\ attempts' = attempts + 1
       /\ Goto("unprotect_write")
       /\ UNCHANGED <<reopen, outcome>>
    \/ /\ attempts >= 2
       /\ LeaveWith("real", "err")
       /\ UNCHANGED attempts

\* What is unprotected has the layer ProtectRename has just written.
UnprotectWrite ==
    /\ step = "unprotect_write"
    /\ \/ /\ tmp' = Unseal(real)
          /\ Goto("unprotect_rename")
          /\ UNCHANGED <<attempts, reopen, outcome, faults>>
       \/ /\ Fault
          /\ RetryOrGiveUp
          /\ UNCHANGED tmp
    /\ UNCHANGED <<real, work, realWal, workWal, purpose>>

UnprotectRename ==
    /\ step = "unprotect_rename"
    /\ \/ /\ work' = tmp
          /\ tmp' = Absent
          /\ LeaveWith("work", "ok")
          /\ UNCHANGED <<attempts, faults>>
       \/ /\ Fault
          /\ RetryOrGiveUp
          /\ UNCHANGED <<work, tmp>>
    /\ UNCHANGED <<real, realWal, workWal, purpose>>

\* Switching off: the work copy takes the place of the blob.
Promote ==
    /\ step = "promote"
    /\ \/ /\ Present(work)
          /\ real' = work
          /\ work' = Absent
          /\ LeaveWith("real", "ok")
          /\ UNCHANGED faults
       \/ /\ ~Present(work)
          /\ LeaveWith("work", "err")
          /\ UNCHANGED <<real, work, faults>>
       \/ /\ Fault
          /\ LeaveWith("work", "err")
          /\ UNCHANGED <<real, work>>
    /\ UNCHANGED <<tmp, realWal, workWal, purpose, attempts>>

\* Answers the bridge thread of the window.
Answer ==
    /\ toggle' = IF outcome = "ok" THEN "done" ELSE "failed"
    /\ step' = "idle"
    /\ UNCHANGED <<tmp, realWal, workWal, job, shown, banner, spoiled,
                   phase, exit, stored, crashes, faults>>

Reopen ==
    /\ step = "reopen"
    /\ OpenTarget
    /\ conn' = reopen
    /\ Answer

\* crate::open failed: the placeholder stays in the repository.
ReopenFail ==
    /\ step = "reopen"
    /\ \/ Fault
       \/ TargetRefused /\ UNCHANGED faults
    /\ toggle' = "failed"
    /\ step' = "idle"
    /\ UNCHANGED <<files, conn, job, shown, banner, spoiled, phase, exit,
                   stored, crashes>>

-----------------------------------------------------------------------------
(* The UI thread.                                                           *)

\* What a read of the effective path gives the History window.
EffectiveFile == IF Present(work) THEN work ELSE real

ReadBanner ==
    IF EffectiveFile.kind # "db" THEN "io"
    ELSE IF Opens(EffectiveFile) THEN "none" ELSE "corrupted"

Running == step \in RunSteps \cup SwitchSteps

\* Effect::ToggleProtection: the configuration takes the target at once, the
\* window closes its reader and queues the item.
RequestSwitch ==
    /\ Running /\ phase = "running"
    /\ toggle = "none"
    /\ toggle' = IF shown THEN "disable" ELSE "enable"
    /\ shown' = ~shown
    /\ banner' = "none"
    /\ spoiled' = IF spoiled = "no" THEN spoiled ELSE "insisted"
    /\ UNCHANGED <<files, conn, step, job, phase, exit, stored, crashes,
                   faults>>

\* The queue evicted the item: its channel closes and the bridge thread
\* reports a failure.
EvictSwitch ==
    /\ step \in RunSteps
    /\ toggle \in {"enable", "disable"}
    /\ Fault
    /\ toggle' = "failed"
    /\ UNCHANGED <<files, conn, step, job, shown, banner, spoiled, phase,
                   exit, stored, crashes>>

\* Mutant of OnToggleDone: only a switch that succeeded is reported.
OnToggleDone_SuccessOnly ==
    /\ Running /\ phase = "running"
    /\ toggle = "done"
    /\ toggle' = "none"
    /\ banner' = ReadBanner
    /\ UNCHANGED <<files, conn, step, job, shown, spoiled, phase, exit,
                   stored, crashes, faults>>

\* WM_TOGGLE_DONE: the reader is opened again; the configuration keeps the
\* target even when the switch failed.
OnToggleDone ==
    /\ Running /\ phase = "running"
    /\ toggle \in {"done", "failed"}
    /\ toggle' = "none"
    /\ banner' = IF toggle = "failed" /\ ReadBanner = "none" THEN "io"
                 ELSE ReadBanner
    /\ spoiled' = IF toggle = "failed" /\ spoiled = "no" THEN "failed"
                  ELSE spoiled
    /\ UNCHANGED <<files, conn, step, job, shown, phase, exit, stored,
                   crashes, faults>>

\* The window is shown again: the list is read, the error follows the result.
OpenHistory ==
    /\ Running /\ phase = "running"
    /\ toggle = "none"
    /\ banner # "none"
    /\ banner' = ReadBanner
    /\ UNCHANGED <<files, conn, step, job, toggle, shown, spoiled, phase,
                   exit, stored, crashes, faults>>

Quit ==
    /\ Running /\ phase = "running"
    /\ phase' = "leaving"
    /\ UNCHANGED <<files, conn, step, job, toggle, shown, banner, spoiled,
                   exit, stored, crashes, faults>>

-----------------------------------------------------------------------------
(* The end of a session.                                                    *)

\* The queue is closed and drained, the worker joined, the -wal merged and
\* the connection dropped.
Stop ==
    /\ step = "idle"
    /\ phase = "leaving"
    /\ toggle \notin {"enable", "disable"}
    /\ Checkpoint
    /\ conn' = "none"
    /\ purpose' = "shutdown"
    /\ step' = "reseal_check"
    /\ UNCHANGED <<tmp, attempts, reopen, outcome, ui, exit, stored, crashes,
                   faults>>

\* The start is given up: the queue is closed, the worker joined and its
\* connection dropped, which may merge the -wal.  No reseal.
GiveUp ==
    /\ step = "idle"
    /\ phase = "giving_up"
    /\ \/ Checkpoint
       \/ UNCHANGED <<real, work, realWal, workWal>>
    /\ PowerOff("failed")
    /\ UNCHANGED <<tmp, job, stored, crashes, faults>>

\* A crash, or WM_ENDSESSION: the worker is given one second and the reseal
\* is left to the next start.
Crash ==
    /\ step # "off"
    /\ crashes < MaxCrashes
    /\ crashes' = crashes + 1
    /\ PowerOff("killed")
    /\ UNCHANGED <<files, job, stored, faults>>

-----------------------------------------------------------------------------
Startup ==
    \/ CleanupStaleSwapTemp \/ StartProbe \/ StartUnsealWrite
    \/ StartUnsealRename \/ StartOpen \/ StartFail
    \/ step = "start_open" /\ CreateBlank

Reseal ==
    \/ ResealCheck \/ ResealCheckpoint \/ ResealWrite
    \/ ResealRename \/ ResealRemove \/ ResealFail

Switch ==
    \/ TakeSwitch \/ ToggleClose \/ ToggleCloseFail \/ ProtectWrite
    \/ ProtectRename \/ UnprotectWrite \/ UnprotectRename \/ Promote
    \/ step = "reopen" /\ CreateBlank
    \/ Reopen \/ ReopenFail

Window == RequestSwitch \/ EvictSwitch \/ OnToggleDone \/ OpenHistory \/ Quit

Next ==
    \/ Launch \/ Startup \/ Ready \/ StartGivenUp \/ Reseal
    \/ (\E c \in Clip : Capture(c)) \/ CaptureFail
    \/ Purge \/ Switch \/ Window \/ Stop \/ GiveUp \/ Crash

(* The threads keep running and the message loop keeps delivering; the user *)
(* owes nothing, and captures keep arriving at the queue, so taking the     *)
(* switch out of it needs the strong form: FIFO order gives it its turn.    *)
Fairness ==
    /\ WF_vars(Startup)
    /\ WF_vars(Reseal)
    /\ WF_vars(Purge)
    /\ SF_vars(TakeSwitch)
    /\ WF_vars(Switch /\ step \in SwitchSteps)
    /\ WF_vars(OnToggleDone)
    /\ SF_vars(Stop)
    /\ SF_vars(GiveUp)

Spec == Init /\ [][Next]_vars

FairSpec == Spec /\ Fairness

-----------------------------------------------------------------------------
(* Properties.                                                              *)

\* Every variable keeps its type; in particular the rebuild of the work copy
\* is retried at most twice.
TypeOK ==
    /\ real \in File /\ work \in File /\ tmp \in File
    /\ realWal \in SUBSET Clip /\ workWal \in SUBSET Clip
    /\ conn \in {"none", "real", "work", "memory"}
    /\ step \in {"off"} \cup StartSteps \cup ResealSteps \cup RunSteps
                \cup SwitchSteps
    /\ purpose \in {"startup", "shutdown"}
    /\ attempts \in 0 .. 2
    /\ reopen \in {"real", "work"} /\ outcome \in {"ok", "err"}
    /\ toggle \in {"none", "enable", "disable", "done", "failed"}
    /\ shown \in BOOLEAN
    /\ phase \in {"starting", "running", "leaving", "giving_up"}
    /\ spoiled \in {"no", "failed", "insisted"}
    /\ banner \in {"none", "io", "corrupted"}
    /\ exit \in {"clean", "failed", "killed"}
    /\ stored \in SUBSET Clip
    /\ crashes \in 0 .. MaxCrashes /\ faults \in 0 .. MaxFaults

\* The clips the next start of the program would find: those of the work copy
\* when there is one, otherwise those of the real file under at most one
\* layer.  A -wal counts only for a file SQLite can open.
OnDisk ==
    IF Present(work)
    THEN IF work.layers = 0 THEN work.clips \cup workWal ELSE {}
    ELSE IF real.layers = 0 THEN real.clips \cup realWal
    ELSE IF real.layers = 1 THEN real.clips ELSE {}

\* Whatever step of a switch, of a reseal or of the startup a crash or a
\* failed file operation hits, no committed clip is lost: the next start
\* finds all of them (toggle_encryption_win, reseal_work_copy_if_present,
\* reconcile_on_startup), as long as no switch is asked for in a session
\* where one has failed.
NothingLost == spoiled # "insisted" => stored \subseteq OnDisk

\* Not even a switch asked for after a failed one loses a committed clip: a
\* switch and its way back preserve everything (crypto_dpapi.rs:99).
InsistingLosesNothing == stored \subseteq OnDisk

\* Between switches, the Settings tell the truth about the file on the disk
\* as long as no switch of the session failed: "on" means that the real file
\* is sealed and the worker writes to the work copy (bootstrap::init and
\* Effect::ToggleProtection keep Config::encryption_enabled).
ShownIsTrue ==
    step \in RunSteps /\ toggle = "none" /\ spoiled = "no" =>
        /\ shown <=> IsBlob(real)
        /\ shown <=> conn = "work"

\* With no failing file operation, a session that reached its message loop and
\* ended in good order leaves no plain copy of a protected history behind
\* (shutdown_reseal), and a start that run() gave up leaves at most the work
\* copy it had just unsealed, never a plain rewrite of it, and that beside a
\* sealed database: run() returns 1 without a reseal (run.rs:89-95, 109-115,
\* 128-135, 174-184), so the copy stays plain until the next start seals it.
SealedAtRest ==
    step = "off" /\ faults = 0 =>
        /\ exit = "clean" => ~Present(work) /\ ~Present(tmp)
        /\ exit = "failed" =>
              /\ ~Present(tmp)
              /\ Present(work) => Present(real) /\ real.layers = 1

\* A start on a protected history opens the work copy only after whatever the
\* last session left in it has been sealed back (ARQUITETURA.md: an unclean
\* end leaves it plain until the next start, which re-encrypts it before it
\* accepts any item), under the same condition.
ReencryptedBeforeUse ==
    step = "start_open" /\ reopen = "work" /\ spoiled # "insisted" =>
        real.layers = 1 /\ stored \subseteq real.clips

\* A switch that was asked for ends, and the Settings become usable again,
\* unless the program is asked to quit in between.
ToggleEnds == toggle \in {"enable", "disable"} ~> toggle = "none" \/ phase # "running"


=============================================================================
