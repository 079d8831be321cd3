-------------------------- MODULE SettingsSession --------------------------
(***************************************************************************)
(* The Settings of duplicata: the session of the window with its three     *)
(* copies of every value (saved, in effect, draft), the configuration the  *)
(* running program shares, config.toml, the Run entry of the registry, the *)
(* reserve hotkey that is registered and what the worker was last told.    *)
(* Apply puts reversible changes in effect without writing them, Cancel    *)
(* takes them back, Save writes; meanwhile the conflict window, the        *)
(* Explorer, a switch of the protection and a failing disk act on the same *)
(* state.  The inside of Win+V is WinV.tla and the inside of a switch is   *)
(* DatabaseProtection.tla: here each is only what the Settings see of it.  *)
(***************************************************************************)
EXTENDS Naturals

CONSTANTS
    Combos,     \* hotkeys that pass validate_hotkey
    NoCombo,    \* no reserve is registered
    Programs,   \* names of programs the user can add to the list
    Hashed,     \* the names of Programs that hold a '#'
    Cut,        \* what is left of such a name when config.toml is read
    Numbers,    \* numbers the user can type
    NoText,     \* an empty numeric field
    MaxPins,    \* MAX_MAX_PINNED
    Default,    \* the values of a configuration without a file
    Stored,     \* config.toml when the program is first started
    MaxEdits,   \* bound: edits of the controls
    MaxTurns    \* bound: edits, events outside the window and failures

Reducible == {"retention_days", "max_items"}
Numeric == Reducible \cup {"max_pinned"}
Filters == {"blocked_programs", "secret_detection"}
Written == Numeric \cup Filters
Setting == Written \cup {"hotkey", "startup", "protection", "win_v"}
ConfigField == Setting \ {"startup"}
FileField == ConfigField \ {"protection"}

\* The session while the window of the Settings is closed.
NoSession == <<>>

OnStatus == {"Active", "AwaitingRestart", "NotReleased"}
OffStatus == {"Off", "OffAwaitingReturn"}
AwaitsRestart(status) == status \in {"AwaitingRestart", "OffAwaitingReturn"}

Allowed(s) ==
    CASE s = "hotkey" -> Combos
      [] s \in Reducible -> Nat \ {0}
      [] s = "max_pinned" -> 0 .. MaxPins
      [] s = "blocked_programs" -> SUBSET (Programs \cup {Cut})
      [] OTHER -> BOOLEAN

ValuesOf(S, f) == DOMAIN f = S /\ \A s \in S : f[s] \in Allowed(s)

ASSUME CombosAssumption == NoCombo \notin Combos
ASSUME ProgramsAssumption == Hashed \subseteq Programs
ASSUME NumbersAssumption == Numbers \subseteq Nat /\ NoText \notin Nat /\ MaxPins \in Nat
ASSUME FilesAssumption == ValuesOf(FileField, Default) /\ ValuesOf(FileField, Stored)
ASSUME BoundsAssumption == MaxEdits \in Nat /\ MaxTurns \in Nat

VARIABLES
    config,      \* the configuration the running program shares
    file,        \* config.toml
    registered,  \* registered_hotkey: the reserve registered now
    entry,       \* the value of the program in the Run key
    blocked,     \* the Task Manager has disabled that entry
    told,        \* what the worker, and the History window, were last sent
    status,      \* WinVRuntime.status
    restarting,  \* a restart of the Explorer asked for by the button runs
    protected,   \* the database is protected on the disk
    switch,      \* the rewriting of the database under way
    window,      \* "closed", "open", "confirm_save", "confirm_restart", "ended"
    session,     \* SettingsSession, while the window is open
    lines,       \* what the open confirmation says
    owner,       \* hotkey_capture: whose keys are captured
    armed,
    edits, events,
    kept,        \* ghost: the values, and the hotkey, last chosen for good
    last,        \* ghost: what a Save last wrote without an error
    torn         \* ghost: a later write failed and emptied the file

vars == <<config, file, registered, entry, blocked, told, status, restarting,
          protected, switch, window, session, lines, owner, armed, edits,
          events, kept, last, torn>>
world == <<config, file, registered, entry, blocked, told, status, restarting,
           protected, switch>>
ghosts == <<kept, last, torn>>
capture == <<owner, armed>>

-----------------------------------------------------------------------------
(* Reading config.toml: everything after a '#' is a comment, also inside a  *)
(* name.                                                                    *)
Load(f) ==
    [f EXCEPT !["blocked_programs"] =
        (@ \ Hashed) \cup (IF @ \cap Hashed = {} THEN {} ELSE {Cut})]

(* The possible contents after a write: done, refused before the file was   *)
(* touched, or failed after std::fs::write had truncated it.                *)
Persist(content) == {content, file, Default}

SentOf(c) == [s \in Numeric \cup {"secret_detection", "window_pinned"} |->
                 IF s = "window_pinned" THEN c.max_pinned ELSE c[s]]

ChosenIn(c) == [s \in Written \cup {"hotkey"} |-> c[s]]

Init ==
    /\ file = Stored
    /\ protected \in BOOLEAN
    /\ config = [s \in ConfigField |->
                    IF s = "protection" THEN protected ELSE Load(Stored)[s]]
    /\ registered = (IF config.win_v THEN NoCombo ELSE config.hotkey)
    /\ entry \in BOOLEAN
    /\ blocked \in BOOLEAN
    /\ told = SentOf(config)
    /\ status = (IF config.win_v THEN "Active" ELSE "Off")
    /\ restarting = FALSE
    /\ switch = "idle"
    /\ window = "closed"
    /\ session = NoSession
    /\ lines = {}
    /\ owner = "none"
    /\ armed = FALSE
    /\ edits = 0
    /\ events = 0
    /\ kept = ChosenIn(config)
    /\ last = [s \in Written |-> config[s]]
    /\ torn = FALSE

Edit == edits < MaxEdits /\ edits + events < MaxTurns /\ edits' = edits + 1
Event == edits + events < MaxTurns /\ events' = events + 1

-----------------------------------------------------------------------------
(* SettingsSession: the pure part.                                          *)

Normalize(s, text, previous) ==
    LET n == IF text = NoText THEN previous ELSE text
    IN  IF s = "max_pinned" THEN IF n > MaxPins THEN MaxPins ELSE n
                            ELSE IF n < 1 THEN 1 ELSE n

RewriteFields(ses) ==
    LET shown == [s \in Numeric |-> ses.draft[s]]
    IN  [ses EXCEPT !.text = shown, !.shown = shown]

SyncWinV(ses, on, new) ==
    [ses EXCEPT
        !.draft["win_v"] = IF @ = ses.in_effect.win_v THEN on ELSE @,
        !.saved["win_v"] = on,
        !.in_effect["win_v"] = on,
        !.win_v_status = new]

ProtectionInProgress(ses, target) ==
    [ses EXCEPT !.saved["protection"] = target, !.in_effect["protection"] = target,
                !.draft["protection"] = target, !.protection_busy = TRUE]

\* Mutant of OpenSession: a window opened during a switch does not know of it.
OpenSession_Unlocked ==
    LET values == [s \in Setting |->
                      IF s = "startup" THEN entry /\ ~blocked ELSE config[s]]
        fields == [s \in Numeric |-> values[s]]
    IN  SyncWinV([saved |-> values, in_effect |-> values, draft |-> values,
                  text |-> fields, shown |-> fields, startup_blocked |-> blocked,
                  protection_busy |-> FALSE, win_v_status |-> "Off",
                  restart_in_progress |-> restarting],
                 config.win_v, status)

OpenSession ==
    LET values == [s \in Setting |->
                      IF s = "startup" THEN entry /\ ~blocked ELSE config[s]]
        fields == [s \in Numeric |-> values[s]]
        fresh == SyncWinV([saved |-> values, in_effect |-> values, draft |-> values,
                           text |-> fields, shown |-> fields,
                           startup_blocked |-> blocked, protection_busy |-> FALSE,
                           win_v_status |-> "Off", restart_in_progress |-> restarting],
                          config.win_v, status)
    IN  IF switch = "idle" THEN fresh
                           ELSE ProtectionInProgress(fresh, switch = "to_on")

(* classify: how the draft of a setting differs from what is in effect.     *)
Kind(s) ==
    LET d == session.draft[s]
        e == session.in_effect[s]
    IN  IF s \in Reducible /\ d < session.saved[s] THEN "Irreversible"
        ELSE IF d = e THEN "None"
        ELSE CASE s = "startup" /\ d /\ session.startup_blocked -> "Irreversible"
               [] s = "protection" -> "SaveOnly"
               [] s = "win_v" -> "SaveOnlyConfirmed"
               [] OTHER -> "Reversible"

CanApply ==
    \/ \E s \in Numeric : session.text[s] # session.draft[s]
    \/ \E s \in Setting : Kind(s) = "Reversible"

HasPendingHotkey == session.draft.hotkey # session.in_effect.hotkey

\* Mutant of ConfirmLines: a reduction has no line.
ConfirmLines_NoReduction ==
    {<<s>> : s \in {t \in {"startup"} : Kind(t) = "Irreversible"}}
      \cup {<<s>> : s \in {t \in {"win_v"} : session.draft[t] # session.in_effect[t]}}

(* begin_save: a line for each reduction, for the entry that the Task       *)
(* Manager disabled and for Win+V.                                          *)
ConfirmLines ==
    {<<s, session.draft[s]>> : s \in {t \in Reducible : Kind(t) = "Irreversible"}}
      \cup {<<s>> : s \in {t \in {"startup"} : Kind(t) = "Irreversible"}}
      \cup {<<s>> : s \in {t \in {"win_v"} : session.draft[t] # session.in_effect[t]}}

-----------------------------------------------------------------------------
(* transition and execute: what the effects that lead from one set of       *)
(* values to another do, in the order of the window.                        *)

Differ(from, to, S) == \E s \in S : from[s] # to[s]

Swaps(from, to) == from.hotkey # to.hotkey /\ session.win_v_status # "Active"
ClearsBlock(from, to) ==
    from.startup # to.startup /\ to.startup /\ session.startup_blocked

(* What can come of the effects: whether the hotkey was registered, the     *)
(* entry written, its block cleared; the status Win+V ends in, or           *)
(* "failed"; whether config.toml was written and what a failure left of it. *)
Outcomes(from, to, mode) ==
    {out \in
        [hotkey : IF Swaps(from, to) THEN BOOLEAN ELSE {TRUE},
         entry : IF from.startup # to.startup THEN BOOLEAN ELSE {TRUE},
         approval : IF ClearsBlock(from, to) THEN BOOLEAN ELSE {TRUE},
         win_v : IF from.win_v = to.win_v THEN {"none"}
                 ELSE {"failed"} \cup (IF to.win_v THEN {"Active", "AwaitingRestart"}
                                                   ELSE OffStatus),
         persist : IF mode = "Save" THEN BOOLEAN ELSE {TRUE},
         left : {file, Default},
         undone : BOOLEAN] :
        /\ out.persist => out.left = file
        /\ out.undone => ~out.persist /\ to.win_v /\ out.win_v \in OnStatus}

Fails(out) == ~out.hotkey \/ ~out.entry \/ ~out.approval \/ out.win_v = "failed" \/ ~out.persist

(* Persist copies every value of the session but the hotkey, the start with *)
(* Windows and Win+V; the other effects only those that changed.            *)
Assigned(from, to, mode) ==
    IF mode = "Save" THEN Written \cup {"protection"}
    ELSE {s \in Written \cup {"protection"} :
             \/ s \in Filters /\ Differ(from, to, Filters)
             \/ s \in Reducible /\ Differ(from, to, Reducible)
             \/ from[s] # to[s]}

SwitchedWinV(out) == out.win_v \in OnStatus \cup OffStatus /\ ~out.undone

ConfigAfter(from, to, mode, out) ==
    [s \in ConfigField |->
        CASE s = "hotkey" -> IF from.hotkey # to.hotkey /\ (out.hotkey \/ mode = "Cancel")
                             THEN to.hotkey ELSE config.hotkey
          [] s = "win_v" -> IF SwitchedWinV(out) THEN to.win_v ELSE config.win_v
          [] OTHER -> IF s \in Assigned(from, to, mode) THEN to[s] ELSE config[s]]

StatusAfter(out) ==
    IF out.undone THEN "Off"
    ELSE IF out.win_v \in {"none", "failed"} THEN status ELSE out.win_v

(* SwapHotkey: when the new combination is refused, Apply and Save keep the *)
(* previous one and Cancel leaves none.  Win+V in use leaves no reserve; a  *)
(* switch of Win+V may have to register it again, which can fail.           *)
RegisteredAfter(from, to, mode, out) ==
    LET swapped == IF ~Swaps(from, to) THEN registered
                   ELSE IF out.hotkey THEN to.hotkey
                   ELSE IF mode = "Cancel" THEN NoCombo ELSE registered
        again == {ConfigAfter(from, to, mode, out).hotkey, NoCombo}
    IN  CASE out.win_v \in {"none", "failed"} -> {swapped}
          [] out.win_v = "Active" -> IF out.undone THEN again ELSE {NoCombo}
          [] out.win_v = "AwaitingRestart" -> again \cup {swapped}
          [] OTHER -> IF status = "Active" THEN again ELSE {swapped}

FieldsOf(c) == [s \in FileField |-> c[s]]

(* A save that fails after Win+V was switched on writes the fields of Win+V *)
(* alone over what is left of the file; only if that fails too is the       *)
(* switch undone.                                                           *)
FileAfter(from, to, mode, out) ==
    IF mode # "Save" THEN file
    ELSE IF out.persist THEN FieldsOf(ConfigAfter(from, to, mode, out))
    ELSE IF to.win_v /\ out.win_v \in OnStatus /\ ~out.undone
         THEN [Load(out.left) EXCEPT !["win_v"] = TRUE]
    ELSE out.left

ToldAfter(from, to, mode, out) ==
    [s \in DOMAIN told |->
        CASE s = "secret_detection" ->
                IF Differ(from, to, Filters) THEN to.secret_detection ELSE told[s]
          [] s = "window_pinned" ->
                IF from.max_pinned # to.max_pinned THEN to.max_pinned ELSE told[s]
          [] OTHER -> IF Differ(from, to, Numeric)
                      THEN ConfigAfter(from, to, mode, out)[s] ELSE told[s]]

(* start_encryption_toggle: refused while a rewriting is under way.         *)
SwitchAfter(from, to) ==
    IF from.protection = to.protection \/ switch # "idle" THEN switch
    ELSE IF to.protection THEN "to_on" ELSE "to_off"

Execute(from, to, mode, out) ==
    /\ config' = ConfigAfter(from, to, mode, out)
    /\ registered' \in RegisteredAfter(from, to, mode, out)
    /\ entry' = (IF from.startup # to.startup /\ out.entry THEN to.startup ELSE entry)
    /\ blocked' = (blocked /\ ~(ClearsBlock(from, to) /\ out.approval))
    /\ told' = ToldAfter(from, to, mode, out)
    /\ switch' = SwitchAfter(from, to)
    /\ status' = StatusAfter(out)
    /\ file' = FileAfter(from, to, mode, out)
    /\ IF Fails(out) THEN Event ELSE UNCHANGED events
    /\ UNCHANGED <<restarting, protected>>

-----------------------------------------------------------------------------
(* The window.  Armed, the Alter button takes every key, and a click on     *)
(* another control disarms it first (WM_KILLFOCUS); an open confirmation    *)
(* disables the window.                                                     *)

SettingsArmed == armed /\ owner = "settings"
Ready == window = "open" /\ ~SettingsArmed

Release(who) ==
    IF owner = who THEN owner' = "none" /\ armed' = FALSE ELSE UNCHANGED capture

Close ==
    /\ window' = "closed"
    /\ session' = NoSession
    /\ lines' = {}
    /\ Release("settings")

Open ==
    /\ window = "closed"
    /\ window' = "open"
    /\ session' = OpenSession
    /\ UNCHANGED <<world, lines, capture, edits, events, ghosts>>

Draft(new) ==
    /\ Ready
    /\ Edit
    /\ session' = new
    /\ UNCHANGED <<world, window, lines, capture, events, ghosts>>

SetNumericText(s, text) ==
    /\ session # NoSession /\ text # session.text[s]
    /\ Draft([session EXCEPT !.text[s] = text,
                             !.draft[s] = Normalize(s, text, session.shown[s])])

Toggle(s) ==
    /\ session # NoSession
    /\ s = "protection" => ~session.protection_busy
    /\ Draft([session EXCEPT !.draft[s] = ~@])

AddProgram(p) ==
    /\ session # NoSession /\ p \notin session.draft.blocked_programs
    /\ Draft([session EXCEPT !.draft["blocked_programs"] = @ \cup {p}])

RemoveProgram ==
    /\ session # NoSession
    /\ \E p \in session.draft.blocked_programs :
          Draft([session EXCEPT !.draft["blocked_programs"] = @ \ {p}])

Alter ==
    /\ Ready
    /\ owner # "standalone"
    /\ owner' = "settings"
    /\ armed' = TRUE
    /\ UNCHANGED <<world, window, session, lines, edits, events, ghosts>>

Disarm ==
    /\ SettingsArmed
    /\ armed' = FALSE
    /\ UNCHANGED <<world, window, session, lines, owner, edits, events, ghosts>>

(* on_hotkey_key: a combination that probe_hotkey found free, or the        *)
(* registered one again while another is pending.                           *)
PressKey(combo) ==
    /\ window = "open"
    /\ SettingsArmed
    /\ combo # registered \/ HasPendingHotkey
    /\ Edit
    /\ session' = [session EXCEPT !.draft["hotkey"] = combo]
    /\ armed' = FALSE
    /\ UNCHANGED <<world, window, lines, owner, events, ghosts>>

Apply ==
    LET from == session.in_effect
        to == [s \in Setting |->
                  IF Kind(s) = "Reversible" THEN session.draft[s] ELSE from[s]]
    IN  /\ Ready
        /\ CanApply
        /\ \E out \in Outcomes(from, to, "Apply") :
              /\ Execute(from, to, "Apply", out)
              /\ session' =
                    (IF out.hotkey
                     THEN [RewriteFields(session) EXCEPT !.in_effect = to]
                     ELSE [RewriteFields(session) EXCEPT
                              !.in_effect = [to EXCEPT !["hotkey"] = from.hotkey],
                              !.draft["hotkey"] = from.hotkey])
        /\ UNCHANGED <<window, lines, capture, edits, ghosts>>

\* Mutant of Revert: what was applied stays in effect.
Revert_DraftOnly ==
    \E out \in Outcomes(session.in_effect, session.in_effect, "Cancel") :
        Execute(session.in_effect, session.in_effect, "Cancel", out)

(* cancel: what was applied goes back to what is saved.                     *)
Revert ==
    \E out \in Outcomes(session.in_effect, session.saved, "Cancel") :
        Execute(session.in_effect, session.saved, "Cancel", out)

Cancel ==
    /\ Ready
    /\ Revert
    /\ Close
    /\ UNCHANGED <<edits, ghosts>>

(* confirm_save, its effects and finish_save: after a failure of the        *)
(* hotkey, of Win+V or of the file the window stays, and what is in effect  *)
(* is what a later Cancel goes back to.                                     *)
SaveAll ==
    LET from == session.in_effect
        to == session.draft
        confirmed == [RewriteFields(session) EXCEPT
                         !.in_effect = to,
                         !.protection_busy = @ \/ from.protection # to.protection,
                         !.startup_blocked = @ /\ ~to.startup]
    IN  \E out \in Outcomes(from, to, "Save") :
          LET failed == out.win_v = "failed" \/ out.undone
              reverted == IF out.hotkey THEN confirmed
                          ELSE [confirmed EXCEPT !.in_effect["hotkey"] = from.hotkey,
                                                 !.draft["hotkey"] = from.hotkey]
              synced == SyncWinV(reverted, config'.win_v, status')
              settled == IF failed
                         THEN [synced EXCEPT !.in_effect["win_v"] = synced.saved.win_v,
                                             !.draft["win_v"] = synced.saved.win_v]
                         ELSE synced
          IN  /\ Execute(from, to, "Save", out)
              /\ IF out.hotkey /\ out.persist /\ ~failed
                 THEN Close
                 ELSE /\ window' = "open"
                      /\ session' = [settled EXCEPT !.saved = settled.in_effect]
                      /\ lines' = {}
                      /\ UNCHANGED capture
              /\ kept' = ChosenIn(config')
              /\ last' = (IF out.persist
                          THEN [s \in Written |-> Load(FieldsOf(config'))[s]] ELSE last)
              /\ torn' = (~out.persist /\ (torn \/ out.left # file))
              /\ UNCHANGED edits

Save ==
    /\ Ready
    /\ ConfirmLines = {}
    /\ SaveAll

AskToConfirm ==
    /\ Ready
    /\ ConfirmLines # {}
    /\ window' = "confirm_save"
    /\ lines' = ConfirmLines
    /\ session' = RewriteFields(session)
    /\ UNCHANGED <<world, capture, edits, events, ghosts>>

Confirm ==
    /\ window = "confirm_save"
    /\ SaveAll

Back ==
    /\ window \in {"confirm_save", "confirm_restart"}
    /\ window' = "open"
    /\ lines' = {}
    /\ UNCHANGED <<world, session, capture, edits, events, ghosts>>

AskToRestart ==
    /\ Ready
    /\ AwaitsRestart(session.win_v_status)
    /\ ~session.restart_in_progress
    /\ window' = "confirm_restart"
    /\ UNCHANGED <<world, session, lines, capture, edits, events, ghosts>>

(* start_explorer_restart: the Explorer may have returned by itself while   *)
(* the confirmation was open.                                               *)
ConfirmRestart ==
    LET synced == SyncWinV(session, config.win_v, status)
        starts == AwaitsRestart(status) /\ ~session.restart_in_progress
    IN  /\ window = "confirm_restart"
        /\ window' = "open"
        /\ restarting' = (restarting \/ starts)
        /\ session' = [synced EXCEPT !.restart_in_progress = @ \/ starts]
        /\ UNCHANGED <<config, file, registered, entry, blocked, told, status,
                       protected, switch, lines, capture, edits, events, ghosts>>

-----------------------------------------------------------------------------
(* What happens around the window.                                          *)

\* Mutant of Refreshed: an open window keeps the old status.
Refreshed_Later(ses) == ses

(* refresh_if_open: an open window follows the new status of Win+V.         *)
Refreshed(ses) == IF ses = NoSession THEN ses ELSE SyncWinV(ses, config'.win_v, status')

Tears(content) == torn' = (torn \/ file' \notin {file, content})

ExplorerReturned ==
    /\ window # "ended"
    /\ Event
    /\ \/ /\ status \in {"AwaitingRestart", "NotReleased"}
          /\ \/ /\ status' = "Active"
                /\ registered' = NoCombo
                /\ Release("standalone")
             \/ /\ status' \in {status, "NotReleased"}
                /\ registered' \in {config.hotkey, NoCombo}
                /\ UNCHANGED capture
          /\ UNCHANGED <<file, torn>>
       \/ /\ status = "OffAwaitingReturn"
          /\ status' = "Off"
          /\ file' \in Persist(Load(file))
          /\ Tears(Load(file))
          /\ UNCHANGED <<registered, capture>>
    /\ UNCHANGED config
    /\ session' = Refreshed(session)
    /\ UNCHANGED <<entry, blocked, told, restarting, protected, switch, window,
                   lines, edits, kept, last>>

(* "Desligar a opcao" in the window shown when Win+V was not released.      *)
TurnOffWinV ==
    LET content == [Load(file) EXCEPT !["win_v"] = FALSE]
    IN  /\ window # "ended"
        /\ status = "NotReleased"
        /\ Event
        /\ status' \in OffStatus
        /\ config' = [config EXCEPT !["win_v"] = FALSE]
        /\ file' \in Persist(content)
        /\ Tears(content)
        /\ session' = Refreshed(session)
        /\ UNCHANGED <<registered, entry, blocked, told, restarting, protected,
                       switch, window, lines, capture, edits, kept, last>>

RestartDone ==
    /\ restarting
    /\ restarting' = FALSE
    /\ session' = (IF session = NoSession THEN session
                   ELSE [SyncWinV(session, config.win_v, status) EXCEPT
                            !.restart_in_progress = FALSE])
    /\ UNCHANGED <<config, file, registered, entry, blocked, told, status,
                   protected, switch, window, lines, capture, edits, events, ghosts>>

(* on_toggle_done: the Settings are unlocked; config keeps the target also  *)
(* when the switch failed.                                                  *)
ProtectionDone ==
    /\ switch # "idle"
    /\ window # "ended"
    /\ switch' = "idle"
    /\ protected' \in {protected, switch = "to_on"}
    /\ session' = (IF session = NoSession THEN session
                   ELSE [session EXCEPT !.protection_busy = FALSE])
    /\ UNCHANGED <<config, file, registered, entry, blocked, told, status,
                   restarting, window, lines, capture, edits, events, ghosts>>

ConflictOpens ==
    /\ window # "ended"
    /\ registered = NoCombo
    /\ status # "Active"
    /\ owner # "standalone"
    /\ owner' = "standalone"
    /\ armed' = TRUE
    /\ UNCHANGED <<world, window, session, lines, edits, events, ghosts>>

\* Mutant of PersistHotkeyOnly: the whole configuration is written.
PersistHotkeyOnly_Whole(combo) ==
    FieldsOf([config EXCEPT !["hotkey"] = combo])

PersistHotkeyOnly(combo) == [Load(file) EXCEPT !["hotkey"] = combo]

(* try_exchange: the new hotkey is registered, shared and written alone.    *)
Exchange(combo) ==
    /\ owner = "standalone"
    /\ combo # registered
    /\ Event
    /\ registered' = combo
    /\ config' = [config EXCEPT !["hotkey"] = combo]
    /\ file' \in Persist(PersistHotkeyOnly(combo))
    /\ Tears(PersistHotkeyOnly(combo))
    /\ Release("standalone")
    /\ kept' = [kept EXCEPT !["hotkey"] = combo]
    /\ UNCHANGED <<entry, blocked, told, status, restarting, protected, switch,
                   window, session, lines, edits, last>>

ConflictCloses ==
    /\ owner = "standalone"
    /\ Release("standalone")
    /\ UNCHANGED <<world, window, session, lines, edits, events, ghosts>>

TaskManager ==
    /\ Event
    /\ blocked' = ~blocked
    /\ UNCHANGED <<config, file, registered, entry, told, status, restarting,
                   protected, switch, window, session, lines, capture, edits, ghosts>>

(* The end of the program with the Settings open is a Cancel.               *)
Quit ==
    /\ window # "ended"
    /\ IF session = NoSession THEN UNCHANGED <<world, events>> ELSE Revert
    /\ window' = "ended"
    /\ session' = NoSession
    /\ lines' = {}
    /\ owner' = "none"
    /\ armed' = FALSE
    /\ UNCHANGED <<edits, ghosts>>

(* The next start, after Quit or after the process was killed.              *)
Start ==
    LET loaded == Load(file)
    IN  /\ Event
        /\ protected' \in {protected} \cup {on \in BOOLEAN :
                              switch = IF on THEN "to_on" ELSE "to_off"}
        /\ config' = [s \in ConfigField |->
                         IF s = "protection" THEN protected' ELSE loaded[s]]
        /\ told' = SentOf(config')
        /\ status' \in (IF loaded.win_v THEN OnStatus ELSE OffStatus)
        /\ registered' \in (IF status' = "Active" THEN {NoCombo}
                                                  ELSE {loaded.hotkey, NoCombo})
        /\ restarting' = FALSE
        /\ switch' = "idle"
        /\ window' = "closed"
        /\ session' = NoSession
        /\ lines' = {}
        /\ owner' = "none"
        /\ armed' = FALSE
        /\ kept' = ChosenIn(config')
        /\ UNCHANGED <<file, entry, blocked, edits, last, torn>>

Next ==
    \/ Open
    \/ \E s \in Numeric, text \in Numbers \cup {NoText} : SetNumericText(s, text)
    \/ \E s \in {"startup", "secret_detection", "protection", "win_v"} : Toggle(s)
    \/ \E p \in Programs : AddProgram(p)
    \/ RemoveProgram
    \/ Alter
    \/ Disarm
    \/ \E combo \in Combos : PressKey(combo)
    \/ Apply
    \/ Cancel
    \/ Save
    \/ AskToConfirm
    \/ Confirm
    \/ Back
    \/ AskToRestart
    \/ ConfirmRestart
    \/ ExplorerReturned
    \/ TurnOffWinV
    \/ RestartDone
    \/ ProtectionDone
    \/ ConflictOpens
    \/ \E combo \in Combos : Exchange(combo)
    \/ ConflictCloses
    \/ TaskManager
    \/ Quit
    \/ Start

Spec == Init /\ [][Next]_vars

-----------------------------------------------------------------------------
(* Properties.                                                              *)

SessionOK ==
    /\ \A copy \in {"saved", "in_effect", "draft"} : ValuesOf(Setting, session[copy])
    /\ \A s \in Numeric : session.text[s] \in Numbers \cup Nat \cup {NoText}
                          /\ session.shown[s] \in Nat
    /\ session.win_v_status \in OnStatus \cup OffStatus
    /\ {session.startup_blocked, session.protection_busy,
        session.restart_in_progress} \subseteq BOOLEAN

(* The type invariant; and only an open window has a session, whose Win+V   *)
(* follows the program's.                                                   *)
TypeOK ==
    /\ ValuesOf(ConfigField, config)
    /\ ValuesOf(FileField, file)
    /\ registered \in Combos \cup {NoCombo}
    /\ {entry, blocked, restarting, protected, armed, torn} \subseteq BOOLEAN
    /\ status \in (IF config.win_v THEN OnStatus ELSE OffStatus)
    /\ switch \in {"idle", "to_on", "to_off"}
    /\ window \in {"closed", "open", "confirm_save", "confirm_restart", "ended"}
    /\ owner \in {"none", "settings", "standalone"}
    /\ edits \in 0 .. MaxEdits /\ events \in 0 .. MaxTurns
    /\ session = NoSession <=> window \in {"closed", "ended"}
    /\ session # NoSession =>
          SessionOK /\ session.win_v_status = status /\ session.saved.win_v = config.win_v

(* config.toml holds what a Save last wrote, whatever was applied since and *)
(* whoever else wrote to it (the conflict window, Win+V, each only its own  *)
(* fields), unless a write that failed emptied it.                          *)
AppliedIsNotWritten == ~torn => \A s \in Written : Load(file)[s] = last[s]

(* With the window closed, whatever was applied, cancelled or left by a     *)
(* Save that failed, the configuration is that of the last Save, and the    *)
(* worker and the History window have been told that and nothing else.      *)
ClosingReverts ==
    window \in {"closed", "ended"} =>
        /\ \A s \in Written : config[s] = kept[s]
        /\ told = SentOf(config)

(* The worker is not told of a shorter term or of fewer items than the last *)
(* Save left, and the disabled start with Windows is not enabled again,     *)
(* unless the user has confirmed a text that says so.                       *)
ReductionIsConfirmed ==
    [][~Start =>
          /\ \A s \in Reducible : told'[s] < kept[s] => <<s, told'[s]>> \in lines
          /\ blocked /\ ~blocked' /\ ~TaskManager => <<"startup">> \in lines]_vars

(* While the database is rewritten the configuration shows the form it is   *)
(* rewritten to: a window opened meanwhile asks for no other switch, which  *)
(* the History window would refuse without a word.                          *)
ShownIsTheTarget == switch # "idle" => config.protection = (switch = "to_on")

(* "Cancelar volta ao que era" (README.md:49): with the window closed the   *)
(* hotkey of the configuration is the one last chosen for good, in a Save,  *)
(* in the conflict window or at the start.                                  *)
CancelGoesBack == window \in {"closed", "ended"} => config.hotkey = kept.hotkey
=============================================================================
